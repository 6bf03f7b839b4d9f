------------------------- MODULE ApprovalFileStorage -------------------------
(***************************************************************************)
(* The file-based approval store of cori-mcp (src/approval_storage.rs) and *)
(* the calls its users make on it: the MCP task, which stores requests and *)
(* links them to the audit log (executor.rs), and the dashboard's request  *)
(* handlers, which list, approve, reject and attach execution results      *)
(* (cori-dashboard/src/handlers.rs).  They run on different threads of one *)
(* multi-threaded tokio runtime and share one Arc<ApprovalManager>.        *)
(*                                                                         *)
(* A step is what happens between two points where another thread can      *)
(* intervene: one critical section of one of the three RwLocks, or one     *)
(* write to one of the three files.  Only the rewriting of a file happens  *)
(* inside a critical section; appends do not, so an append interleaves     *)
(* with another append and with a rewrite.                                 *)
(*                                                                         *)
(* A file is a sequence of tokens: a record (one JSON object) or a newline.*)
(* writeln! on an unbuffered File issues one write for the object and one  *)
(* for the newline.  A line that holds anything but one object does not    *)
(* parse and is skipped when the file is loaded.  A rewrite truncates the  *)
(* file and then writes from offset 0 with its own file offset (the file   *)
(* is not opened for appending), so it overlays what was appended between. *)
(* All records are taken to have one length.                               *)
(*                                                                         *)
(* Abstracted: the contents of a request other than what the properties    *)
(* tell apart, who decided and why, tenants (they filter what a listing    *)
(* returns, never what it does), and wall-clock time: `expired' holds the  *)
(* ids whose expires_at has passed and `clock' orders the decisions.       *)
(***************************************************************************)
EXTENDS Naturals, FiniteSets, Sequences, SequencesExt

CONSTANTS
    Ids,            \* approval ids (fresh UUIDs, so each is stored once)
    Threads,        \* the tasks that call the store
    Storers,        \* those that create requests: the MCP task
    MaxCacheSize,   \* max_cache_size: decided requests kept in each cache
    MaxDecisions,   \* bound: decisions in a behaviour
    MaxErrors,      \* bound: I/O errors in a behaviour
    MaxRestarts,    \* bound: crashes of the process in a behaviour
    Absent,         \* no entry
    Newline         \* the end of a line

Outcomes == {"Approved", "Rejected", "Expired", "Cancelled"}
Status == Outcomes \cup {"Pending"}

\* The parts of an ApprovalRequest that its handling depends on.
Request == [status : Status, decidedAt : Nat, auditIds : BOOLEAN, result : BOOLEAN]

\* One serialized request.
Record == [id : Ids, request : Request]

Files == {"pending", "approved", "denied"}

\* "append" .. "moved" are the steps of moving a decided request to its file;
\* the first two also serve store_pending.
Labels == {"idle", "insert", "append", "newline", "clear", "rewritePending", "moved",
           "audit", "auditPending", "auditApproved", "rewriteApproved"}

ASSUME ConstantsAssumption ==
    /\ IsFiniteSet(Ids)
    /\ Storers \subseteq Threads
    /\ MaxCacheSize \in Nat \ {0}
    /\ MaxDecisions \in Nat
    /\ MaxErrors \in Nat
    /\ MaxRestarts \in Nat
    /\ Absent \notin Request \cup Ids
    /\ Newline \notin Record

VARIABLES
    pending, approved, denied,  \* the three caches: id -> Request or Absent
    log,                        \* the three files
    created,                    \* ids handed out so far
    expired,                    \* ids whose expires_at has passed
    clock,                      \* time of the last decision
    pc, target, clone, todo,    \* per thread: next step, id, cloned request, and
                                \* the expired requests list_pending still has to move
    errors, restarts,           \* faults so far
    outcomes,                   \* history: every decision taken on an id
    stored,                     \* history: ids whose line is written to pending.log
    settled,                    \* history: decided ids cleared from pending.log after
                                \* their store_pending had finished
    torn                        \* history: a fault cut a write to a file in two

caches == <<pending, approved, denied>>
local == <<pc, target, clone, todo>>
faults == <<errors, restarts>>
history == <<outcomes, stored, settled, torn>>
vars == <<caches, log, created, expired, clock, local, faults, history>>

-----------------------------------------------------------------------------
(* Locks.  A critical section that rewrites a file spans two steps; the     *)
(* thread that is between them holds the lock.                              *)

\* Mutant: list_pending keeps the write lock while it moves what has expired.
PendingReadableHeld == \A u \in Threads : pc[u] # "auditPending" /\ todo[u] = {}

PendingReadable == \A u \in Threads : pc[u] # "auditPending"
PendingWritable == \A u \in Threads : pc[u] \notin {"auditPending", "rewritePending"}
ApprovedWritable == \A u \in Threads : pc[u] # "rewriteApproved"

-----------------------------------------------------------------------------
(* Files.                                                                   *)

Cached(cache) == {i \in Ids : cache[i] # Absent}

\* The text that rewrite_file writes: every cached request, one per line.
Serialized(cache) ==
    LET ids == SetToSeq(Cached(cache))
    IN  [n \in 1 .. 2 * Cardinality(Cached(cache)) |->
            IF n % 2 = 1
            THEN [id |-> ids[(n + 1) \div 2], request |-> cache[ids[(n + 1) \div 2]]]
            ELSE Newline]

Overlay(file, text) == text \o SubSeq(file, Len(text) + 1, Len(file))

\* Token n is an object that has its line for itself.
IsLine(file, n) ==
    /\ file[n] # Newline
    /\ n = 1 \/ file[n - 1] = Newline
    /\ n = Len(file) \/ file[n + 1] = Newline

IsLast(S, n) == n \in S /\ \A m \in S : m <= n

\* load_from_file, then insert every request in file order: the last line of an id wins.
LoadFromFile(file) ==
    [i \in Ids |->
        LET lines == {n \in DOMAIN file : IsLine(file, n) /\ file[n].id = i}
        IN  IF \E n \in lines : IsLast(lines, n)
            THEN file[CHOOSE n \in lines : IsLast(lines, n)].request
            ELSE Absent]

\* Mutant: one file for all decisions.
FileOfAnyDecision(request) == IF request.status = "Pending" THEN "pending" ELSE "approved"

FileOf(request) ==
    CASE request.status = "Pending"  -> "pending"
      [] request.status = "Approved" -> "approved"
      [] OTHER                       -> "denied"

\* How many entries an insertion has left the cache over its bound.
Excess(cache) ==
    IF Cardinality(Cached(cache)) > MaxCacheSize
    THEN Cardinality(Cached(cache)) - MaxCacheSize
    ELSE 0

\* Mutant: the most recent decisions are trimmed.
EvictionsNewest(cache) ==
    {R \in SUBSET Cached(cache) :
        /\ Cardinality(R) = Excess(cache)
        /\ \A r \in R, k \in Cached(cache) \ R : cache[r].decidedAt >= cache[k].decidedAt}

\* What the trimming may remove: the oldest decisions, ties broken by the
\* iteration order of the map.
Evictions(cache) ==
    {R \in SUBSET Cached(cache) :
        /\ Cardinality(R) = Excess(cache)
        /\ \A r \in R, k \in Cached(cache) \ R : cache[r].decidedAt <= cache[k].decidedAt}

Without(cache, S) == [i \in Ids |-> IF i \in S THEN Absent ELSE cache[i]]

-----------------------------------------------------------------------------

\* ApprovalRequest::new
NewRequest == [status |-> "Pending", decidedAt |-> 0, auditIds |-> FALSE, result |-> FALSE]

Init ==
    /\ pending = [i \in Ids |-> Absent]
    /\ approved = [i \in Ids |-> Absent]
    /\ denied = [i \in Ids |-> Absent]
    /\ log = [f \in Files |-> <<>>]
    /\ created = {}
    /\ expired = {}
    /\ clock = 0
    /\ pc = [t \in Threads |-> "idle"]
    /\ target = [t \in Threads |-> Absent]
    /\ clone = [t \in Threads |-> Absent]
    /\ todo = [t \in Threads |-> {}]
    /\ errors = 0
    /\ restarts = 0
    /\ outcomes = [i \in Ids |-> {}]
    /\ stored = {}
    /\ settled = {}
    /\ torn = FALSE

\* Thread t returns from its call.
Return(t) ==
    /\ pc' = [pc EXCEPT ![t] = "idle"]
    /\ target' = [target EXCEPT ![t] = Absent]
    /\ clone' = [clone EXCEPT ![t] = Absent]
    /\ todo' = [todo EXCEPT ![t] = {}]

\* ... or goes on, with the same locals.
GoTo(t, label) ==
    /\ pc' = [pc EXCEPT ![t] = label]
    /\ UNCHANGED <<target, clone, todo>>

-----------------------------------------------------------------------------
(* store_pending, called by create_request, and the update_audit_ids that   *)
(* the executor calls next on the same request.                             *)

StorePending(t, i) ==
    /\ t \in Storers
    /\ pc[t] = "idle"
    /\ i \notin created
    /\ PendingWritable
    /\ created' = created \cup {i}
    /\ pending' = [pending EXCEPT ![i] = NewRequest]
    /\ pc' = [pc EXCEPT ![t] = "append"]
    /\ target' = [target EXCEPT ![t] = i]
    /\ clone' = [clone EXCEPT ![t] = NewRequest]
    /\ UNCHANGED <<approved, denied, log, expired, clock, todo, faults, history>>

\* append_to_file, the write of the object ...
AppendRecord(t) ==
    /\ pc[t] = "append"
    /\ log' = [log EXCEPT ![FileOf(clone[t])] =
                  Append(@, [id |-> target[t], request |-> clone[t]])]
    /\ GoTo(t, "newline")
    /\ UNCHANGED <<caches, created, expired, clock, faults, history>>

\* ... and of the newline.
AppendNewline(t) ==
    /\ pc[t] = "newline"
    /\ log' = [log EXCEPT ![FileOf(clone[t])] = Append(@, Newline)]
    /\ GoTo(t, IF clone[t].status = "Pending" THEN "audit" ELSE "clear")
    /\ stored' = IF clone[t].status = "Pending" THEN stored \cup {target[t]} ELSE stored
    /\ UNCHANGED <<caches, created, expired, clock, faults, outcomes, settled, torn>>

\* No audit logger, or the event could not be logged.
SkipAuditIds(t) ==
    /\ pc[t] = "audit"
    /\ Return(t)
    /\ UNCHANGED <<caches, log, created, expired, clock, faults, history>>

\* set_audit_ids
Linked(request) == [request EXCEPT !.auditIds = TRUE]

\* update_audit_ids: the request is still cached as pending.
LinkPending(t) ==
    /\ pc[t] = "audit"
    /\ PendingWritable
    /\ pending[target[t]] # Absent
    /\ pending' = [pending EXCEPT ![target[t]] = Linked(@)]
    /\ log' = [log EXCEPT !["pending"] = <<>>]
    /\ GoTo(t, "auditPending")
    /\ UNCHANGED <<approved, denied, created, expired, clock, faults, history>>

\* It is not; the pending lock is released and the approved cache comes next.
LinkElsewhere(t) ==
    /\ pc[t] = "audit"
    /\ PendingWritable
    /\ pending[target[t]] = Absent
    /\ GoTo(t, "auditApproved")
    /\ UNCHANGED <<caches, log, created, expired, clock, faults, history>>

LinkApproved(t) ==
    /\ pc[t] = "auditApproved"
    /\ ApprovedWritable
    /\ approved[target[t]] # Absent
    /\ approved' = [approved EXCEPT ![target[t]] = Linked(@)]
    /\ log' = [log EXCEPT !["approved"] = <<>>]
    /\ GoTo(t, "rewriteApproved")
    /\ UNCHANGED <<pending, denied, created, expired, clock, faults, history>>

\* NotFound, which the executor only logs.
LinkNowhere(t) ==
    /\ pc[t] = "auditApproved"
    /\ ApprovedWritable
    /\ approved[target[t]] = Absent
    /\ Return(t)
    /\ UNCHANGED <<caches, log, created, expired, clock, faults, history>>

\* Mutant: the truncated file is left to the next append.
FinishLinkLazily(t) ==
    /\ pc[t] = "auditPending"
    /\ Return(t)
    /\ UNCHANGED <<caches, log, created, expired, clock, faults, history>>

\* The second half of rewrite_file under the write lock of the cache.
FinishLink(t) ==
    /\ pc[t] = "auditPending"
    /\ log' = [log EXCEPT !["pending"] = Overlay(@, Serialized(pending))]
    /\ Return(t)
    /\ UNCHANGED <<caches, created, expired, clock, faults, history>>

FinishRewriteApproved(t) ==
    /\ pc[t] = "rewriteApproved"
    /\ log' = [log EXCEPT !["approved"] = Overlay(@, Serialized(approved))]
    /\ Return(t)
    /\ UNCHANGED <<caches, created, expired, clock, faults, history>>

-----------------------------------------------------------------------------
(* Deciding: approve, reject, cancel, and the expiry that get, list_pending,*)
(* approve and reject perform on the way.                                   *)

\* Mutant: decided_at is left at None.
DecidedUntimed(request, outcome) ==
    [request EXCEPT !.status = outcome, !.decidedAt = Absent]

Decided(request, outcome) == [request EXCEPT !.status = outcome, !.decidedAt = clock + 1]

\* The outcome of a decision is recorded in the history at the moment the
\* request is changed, under the write lock.
Note(S, outcome) ==
    /\ clock < MaxDecisions
    /\ clock' = clock + 1
    /\ outcomes' = [i \in Ids |->
           IF i \in S THEN outcomes[i] \cup {[status |-> outcome, at |-> clock + 1]}
                      ELSE outcomes[i]]

\* Thread t takes the decided request i out of the pending cache.
TakeOut(t, i, outcome) ==
    /\ pending' = [pending EXCEPT ![i] = Absent]
    /\ pc' = [pc EXCEPT ![t] = "insert"]
    /\ target' = [target EXCEPT ![t] = i]
    /\ clone' = [clone EXCEPT ![t] = Decided(pending[i], outcome)]
    /\ Note({i}, outcome)
    /\ UNCHANGED <<approved, denied, log, created, expired, todo, faults, stored, settled, torn>>

IsExpired(i) == i \in expired

\* Mutant: the status of the request is not looked at.
ApproveAnyStatus(t, i) ==
    /\ pc[t] = "idle"
    /\ PendingWritable
    /\ pending[i] # Absent
    /\ TakeOut(t, i, IF pending[i].status = "Pending" /\ IsExpired(i)
                     THEN "Expired" ELSE "Approved")

\* Mutant: the request stays in the pending cache until it is moved.
ApproveInPlace(t, i) ==
    /\ pc[t] = "idle"
    /\ PendingWritable
    /\ pending[i] # Absent
    /\ ~IsExpired(i) /\ pending[i].status = "Pending"
    /\ pc' = [pc EXCEPT ![t] = "insert"]
    /\ target' = [target EXCEPT ![t] = i]
    /\ clone' = [clone EXCEPT ![t] = Decided(pending[i], "Approved")]
    /\ Note({i}, "Approved")
    /\ UNCHANGED <<caches, log, created, expired, todo, faults, stored, settled, torn>>

\* A request past its expires_at is moved as Expired whatever its status; any
\* other must be Pending.  NotFound and AlreadyDecided change nothing.
Approve(t, i) ==
    /\ pc[t] = "idle"
    /\ PendingWritable
    /\ pending[i] # Absent
    /\ IsExpired(i) \/ pending[i].status = "Pending"
    /\ TakeOut(t, i, IF IsExpired(i) THEN "Expired" ELSE "Approved")

Reject(t, i) ==
    /\ pc[t] = "idle"
    /\ PendingWritable
    /\ pending[i] # Absent
    /\ IsExpired(i) \/ pending[i].status = "Pending"
    /\ TakeOut(t, i, IF IsExpired(i) THEN "Expired" ELSE "Rejected")

\* Unlike approve and reject, cancel does not look at the clock.
Cancel(t, i) ==
    /\ pc[t] = "idle"
    /\ PendingWritable
    /\ pending[i] # Absent
    /\ pending[i].status = "Pending"
    /\ TakeOut(t, i, "Cancelled")

\* Mutant: the clone is expired, the cached request is not.
GetOverdueClone(t, i) ==
    /\ pc[t] = "idle"
    /\ PendingWritable
    /\ pending[i] # Absent
    /\ pending[i].status = "Pending" /\ IsExpired(i)
    /\ pc' = [pc EXCEPT ![t] = "insert"]
    /\ target' = [target EXCEPT ![t] = i]
    /\ clone' = [clone EXCEPT ![t] = Decided(pending[i], "Expired")]
    /\ Note({i}, "Expired")
    /\ UNCHANGED <<caches, log, created, expired, todo, faults, stored, settled, torn>>

\* get, of a request that is overdue: it is marked Expired in the pending cache,
\* stays there, and a clone is moved to the denied ones.  (Any other request is
\* looked up in the pending, the approved and the denied cache in turn, which
\* changes nothing.)
GetOverdue(t, i) ==
    /\ pc[t] = "idle"
    /\ PendingWritable
    /\ pending[i] # Absent
    /\ pending[i].status = "Pending" /\ IsExpired(i)
    /\ pending' = [pending EXCEPT ![i] = Decided(@, "Expired")]
    /\ pc' = [pc EXCEPT ![t] = "insert"]
    /\ target' = [target EXCEPT ![t] = i]
    /\ clone' = [clone EXCEPT ![t] = Decided(pending[i], "Expired")]
    /\ Note({i}, "Expired")
    /\ UNCHANGED <<approved, denied, log, created, expired, todo, faults, stored, settled, torn>>

\* list_pending expires and takes out every overdue request at once and then
\* moves them one after the other.  (With none overdue it changes nothing.)
ListPending(t) ==
    LET overdue == {i \in expired : pending[i] # Absent /\ pending[i].status = "Pending"}
    IN  /\ pc[t] = "idle"
        /\ PendingWritable
        /\ overdue # {}
        /\ pending' = Without(pending, overdue)
        /\ todo' = [todo EXCEPT ![t] =
                       {[id |-> i, request |-> Decided(pending[i], "Expired")] : i \in overdue}]
        /\ pc' = [pc EXCEPT ![t] = "moved"]
        /\ Note(overdue, "Expired")
        /\ UNCHANGED <<approved, denied, log, created, expired, target, clone, faults,
                       stored, settled, torn>>

-----------------------------------------------------------------------------
(* move_to_approved and move_to_denied.                                     *)

\* Mutant: a denied request is cached but never appended to its file.
InsertDeniedUnlogged(t) ==
    /\ pc[t] = "insert"
    /\ clone[t].status # "Approved"
    /\ LET grown == [denied EXCEPT ![target[t]] = clone[t]]
       IN  \E R \in Evictions(grown) : denied' = Without(grown, R)
    /\ GoTo(t, "clear")
    /\ UNCHANGED <<pending, approved, log, created, expired, clock, faults, history>>

InsertDenied(t) ==
    /\ pc[t] = "insert"
    /\ clone[t].status # "Approved"
    /\ LET grown == [denied EXCEPT ![target[t]] = clone[t]]
       IN  \E R \in Evictions(grown) : denied' = Without(grown, R)
    /\ GoTo(t, "append")
    /\ UNCHANGED <<pending, approved, log, created, expired, clock, faults, history>>

InsertApproved(t) ==
    /\ pc[t] = "insert"
    /\ clone[t].status = "Approved"
    /\ ApprovedWritable
    /\ LET grown == [approved EXCEPT ![target[t]] = clone[t]]
       IN  \E R \in Evictions(grown) : approved' = Without(grown, R)
    /\ GoTo(t, "append")
    /\ UNCHANGED <<pending, denied, log, created, expired, clock, faults, history>>

StillStoring(i) ==
    \E u \in Threads : /\ pc[u] \in {"append", "newline"}
                       /\ target[u] = i
                       /\ clone[u].status = "Pending"

\* The move takes the read lock of the pending cache and truncates pending.log ...
Clear(t) ==
    /\ pc[t] = "clear"
    /\ PendingReadable
    /\ log' = [log EXCEPT !["pending"] = <<>>]
    /\ GoTo(t, "rewritePending")
    /\ settled' = IF StillStoring(target[t]) THEN settled ELSE settled \cup {target[t]}
    /\ UNCHANGED <<caches, created, expired, clock, faults, outcomes, stored, torn>>

\* Mutant: the file is written from a map that still holds the moved request.
RewritePendingEarly(t) ==
    /\ pc[t] = "rewritePending"
    /\ LET before == [pending EXCEPT ![target[t]] = NewRequest]
       IN  log' = [log EXCEPT !["pending"] = Overlay(@, Serialized(before))]
    /\ GoTo(t, "moved")
    /\ UNCHANGED <<caches, created, expired, clock, faults, history>>

\* ... and writes it anew, without the moved request.
RewritePending(t) ==
    /\ pc[t] = "rewritePending"
    /\ log' = [log EXCEPT !["pending"] = Overlay(@, Serialized(pending))]
    /\ GoTo(t, "moved")
    /\ UNCHANGED <<caches, created, expired, clock, faults, history>>

\* list_pending goes on with another expired request.
MoveNext(t) ==
    /\ pc[t] = "moved"
    /\ \E record \in todo[t] :
           /\ target' = [target EXCEPT ![t] = record.id]
           /\ clone' = [clone EXCEPT ![t] = record.request]
           /\ todo' = [todo EXCEPT ![t] = @ \ {record}]
    /\ pc' = [pc EXCEPT ![t] = "insert"]
    /\ UNCHANGED <<caches, log, created, expired, clock, faults, history>>

\* The call returns: get, list_pending, reject, cancel, and an approve whose
\* caller has nothing to attach (the MCP server's, or a dashboard that finds no
\* role or database to execute with).
ReturnMoved(t) ==
    /\ pc[t] = "moved"
    /\ todo[t] = {}
    /\ Return(t)
    /\ UNCHANGED <<caches, log, created, expired, clock, faults, history>>

WithResult(request) == [request EXCEPT !.result = TRUE]

\* The dashboard has executed the approved action and calls update_with_result.
\* A request that is no longer cached is NotFound, which is only logged.
UpdateWithResult(t) ==
    /\ pc[t] = "moved"
    /\ todo[t] = {}
    /\ clone[t].status = "Approved"
    /\ ApprovedWritable
    /\ IF approved[target[t]] # Absent
       THEN /\ approved' = [approved EXCEPT ![target[t]] = WithResult(@)]
            /\ log' = [log EXCEPT !["approved"] = <<>>]
            /\ GoTo(t, "rewriteApproved")
       ELSE /\ Return(t)
            /\ UNCHANGED <<approved, log>>
    /\ UNCHANGED <<pending, denied, created, expired, clock, faults, history>>

-----------------------------------------------------------------------------

\* The expires_at of a request passes.
TimePasses(i) ==
    /\ i \in created \ expired
    /\ expired' = expired \cup {i}
    /\ UNCHANGED <<caches, log, created, clock, local, faults, history>>

Call(t) ==
    \/ ListPending(t)
    \/ \E i \in Ids :
          \/ StorePending(t, i)
          \/ Approve(t, i)
          \/ Reject(t, i)
          \/ GetOverdue(t, i)

Continue(t) ==
    \/ AppendRecord(t)
    \/ AppendNewline(t)
    \/ SkipAuditIds(t)
    \/ LinkPending(t)
    \/ LinkElsewhere(t)
    \/ LinkApproved(t)
    \/ LinkNowhere(t)
    \/ FinishLink(t)
    \/ FinishRewriteApproved(t)
    \/ InsertDenied(t)
    \/ InsertApproved(t)
    \/ Clear(t)
    \/ RewritePending(t)
    \/ MoveNext(t)
    \/ ReturnMoved(t)
    \/ UpdateWithResult(t)

Next ==
    \/ \E t \in Threads : Call(t) \/ Continue(t)
    \/ \E i \in Ids : TimePasses(i)

Spec == Init /\ [][Next]_vars

\* A call that has begun is run to its end: the steps are synchronous code of a
\* thread the operating system schedules.  Nobody is obliged to begin a call.
Fairness == \A t \in Threads : WF_vars(Continue(t))

FairSpec == Spec /\ Fairness

-----------------------------------------------------------------------------
(* Faults, and the two operations that no other crate calls: cancel, cleanup. *)

\* Labels of a thread that has written one part of a file and not the other.
MidWrite == {"newline", "auditPending", "rewritePending", "rewriteApproved"}

\* A write, or the opening of a file, fails.  create_request logs the error and
\* goes on; everything else returns it to the caller, list_pending without
\* moving the requests it still has to move.
IoError(t) ==
    /\ errors < MaxErrors
    /\ pc[t] \in MidWrite \cup {"append", "clear"}
    /\ errors' = errors + 1
    /\ torn' = (torn \/ pc[t] \in MidWrite)
    /\ IF pc[t] \in {"append", "newline"} /\ clone[t].status = "Pending"
       THEN GoTo(t, "audit")
       ELSE Return(t)
    /\ UNCHANGED <<caches, log, created, expired, clock, restarts, outcomes, stored, settled>>

\* The process dies and ApprovalFileStorage::new loads the files, untrimmed.
Restart ==
    /\ restarts < MaxRestarts
    /\ restarts' = restarts + 1
    /\ torn' = (torn \/ \E t \in Threads : pc[t] \in MidWrite)
    /\ pending' = LoadFromFile(log["pending"])
    /\ approved' = LoadFromFile(log["approved"])
    /\ denied' = LoadFromFile(log["denied"])
    /\ pc' = [t \in Threads |-> "idle"]
    /\ target' = [t \in Threads |-> Absent]
    /\ clone' = [t \in Threads |-> Absent]
    /\ todo' = [t \in Threads |-> {}]
    /\ UNCHANGED <<log, created, expired, clock, errors, outcomes, stored, settled>>

\* cleanup forgets the decisions older than a cutoff, in the caches only.
Cleanup(cutoff) ==
    /\ ApprovedWritable
    /\ approved' = Without(approved, {i \in Cached(approved) : approved[i].decidedAt <= cutoff})
    /\ denied' = Without(denied, {i \in Cached(denied) : denied[i].decidedAt <= cutoff})
    /\ UNCHANGED <<pending, log, created, expired, clock, local, faults, history>>

FaultyNext ==
    \/ Next
    \/ \E t \in Threads : IoError(t) \/ \E i \in Ids : Cancel(t, i)
    \/ Restart
    \/ \E cutoff \in 1 .. clock : Cleanup(cutoff)

FaultySpec == Init /\ [][FaultyNext]_vars

-----------------------------------------------------------------------------
(* Properties.                                                              *)

Decision == [status : Outcomes, at : Nat]

\* The types of the variables.
TypeOK ==
    /\ pending \in [Ids -> Request \cup {Absent}]
    /\ approved \in [Ids -> Request \cup {Absent}]
    /\ denied \in [Ids -> Request \cup {Absent}]
    /\ log \in [Files -> Seq(Record \cup {Newline})]
    /\ created \in SUBSET Ids
    /\ expired \in SUBSET created
    /\ clock \in Nat
    /\ pc \in [Threads -> Labels]
    /\ target \in [Threads -> Ids \cup {Absent}]
    /\ clone \in [Threads -> Request \cup {Absent}]
    /\ todo \in [Threads -> SUBSET Record]
    /\ errors \in Nat
    /\ restarts \in Nat
    /\ outcomes \in [Ids -> SUBSET Decision]
    /\ stored \in SUBSET Ids
    /\ settled \in SUBSET Ids
    /\ torn \in BOOLEAN

\* However approve, reject, cancel, get and list_pending interleave, a request
\* receives one decision.  The only repetition is that an overdue request which
\* get has left in the pending cache is expired again.
DecidedAtMostOnce ==
    \A i \in Ids : \A d, e \in outcomes[i] :
        d # e => d.status = "Expired" /\ e.status = "Expired"

\* The decision a cached or cloned request carries was taken on that request.
Carries(i, request) == [status |-> request.status, at |-> request.decidedAt] \in outcomes[i]

\* The three caches tell one story: a request cached as pending is undecided or
\* expired, one cached as approved or denied carries the decision that was taken,
\* and no request is both approved and denied.
CachesAgree ==
    \A i \in Ids :
        /\ pending[i] # Absent =>
              \/ pending[i].status = "Pending" /\ outcomes[i] = {}
              \/ pending[i].status = "Expired" /\ Carries(i, pending[i])
        /\ approved[i] # Absent => approved[i].status = "Approved" /\ Carries(i, approved[i])
        /\ denied[i] # Absent => denied[i].status # "Approved" /\ Carries(i, denied[i])
        /\ approved[i] = Absent \/ denied[i] = Absent

\* On its way from the pending cache to the cache of its decision.
InTransit(i) ==
    \E t \in Threads : \/ pc[t] = "insert" /\ target[t] = i
                       \/ \E record \in todo[t] : record.id = i

\* The other requests that received a decision of the same cache as d at the time
\* of d or later.  (The time of the decision and not that of the entry, and all
\* decisions and not what is cached now: of an expiry that happens twice the
\* earlier clone may be inserted last, and then displaced as the older one.)
DecidedSince(i, d) ==
    {k \in Ids \ {i} : \E e \in outcomes[k] :
        (e.status = "Approved") = (d.status = "Approved") /\ e.at >= d.at}

\* Since one of the decisions on i as many others were taken as the cache holds.
Displaced(i) == \E d \in outcomes[i] : Cardinality(DecidedSince(i, d)) >= MaxCacheSize

\* No request falls between the locks: an undecided one is cached as pending, a
\* decided one is being moved or is cached as what it is, unless as many later
\* decisions as the cache holds have displaced it.  In particular the execution
\* result of an approval finds its request.
NothingVanishes ==
    \A i \in created :
        /\ outcomes[i] = {} => pending[i] # Absent
        /\ outcomes[i] # {} =>
              InTransit(i) \/ approved[i] # Absent \/ denied[i] # Absent \/ Displaced(i)

\* With one storing task, pending.log holds an up-to-date line of every request
\* that awaits a decision, except while it is being rewritten or the request is
\* being stored: a concurrent append and rewrite never lose one.
PendingOnDisk ==
    PendingWritable =>
        \A i \in Ids :
            pending[i] # Absent /\ pending[i].status = "Pending" /\ ~StillStoring(i)
                => LoadFromFile(log["pending"])[i] = pending[i]

\* The last record of id i in a file, whether or not its line parses.
LatestIn(file, i) ==
    LET at == {n \in DOMAIN file : file[n] # Newline /\ file[n].id = i}
    IN  IF at = {} THEN Absent ELSE file[CHOOSE n \in at : IsLast(at, n)].request

BeingAppended(i) == \E t \in Threads : pc[t] = "append" /\ target[t] = i

SameDecision(r, s) ==
    r # Absent /\ r.status = s.status /\ r.result = s.result

\* Every cached decision is in its file, with the execution result if there is
\* one: the rewriting of approved.log from its cache never undoes an append or a
\* result recorded before.
DecisionsOnDisk ==
    \A i \in Ids : ~BeingAppended(i) =>
        /\ ApprovedWritable /\ approved[i] # Absent =>
              SameDecision(LatestIn(log["approved"], i), approved[i])
        /\ denied[i] # Absent => SameDecision(LatestIn(log["denied"], i), denied[i])

\* What the history makes of a request, for the abstract specification.
StatusOf ==
    [i \in Ids |->
        IF i \notin created THEN "Unknown"
        ELSE IF outcomes[i] = {} THEN "Pending"
        ELSE (CHOOSE d \in outcomes[i] : TRUE).status]

Lifecycle == INSTANCE ApprovalLifecycle WITH status <- StatusOf

\* The store implements the lifecycle of ApprovalLifecycle.
ImplementsLifecycle == Lifecycle!Spec

\* Every call returns: the three locks never block each other for good.
CallsReturn == \A t \in Threads : []<>(pc[t] = "idle")

-----------------------------------------------------------------------------
(* Properties that also hold with faults.                                   *)

\* Whatever is lost, nothing is made up: every decision in a cache or a file was
\* taken on that request, and approved.log holds approvals only.
NoInventedDecision ==
    /\ \A i \in Ids :
          /\ approved[i] # Absent => approved[i].status = "Approved" /\ Carries(i, approved[i])
          /\ denied[i] # Absent => denied[i].status # "Approved" /\ Carries(i, denied[i])
    /\ \A f \in Files : \A n \in DOMAIN log[f] : log[f][n] # Newline =>
          LET record == log[f][n]
          IN  CASE f = "approved" ->
                     record.request.status = "Approved" /\ Carries(record.id, record.request)
                [] f = "denied" ->
                     record.request.status # "Approved" /\ Carries(record.id, record.request)
                [] f = "pending" ->
                     \/ record.request.status = "Pending"
                     \/ record.request.status = "Expired" /\ Carries(record.id, record.request)

\* A decided request that its move has cleared from pending.log, after its own
\* store_pending had finished, never awaits a decision again, through any number
\* of restarts and I/O errors.
NoResurrection ==
    \A i \in settled : pending[i] # Absent => pending[i].status # "Pending"

\* A restart between two writes loses no stored request that awaits a decision.
UndecidedSurvive ==
    errors = 0 /\ ~torn =>
        \A i \in stored : outcomes[i] = {} =>
            pending[i] # Absent /\ pending[i].status = "Pending"

-----------------------------------------------------------------------------
(* What the repository says of the files and the code does not do.          *)

\* "Each file uses JSON Lines format (one JSON object per line)".
OneObjectPerLine ==
    \A f \in Files : \A n \in 1 .. Len(log[f]) - 1 :
        log[f][n] # Newline => log[f][n + 1] = Newline

\* "keep file intact for audit trail": an approval that was written to
\* approved.log stays there.
AuditTrailIntact ==
    \A i \in Ids :
        (\E d \in outcomes[i] : d.status = "Approved") /\ ~InTransit(i) /\ ~BeingAppended(i)
            /\ ApprovedWritable
        => LatestIn(log["approved"], i) # Absent

=============================================================================
