------------------------------ MODULE AuditLog ------------------------------
(***************************************************************************)
(* The audit log (cori-audit/src/logger.rs and storage.rs) and those who   *)
(* write it in the workflow of an approval: the server task, which logs    *)
(* what is requested and links the request to its event (ToolExecutor::    *)
(* execute, cori-mcp/src/executor.rs), and the dashboard's handlers, which *)
(* log the decision as a child of that event and the outcome as a child of *)
(* the decision (approval_approve, approval_reject,                        *)
(* cori-dashboard/src/handlers.rs).                                        *)
(*                                                                         *)
(* FileStorage::store writes the object, then the newline, then pushes to  *)
(* the cache under its lock; the writes hold no lock, so the threads of    *)
(* the runtime interleave between them.  The file is opened for appending. *)
(* An I/O error makes store fail and may leave part of an object behind.   *)
(*                                                                         *)
(* Abstracted: an event is its type, its request and its parent.  Ids and  *)
(* occurred_at are given when an event is built and are both the place in  *)
(* `built'.  Direct events stand for every event outside the workflow of   *)
(* an approval: none has a parent.  What decides a request is one step     *)
(* (ApprovalFileStorage); its execution is one step (ApprovalWorkflow).    *)
(***************************************************************************)
EXTENDS Naturals, FiniteSets, Sequences, SequencesExt

CONSTANTS
    Requests,       \* approval requests
    Servers,        \* the tasks that execute tool calls
    Handlers,       \* the dashboard's handlers
    CacheSize,      \* max_cache_size
    MaxDirect,      \* bound: direct events
    MaxErrors,      \* bound: I/O errors
    MaxRestarts,    \* bound: restarts of the process
    Newline, Cut,   \* what a file holds besides objects: ends of lines, parts of objects
    None            \* no event, no request

Workers == Servers \cup Handlers

\* requested, approved, denied: ApprovalRequested, Approved, Denied;
\* executed, failed, called: QueryExecuted, QueryFailed, ToolCalled after an approval.
Kinds == {"requested", "approved", "denied", "executed", "failed", "called", "direct"}

\* A worker whose pc is a kind is about to log an event of that kind.
Labels == Kinds \cup {"idle", "object", "newline", "push", "link", "approve", "reject", "execute"}

Event == [kind : Kinds, request : Requests \cup {None}, parent : Nat \cup {None}]

ASSUME ConstantsAssumption ==
    /\ None \notin Requests \cup Nat
    /\ Newline \notin Nat \cup {Cut} /\ Cut \notin Nat
    /\ CacheSize \in Nat \ {0}
    /\ {MaxDirect, MaxErrors, MaxRestarts} \subseteq Nat

VARIABLES
    built,          \* events so far
    file,           \* audit.log: events, ends of lines, parts of objects
    cache,          \* FileStorage.events
    status, link,   \* per request: its status and its audit_event_id
    pc,             \* per worker: what it does next ...
    target,         \* ... the request that it works on ...
    parent,         \* ... the parent of its next event ...
    event,          \* ... and the event that it stores
    errors, restarts,   \* faults so far
    logged          \* history: events whose logging succeeded

requests == <<status, link>>
local == <<pc, target, parent, event>>
faults == <<errors, restarts>>
vars == <<built, file, cache, requests, local, faults, logged>>

Init ==
    /\ built = <<>> /\ file = <<>> /\ cache = <<>>
    /\ status = [r \in Requests |-> "Unknown"]
    /\ link = [r \in Requests |-> None]
    /\ pc = [w \in Workers |-> "idle"]
    /\ target = [w \in Workers |-> None]
    /\ parent = [w \in Workers |-> None]
    /\ event = [w \in Workers |-> None]
    /\ errors = 0 /\ restarts = 0
    /\ logged = {}

-----------------------------------------------------------------------------
(* Reading.                                                                 *)

\* Token n is an object that has its line for itself.
IsLine(n) ==
    /\ file[n] \notin {Newline, Cut}
    /\ n = 1 \/ file[n - 1] = Newline
    /\ n = Len(file) \/ file[n + 1] = Newline

Readable == {file[n] : n \in {m \in DOMAIN file : IsLine(m)}}

\* Mutant: what does not parse is not skipped.
LoadEverything == SelectSeq(file, LAMBDA token : token # Newline)

\* The elements of a sequence at some of its places: a loop that takes or leaves each.
TakenAt(s, places) ==
    LET taken[n \in 0 .. Len(s)] ==
            IF n = 0 THEN <<>>
            ELSE IF n \in places THEN Append(taken[n - 1], s[n])
            ELSE taken[n - 1]
    IN  taken[Len(s)]

\* load_from_file: what parses, token after token.
LoadFromFile == TakenAt(file, {n \in DOMAIN file : IsLine(n)})

\* Of an event, those of the cache that have it for a parent.
Children(id) == TakenAt(cache, {n \in DOMAIN cache : built[cache[n]].parent = id})

\* One turn of the loop of get_event_tree: the children of the last of to_process.
Visit(walk) ==
    IF walk.to_process = <<>> THEN walk
    ELSE LET children == Children(Last(walk.to_process))
         IN  [tree |-> walk.tree \o children, to_process |-> Front(walk.to_process) \o children]

\* sort_by occurred_at, which is stable: one time after the other.
ByTime(tree) ==
    LET sorted[n \in 0 .. Len(built)] ==
            IF n = 0 THEN <<>>
            ELSE sorted[n - 1] \o TakenAt(tree, {k \in DOMAIN tree : tree[k] = n})
    IN  sorted[Len(built)]

\* get_event_tree of an event in the cache: each turn visits one cached event.
GetEventTree(root) ==
    LET walk[n \in 0 .. Len(cache)] ==
            IF n = 0 THEN [tree |-> <<root>>, to_process |-> <<root>>] ELSE Visit(walk[n - 1])
    IN  ByTime(walk[Len(cache)].tree)

-----------------------------------------------------------------------------
(* AuditLogger::log and FileStorage::store.                                 *)

\* AuditEvent::builder ... build: the event gets its id, its time and its parent.
Build(w) ==
    /\ pc[w] \in Kinds
    /\ built' = Append(built, [kind |-> pc[w], request |-> target[w], parent |-> parent[w]])
    /\ event' = [event EXCEPT ![w] = Len(built')]
    /\ pc' = [pc EXCEPT ![w] = "object"]
    /\ UNCHANGED <<file, cache, requests, target, parent, faults, logged>>

\* The call is over and its locals are gone.
Return(w) ==
    /\ pc' = [pc EXCEPT ![w] = "idle"]
    /\ target' = [target EXCEPT ![w] = None]
    /\ parent' = [parent EXCEPT ![w] = None]
    /\ event' = [event EXCEPT ![w] = None]

GoOn(w, label, id) ==
    /\ pc' = [pc EXCEPT ![w] = label]
    /\ parent' = [parent EXCEPT ![w] = id]
    /\ event' = [event EXCEPT ![w] = None]
    /\ UNCHANGED target

\* What the worker does after it has logged its event (id), or failed to (None): a
\* request is linked to its event, an approval is executed, everything else is done.
Continue(w, id) ==
    CASE built[event[w]].kind = "approved"                -> GoOn(w, "execute", id)
      [] built[event[w]].kind = "requested" /\ id # None -> GoOn(w, "link", id)
      [] OTHER                                            -> Return(w)

\* Mutant: store returns after the write, without telling the cache.
WriteOnly(w) ==
    /\ pc[w] = "object"
    /\ file' = file \o <<event[w], Newline>>
    /\ Continue(w, event[w])
    /\ UNCHANGED <<built, cache, requests, faults, logged>>

WriteObject(w) ==
    /\ pc[w] = "object"
    /\ file' = Append(file, event[w])
    /\ pc' = [pc EXCEPT ![w] = "newline"]
    /\ UNCHANGED <<built, cache, requests, target, parent, event, faults, logged>>

WriteNewline(w) ==
    /\ pc[w] = "newline"
    /\ file' = Append(file, Newline)
    /\ pc' = [pc EXCEPT ![w] = "push"]
    /\ UNCHANGED <<built, cache, requests, target, parent, event, faults, logged>>

\* The last n of a sequence.
Newest(s, n) == IF Len(s) <= n THEN s ELSE SubSeq(s, Len(s) - n + 1, Len(s))

\* Mutant: a full cache is emptied.
PushClearing(w) ==
    /\ pc[w] = "push"
    /\ cache' = IF Len(cache) >= CacheSize THEN <<>> ELSE Append(cache, event[w])
    /\ Continue(w, event[w])
    /\ logged' = logged \cup {event[w]}
    /\ UNCHANGED <<built, file, requests, faults>>

\* Mutant: a full cache takes nothing more.
PushTruncating(w) ==
    /\ pc[w] = "push"
    /\ cache' = IF Len(cache) < CacheSize THEN Append(cache, event[w]) ELSE cache
    /\ Continue(w, event[w])
    /\ logged' = logged \cup {event[w]}
    /\ UNCHANGED <<built, file, requests, faults>>

\* The cache, with the oldest events drained; log returns the id.
Push(w) ==
    /\ pc[w] = "push"
    /\ cache' = Newest(Append(cache, event[w]), CacheSize)
    /\ Continue(w, event[w])
    /\ logged' = logged \cup {event[w]}
    /\ UNCHANGED <<built, file, requests, faults>>

\* open or writeln! fails, possibly after a part of the object: log returns an error.
IoError(w) ==
    /\ pc[w] \in {"object", "newline"}
    /\ errors < MaxErrors
    /\ errors' = errors + 1
    /\ file' \in {file} \cup (IF pc[w] = "object" THEN {Append(file, Cut)} ELSE {})
    /\ Continue(w, None)
    /\ UNCHANGED <<built, cache, requests, restarts, logged>>

\* The process ends anywhere and FileStorage::new loads the file.
Restart ==
    /\ restarts < MaxRestarts
    /\ restarts' = restarts + 1
    /\ cache' = LoadFromFile
    /\ pc' = [w \in Workers |-> "idle"]
    /\ target' = [w \in Workers |-> None]
    /\ parent' = [w \in Workers |-> None]
    /\ event' = [w \in Workers |-> None]
    /\ UNCHANGED <<built, file, requests, errors, logged>>

-----------------------------------------------------------------------------
(* The server task.                                                         *)

Begin(w, label, r, id) ==
    /\ pc[w] = "idle"
    /\ pc' = [pc EXCEPT ![w] = label]
    /\ target' = [target EXCEPT ![w] = r]
    /\ parent' = [parent EXCEPT ![w] = id]

\* A tool call that needs no approval, or is refused.
CallDirectly(w) ==
    /\ Cardinality({e \in DOMAIN built : built[e].kind = "direct"}) < MaxDirect
    /\ Begin(w, "direct", None, None)
    /\ UNCHANGED <<built, file, cache, requests, event, faults, logged>>

\* A tool call that needs one: anybody can see the request before it is logged.
CreateRequest(w, r) ==
    /\ status[r] = "Unknown"
    /\ Begin(w, "requested", r, None)
    /\ status' = [status EXCEPT ![r] = "Pending"]
    /\ UNCHANGED <<built, file, cache, link, event, faults, logged>>

\* update_audit_ids: does not look into the denied cache, nor find what is on its
\* way to the approved one.
UpdateAuditIds(w) ==
    LET r == target[w]
    IN  /\ pc[w] = "link"
        /\ Return(w)
        /\ \/ status[r] \in {"Pending", "Approved"} /\ link' = [link EXCEPT ![r] = parent[w]]
           \/ status[r] # "Pending" /\ UNCHANGED link
        /\ UNCHANGED <<built, file, cache, status, faults, logged>>

\* approvals/approve and approvals/reject log nothing.
DecideOverMcp(r) ==
    /\ status[r] = "Pending"
    /\ status' \in {[status EXCEPT ![r] = "Approved"], [status EXCEPT ![r] = "Rejected"]}
    /\ UNCHANGED <<built, file, cache, link, local, faults, logged>>

-----------------------------------------------------------------------------
(* The handlers.                                                            *)

\* manager.get: the copy that the handler works on.
OpenApproval(w, r) ==
    /\ status[r] # "Unknown"
    /\ \E label \in {"approve", "reject"} : Begin(w, label, r, link[r])
    /\ UNCHANGED <<built, file, cache, requests, event, faults, logged>>

\* Mutant: the decision is logged whether it was taken or not.
DecideAndLog(w) ==
    LET r == target[w]
    IN  /\ pc[w] \in {"approve", "reject"}
        /\ status' = IF status[r] = "Pending"
              THEN [status EXCEPT ![r] = IF pc[w] = "approve" THEN "Approved" ELSE "Rejected"]
              ELSE status
        /\ pc' = [pc EXCEPT ![w] = IF pc[w] = "approve" THEN "approved" ELSE "denied"]
        /\ UNCHANGED <<built, file, cache, link, target, parent, event, faults, logged>>

\* manager.approve or manager.reject ...
Decide(w) ==
    LET r == target[w]
    IN  /\ pc[w] \in {"approve", "reject"}
        /\ status[r] = "Pending"
        /\ status' = [status EXCEPT ![r] = IF pc[w] = "approve" THEN "Approved" ELSE "Rejected"]
        /\ pc' = [pc EXCEPT ![w] = IF pc[w] = "approve" THEN "approved" ELSE "denied"]
        /\ UNCHANGED <<built, file, cache, link, target, parent, event, faults, logged>>

\* ... which fail on a request that is not pending.
DecideTooLate(w) ==
    /\ pc[w] \in {"approve", "reject"}
    /\ status[target[w]] # "Pending"
    /\ Return(w)
    /\ UNCHANGED <<built, file, cache, requests, faults, logged>>

\* execute_approved_action: a mutation with a diff and a failure are logged under
\* the approval, a success without diff is not; without role there is no outcome.
Execute(w) ==
    /\ pc[w] = "execute"
    /\ \/ GoOn(w, "executed", parent[w])
       \/ GoOn(w, "failed", parent[w])
       \/ GoOn(w, "called", None)
       \/ Return(w)
    /\ UNCHANGED <<built, file, cache, requests, faults, logged>>

\* The client disconnects while the statement runs.
Drop(w) ==
    /\ pc[w] = "execute"
    /\ Return(w)
    /\ UNCHANGED <<built, file, cache, requests, faults, logged>>

Store(w) == Build(w) \/ WriteObject(w) \/ WriteNewline(w) \/ Push(w)

Work(w) == Store(w) \/ UpdateAuditIds(w) \/ Decide(w) \/ DecideTooLate(w) \/ Execute(w)

Next ==
    \/ \E w \in Workers : Work(w) \/ IoError(w)
    \/ \E w \in Servers : CallDirectly(w) \/ \E r \in Requests : CreateRequest(w, r)
    \/ \E w \in Handlers : Drop(w) \/ \E r \in Requests : OpenApproval(w, r)
    \/ \E r \in Requests : DecideOverMcp(r)
    \/ Restart

Spec == Init /\ [][Next]_vars

\* What was begun goes on: there is no await in store, and the database answers.
Fairness == \A w \in Workers : WF_vars(Work(w))

FairSpec == Spec /\ Fairness

-----------------------------------------------------------------------------
(* Properties.                                                              *)

\* The types of the variables; a worker that stores has an event in its hands.
TypeOK ==
    /\ built \in Seq(Event)
    /\ file \in Seq(DOMAIN built \cup {Newline, Cut})
    /\ cache \in Seq(DOMAIN built)
    /\ status \in [Requests -> {"Unknown", "Pending", "Approved", "Rejected"}]
    /\ link \in [Requests -> DOMAIN built \cup {None}]
    /\ pc \in [Workers -> Labels]
    /\ target \in [Workers -> Requests \cup {None}]
    /\ parent \in [Workers -> DOMAIN built \cup {None}]
    /\ event \in [Workers -> DOMAIN built \cup {None}]
    /\ errors \in 0 .. MaxErrors /\ restarts \in 0 .. MaxRestarts
    /\ logged \subseteq DOMAIN built
    /\ \A w \in Workers : pc[w] \in {"object", "newline", "push"} => event[w] # None

\* An event that was logged is found, unless the cache is full of others, or its
\* line was spoilt by another writer and the file was read again.
NothingLoggedVanishes ==
    \A e \in logged :
        /\ e \in ToSet(file)
        /\ \/ e \in ToSet(cache)
           \/ Len(cache) >= CacheSize
           \/ restarts > 0 /\ e \notin Readable

Parents(e) == IF built[e].parent = None THEN {} ELSE {built[e].parent}
Ancestors(e) == Parents(e) \cup UNION {Parents(p) : p \in Parents(e)}

\* However the stores interleave and whatever is drained, the tree of an event
\* begins with the event, has every descendant once and after its parent, and
\* misses none that was logged (but for lines that were spoilt).
TreesAreFamilies ==
    \A root \in ToSet(cache) :
        LET tree == GetEventTree(root)
        IN  /\ tree[1] = root
            /\ \A k, l \in DOMAIN tree : k < l => tree[k] < tree[l]
            /\ \A e \in logged :
                  /\ root \in Ancestors(e)
                  /\ restarts > 0 => ({e} \cup Ancestors(e)) \ {root} \subseteq Readable \cup 1 .. root
                  => e \in ToSet(tree)

Decisions == {"approved", "denied"}

\* The log agrees with the requests: a decision that it shows was taken, once, and
\* a parent is an event of the same request that was logged before and of the kind
\* that event.rs says.
TrailTrue ==
    \A e \in DOMAIN built :
        /\ built[e].kind = "approved" => status[built[e].request] = "Approved"
        /\ built[e].kind = "denied" => status[built[e].request] = "Rejected"
        /\ \A d \in DOMAIN built :
              built[d].kind \in Decisions /\ built[e].kind \in Decisions /\
              built[d].request = built[e].request => d = e
        /\ \A p \in Parents(e) :
              /\ p \in logged /\ p < e
              /\ built[p].request = built[e].request
              /\ <<built[p].kind, built[e].kind>> \in
                    ({"requested"} \X Decisions) \cup ({"approved"} \X {"executed", "failed"})

\* A decision taken in the dashboard is logged, if the disk and the process hold.
DecisionsRecorded ==
    \A w \in Handlers, r \in Requests, kind \in Decisions :
        pc[w] = kind /\ target[w] = r ~>
            \/ \E e \in logged : built[e].request = r /\ built[e].kind = kind
            \/ errors + restarts > 0

=============================================================================
