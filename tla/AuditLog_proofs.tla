--------------------------- MODULE AuditLog_proofs ---------------------------
(***************************************************************************)
(* The log tells the truth about the requests, nothing that was logged is  *)
(* lost and the tree of an event is its family, for any number of          *)
(* requests, of tasks and handlers, of events, of I/O errors and of        *)
(* restarts and for any size of the cache.                                 *)
(***************************************************************************)
EXTENDS AuditLog, TLAPS, SequenceTheorems, FiniteSetTheorems, WellFoundedInduction

Storing == {"object", "newline", "push"}

\* The types of what the argument needs; the file and the cache play no part.
Typed ==
    /\ built \in Seq(Event)
    /\ status \in [Requests -> {"Unknown", "Pending", "Approved", "Rejected"}]
    /\ link \in [Requests -> DOMAIN built \cup {None}]
    /\ pc \in [Workers -> Labels]
    /\ target \in [Workers -> Requests \cup {None}]
    /\ parent \in [Workers -> DOMAIN built \cup {None}]
    /\ event \in [Workers -> DOMAIN built \cup {None}]
    /\ logged \subseteq DOMAIN built
    /\ \A w \in Workers : pc[w] \in Storing => event[w] # None

\* Event p is in the log, of this kind and about this request.
IsLogged(p, kind, r) == p \in logged /\ built[p].kind = kind /\ built[p].request = r

\* A request is linked to the event of its creation.
Linked == \A r \in Requests : link[r] # None => IsLogged(link[r], "requested", r)

\* What a worker has in hand fits what it is about to do.
Carried(w) ==
    /\ pc[w] \in {"approve", "reject"} \cup Decisions =>
          /\ target[w] \in Requests
          /\ parent[w] = None \/ IsLogged(parent[w], "requested", target[w])
    /\ pc[w] \in {"execute", "executed", "failed"} =>
          parent[w] = None \/ IsLogged(parent[w], "approved", target[w])
    /\ pc[w] = "link" => target[w] \in Requests /\ IsLogged(parent[w], "requested", target[w])
    /\ pc[w] = "requested" => target[w] \in Requests
    /\ pc[w] \in {"requested", "called", "direct"} => parent[w] = None
    /\ pc[w] \in Storing =>
          /\ built[event[w]].request = target[w]
          /\ built[event[w]].kind = "requested" => target[w] \in Requests

InHand == \A w \in Workers : Carried(w)

\* Who is about to log a decision took it, and alone.
Taken ==
    \A w \in Workers :
        /\ pc[w] = "approved" => status[target[w]] = "Approved"
        /\ pc[w] = "denied" => status[target[w]] = "Rejected"
        /\ pc[w] \in Decisions =>
              /\ \A v \in Workers : pc[v] \in Decisions /\ target[v] = target[w] => v = w
              /\ \A e \in DOMAIN built : built[e].kind \in Decisions => built[e].request # target[w]

\* A decision in the log is about a request.
AboutRequests ==
    \A e \in DOMAIN built : built[e].kind \in Decisions => built[e].request \in Requests

TrailInv == Typed /\ Linked /\ InHand /\ Taken /\ AboutRequests /\ TrailTrue

-----------------------------------------------------------------------------

LEMMA Apart ==
    /\ None \notin Requests /\ None \notin Nat
    /\ Storing \cap Kinds = {} /\ Storing \subseteq Labels /\ Kinds \subseteq Labels
    /\ Decisions \subseteq Kinds
BY ConstantsAssumption DEF Storing, Kinds, Labels, Decisions

LEMMA InitInv == Init => TrailInv
<1> SUFFICES ASSUME Init PROVE TrailInv
  OBVIOUS
<1>1. built = <<>> /\ DOMAIN built = {} /\ logged = {}
  BY DEF Init
<1>2. Typed
  BY <1>1 DEF Init, Typed, Labels, Kinds, Storing
<1>3. Linked
  BY DEF Init, Linked
<1>4. InHand /\ Taken
  BY DEF Init, InHand, Carried, Taken, Decisions, Storing
<1>5. AboutRequests /\ TrailTrue
  BY <1>1 DEF AboutRequests, TrailTrue
<1> QED
  BY <1>2, <1>3, <1>4, <1>5 DEF TrailInv

\* A step keeps what was decided.
Settled == \A r \in Requests : status[r] \in {"Approved", "Rejected"} => status'[r] = status[r]

\* Steps that build nothing, reverse no decision and log at most what is built leave
\* the events as they are.
LEMMA EventsKept ==
    ASSUME Typed, TrailTrue, AboutRequests,
           UNCHANGED built, Settled, logged \subseteq logged', logged' \subseteq DOMAIN built
    PROVE  TrailTrue' /\ AboutRequests'
<1>1. \A e \in DOMAIN built :
        /\ built[e].kind = "approved" => status'[built[e].request] = "Approved"
        /\ built[e].kind = "denied" => status'[built[e].request] = "Rejected"
  BY DEF TrailTrue, AboutRequests, Settled, Decisions
<1> QED
  BY <1>1 DEF TrailTrue, AboutRequests, Parents

\* The steps of one worker that takes no decision: the others are as they were.
LEMMA HandsKept ==
    ASSUME TrailInv, NEW w \in Workers,
           UNCHANGED built, Settled, logged \subseteq logged', logged' \subseteq DOMAIN built,
           \A v \in Workers \ {w} : UNCHANGED <<pc[v], target[v], parent[v], event[v]>>,
           Carried(w)', pc'[w] \notin Decisions
    PROVE  InHand' /\ Taken'
<1>1. ASSUME NEW v \in Workers, v # w PROVE Carried(v)'
  BY <1>1 DEF TrailInv, InHand, Carried, IsLogged
<1>2. InHand'
  BY <1>1 DEF InHand
<1>3. ASSUME NEW v \in Workers, pc'[v] \in Decisions
      PROVE  /\ v # w /\ pc'[v] = pc[v] /\ target'[v] = target[v]
             /\ status[target[v]] \in {"Approved", "Rejected"} => status'[target[v]] = status[target[v]]
  BY <1>3 DEF TrailInv, InHand, Carried, Settled
<1>4. Taken'
  <2> SUFFICES ASSUME NEW v \in Workers, pc'[v] \in Decisions
               PROVE  /\ pc'[v] = "approved" => status'[target'[v]] = "Approved"
                      /\ pc'[v] = "denied" => status'[target'[v]] = "Rejected"
                      /\ \A u \in Workers : pc'[u] \in Decisions /\ target'[u] = target'[v] => u = v
                      /\ \A e \in DOMAIN built' :
                            built'[e].kind \in Decisions => built'[e].request # target'[v]
    BY DEF Taken, Decisions
  <2> QED
    BY <1>3 DEF TrailInv, Taken
<1> QED
  BY <1>2, <1>4

\* The same for the links, if they are.
LEMMA LinksKept ==
    ASSUME Linked, UNCHANGED <<built, link>>, logged \subseteq logged'
    PROVE  Linked'
BY DEF Linked, IsLogged

-----------------------------------------------------------------------------

\* What a worker does after its event is one of three things.
LEMMA AfterLogging ==
    ASSUME NEW w \in Workers, NEW id, Continue(w, id)
    PROVE  \/ Return(w)
           \/ built[event[w]].kind = "approved" /\ GoOn(w, "execute", id)
           \/ built[event[w]].kind = "requested" /\ id # None /\ GoOn(w, "link", id)
BY DEF Continue

\* The locals keep their types.
LEMMA TypedReturn ==
    ASSUME Typed, NEW w \in Workers, Return(w),
           UNCHANGED <<built, status, link>>, logged' \subseteq DOMAIN built
    PROVE  Typed'
<1> USE Apart DEF Typed, Return
<1>1. pc' \in [Workers -> Labels]
  BY DEF Labels
<1>2. \A v \in Workers : pc'[v] \in Storing => event'[v] # None
  BY DEF Storing
<1> QED
  BY <1>1, <1>2

LEMMA TypedGoOn ==
    ASSUME Typed, NEW w \in Workers, NEW label \in Labels \ Storing, NEW id \in DOMAIN built \cup {None},
           GoOn(w, label, id),
           UNCHANGED <<built, status, link>>, logged' \subseteq DOMAIN built
    PROVE  Typed'
<1> USE Apart DEF Typed, GoOn
<1>1. \A v \in Workers : pc'[v] \in Storing => event'[v] # None
  BY DEF Storing
<1> QED
  BY <1>1

LEMMA TypedBegin ==
    ASSUME Typed, NEW w \in Workers, NEW label \in Labels \ Storing, NEW r \in Requests \cup {None},
           NEW id \in DOMAIN built \cup {None}, Begin(w, label, r, id),
           UNCHANGED <<built, link, event, logged>>,
           status' \in [Requests -> {"Unknown", "Pending", "Approved", "Rejected"}]
    PROVE  Typed'
<1> USE DEF Typed, Begin
<1>1. \A v \in Workers : pc'[v] \in Storing => event'[v] # None
  OBVIOUS
<1> QED
  BY <1>1

\* An event is built from a record of the type of events.
LEMMA Grown ==
    ASSUME Typed, NEW w \in Workers, Build(w)
    PROVE  /\ built' \in Seq(Event)
           /\ Len(built') = Len(built) + 1 /\ Len(built) \in Nat
           /\ DOMAIN built = 1 .. Len(built) /\ DOMAIN built' = 1 .. Len(built')
           /\ DOMAIN built' = DOMAIN built \cup {Len(built')}
           /\ \A e \in DOMAIN built : built'[e] = built[e]
           /\ built'[Len(built')] = [kind |-> pc[w], request |-> target[w], parent |-> parent[w]]
           /\ Len(built') \notin DOMAIN built
<1> DEFINE e == [kind |-> pc[w], request |-> target[w], parent |-> parent[w]]
<1>1. DOMAIN built = 1 .. Len(built) /\ Len(built) \in Nat
  BY DEF Typed
<1>2. parent[w] \in Nat \cup {None} /\ target[w] \in Requests \cup {None} /\ pc[w] \in Kinds
  BY <1>1 DEF Typed, Build
<1>3. e \in Event
  BY <1>2 DEF Event
<1>4. built' = Append(built, e) /\ built \in Seq(Event)
  BY DEF Build, Typed
<1> HIDE DEF e
<1>5. /\ built' \in Seq(Event) /\ Len(built') = Len(built) + 1
      /\ DOMAIN built' = 1 .. Len(built') /\ built'[Len(built')] = e
      /\ \A n \in 1 .. Len(built) : built'[n] = built[n]
  BY <1>3, <1>4
<1>6. 1 .. Len(built') = 1 .. Len(built) \cup {Len(built')} /\ Len(built') \notin 1 .. Len(built)
  BY <1>1, <1>5
<1> QED
  BY <1>1, <1>5, <1>6 DEF e

\* Every step keeps the types.
LEMMA TypedStep == Typed /\ [Next]_vars => Typed'
<1> SUFFICES ASSUME Typed, [Next]_vars PROVE Typed'
  OBVIOUS
<1>1. ASSUME NEW w \in Workers, Build(w) PROVE Typed'
  <2>1. DOMAIN built \subseteq DOMAIN built' /\ Len(built') \in DOMAIN built' /\ built' \in Seq(Event)
    BY <1>1, Grown
  <2>2. event' = [event EXCEPT ![w] = Len(built')] /\ pc' = [pc EXCEPT ![w] = "object"]
    BY <1>1 DEF Build
  <2>3. Len(built') # None
    BY <1>1, Grown, Apart
  <2>4. "object" \in Labels
    BY DEF Labels
  <2>5. event' \in [Workers -> DOMAIN built' \cup {None}] /\ pc' \in [Workers -> Labels]
    BY <2>1, <2>2, <2>4 DEF Typed
  <2>6. UNCHANGED <<status, link, target, parent, logged>>
    BY <1>1 DEF Build, requests
  <2>7. \A v \in Workers : pc'[v] \in Storing => event'[v] # None
    BY <2>2, <2>3 DEF Typed
  <2> QED
    BY <2>1, <2>5, <2>6, <2>7 DEF Typed
<1>2. ASSUME NEW w \in Workers, WriteObject(w) \/ WriteNewline(w) PROVE Typed'
  BY <1>2 DEF Typed, WriteObject, WriteNewline, requests, Labels, Storing
<1>3. ASSUME NEW w \in Workers, Push(w) PROVE Typed'
  <2>1. event[w] \in DOMAIN built /\ event[w] # None /\ logged' = logged \cup {event[w]}
    BY <1>3 DEF Push, Typed, Storing
  <2>2. UNCHANGED <<built, status, link>> /\ logged' \subseteq DOMAIN built
    BY <1>3, <2>1 DEF Push, requests, Typed
  <2>3. Return(w) \/ GoOn(w, "execute", event[w]) \/ GoOn(w, "link", event[w])
    BY <1>3, AfterLogging DEF Push
  <2>4. "execute" \in Labels \ Storing /\ "link" \in Labels \ Storing
    BY DEF Labels, Storing
  <2> QED
    BY <2>1, <2>2, <2>3, <2>4, TypedReturn, TypedGoOn
<1>4. ASSUME NEW w \in Workers, IoError(w) PROVE Typed'
  <2>1. UNCHANGED <<built, status, link, logged>> /\ logged' \subseteq DOMAIN built
    BY <1>4 DEF IoError, requests, Typed
  <2>2. Return(w) \/ GoOn(w, "execute", None)
    BY <1>4, AfterLogging DEF IoError
  <2>3. "execute" \in Labels \ Storing
    BY DEF Labels, Storing
  <2> QED
    BY <2>1, <2>2, <2>3, TypedReturn, TypedGoOn
<1>5. ASSUME Restart PROVE Typed'
  BY <1>5 DEF Typed, Restart, requests, Labels, Storing
<1>6. ASSUME NEW w \in Workers, CallDirectly(w) PROVE Typed'
  <2>1. "direct" \in Labels \ Storing
    BY DEF Labels, Kinds, Storing
  <2>2. Begin(w, "direct", None, None) /\ UNCHANGED <<built, status, link, event, logged>>
    BY <1>6 DEF CallDirectly, requests
  <2> QED
    BY <2>1, <2>2, TypedBegin DEF Typed
<1>7. ASSUME NEW w \in Workers, NEW r \in Requests, CreateRequest(w, r) PROVE Typed'
  <2>1. "requested" \in Labels \ Storing
    BY DEF Labels, Kinds, Storing
  <2>2. /\ Begin(w, "requested", r, None) /\ UNCHANGED <<built, link, event, logged>>
        /\ status' \in [Requests -> {"Unknown", "Pending", "Approved", "Rejected"}]
    BY <1>7 DEF CreateRequest, Typed
  <2> QED
    BY <2>1, <2>2, TypedBegin
<1>8. ASSUME NEW w \in Workers, UpdateAuditIds(w) PROVE Typed'
  <2>1. link' \in [Requests -> DOMAIN built \cup {None}] /\ UNCHANGED <<built, status, logged>>
    BY <1>8 DEF Typed, UpdateAuditIds
  <2> QED
    BY <1>8, <2>1 DEF Typed, UpdateAuditIds, Return, Labels, Storing
<1>9. ASSUME NEW r \in Requests, DecideOverMcp(r) PROVE Typed'
  BY <1>9 DEF Typed, DecideOverMcp, local
<1>10. ASSUME NEW w \in Workers, NEW r \in Requests, OpenApproval(w, r) PROVE Typed'
  <2>1. "approve" \in Labels \ Storing /\ "reject" \in Labels \ Storing
    BY DEF Labels, Storing
  <2>2. Begin(w, "approve", r, link[r]) \/ Begin(w, "reject", r, link[r])
    BY <1>10 DEF OpenApproval
  <2>3. UNCHANGED <<built, link, event, logged>> /\ link[r] \in DOMAIN built \cup {None}
    BY <1>10 DEF OpenApproval, requests, Typed
  <2>4. status' \in [Requests -> {"Unknown", "Pending", "Approved", "Rejected"}]
    BY <1>10 DEF OpenApproval, requests, Typed
  <2>5. CASE Begin(w, "approve", r, link[r])
    BY <2>1, <2>3, <2>4, <2>5 DEF Typed, Begin
  <2>6. CASE Begin(w, "reject", r, link[r])
    BY <2>1, <2>3, <2>4, <2>6 DEF Typed, Begin
  <2> QED
    BY <2>2, <2>5, <2>6
<1>11. ASSUME NEW w \in Workers, Decide(w) PROVE Typed'
  BY <1>11 DEF Typed, Decide, Labels, Kinds, Storing
<1>12. ASSUME NEW w \in Workers, DecideTooLate(w) \/ Drop(w) PROVE Typed'
  <2>1. Return(w) /\ UNCHANGED <<built, status, link, logged>>
    BY <1>12 DEF DecideTooLate, Drop, requests
  <2> QED
    BY <2>1, TypedReturn DEF Typed
<1>13. ASSUME NEW w \in Workers, Execute(w) PROVE Typed'
  <2>1. UNCHANGED <<built, status, link, logged>> /\ logged' \subseteq DOMAIN built
    BY <1>13 DEF Execute, requests, Typed
  <2>2. \/ GoOn(w, "executed", parent[w]) \/ GoOn(w, "failed", parent[w])
        \/ GoOn(w, "called", None) \/ Return(w)
    BY <1>13 DEF Execute
  <2>3. {"executed", "failed", "called"} \subseteq Labels \ Storing /\ parent[w] \in DOMAIN built \cup {None}
    BY DEF Labels, Kinds, Storing, Typed
  <2> QED
    BY <2>1, <2>2, <2>3, TypedReturn, TypedGoOn
<1>14. ASSUME UNCHANGED vars PROVE Typed'
  BY <1>14 DEF Typed, vars, requests, local
<1> QED
  BY <1>1, <1>2, <1>3, <1>4, <1>5, <1>6, <1>7, <1>8, <1>9, <1>10, <1>11, <1>12, <1>13, <1>14
     DEF Next, Work, Store, Workers

-----------------------------------------------------------------------------

\* Building an event puts what the worker has in hand into the log.
LEMMA BuildStep ==
    ASSUME TrailInv, NEW w \in Workers, Build(w)
    PROVE  TrailInv'
<1> DEFINE n == Len(built')
<1>1. Typed'
  BY TypedStep DEF TrailInv, Next, Work, Store
<1>2. /\ DOMAIN built' = DOMAIN built \cup {n} /\ n \notin DOMAIN built
      /\ \A e \in DOMAIN built : built'[e] = built[e] /\ e < n
      /\ built'[n].kind = pc[w] /\ built'[n].request = target[w] /\ built'[n].parent = parent[w]
  <2>1. /\ DOMAIN built' = DOMAIN built \cup {n} /\ n \notin DOMAIN built
        /\ \A e \in DOMAIN built : built'[e] = built[e]
        /\ built'[n] = [kind |-> pc[w], request |-> target[w], parent |-> parent[w]]
    BY Grown DEF TrailInv
  <2>2. DOMAIN built = 1 .. Len(built) /\ n = Len(built) + 1 /\ Len(built) \in Nat
    BY Grown DEF TrailInv
  <2>3. \A e \in DOMAIN built : e < n
    BY <2>2
  <2> QED
    BY <2>1, <2>3
<1>3. /\ UNCHANGED <<status, link, target, parent, logged>> /\ pc[w] \in Kinds
      /\ pc' = [pc EXCEPT ![w] = "object"] /\ event' = [event EXCEPT ![w] = n]
  BY DEF Build, requests
<1> HIDE DEF n
<1>4. /\ pc'[w] = "object" /\ event'[w] = n
      /\ \A v \in Workers \ {w} : pc'[v] = pc[v] /\ event'[v] = event[v]
  BY <1>3 DEF TrailInv, Typed
<1>5. logged \subseteq DOMAIN built /\ \A p \in logged : built'[p] = built[p]
  BY <1>2 DEF TrailInv, Typed
<1>7. Linked'
  BY <1>3, <1>5 DEF TrailInv, Linked, IsLogged
<1>8. InHand'
  <2>1. Carried(w)'
    BY <1>2, <1>3, <1>4 DEF TrailInv, InHand, Carried, Storing, Decisions
  <2>2. ASSUME NEW v \in Workers \ {w} PROVE Carried(v)'
    <3>1. Carried(v) /\ pc'[v] = pc[v] /\ event'[v] = event[v]
      BY <1>4, <2>2 DEF TrailInv, InHand
    <3>2. pc[v] \in Storing => event[v] \in DOMAIN built
      BY <2>2 DEF TrailInv, Typed
    <3>3. UNCHANGED <<target[v], parent[v]>>
      BY <1>3
    <3>4. pc[v] \in Storing => built'[event[v]] = built[event[v]]
      BY <1>2, <3>2
    <3> QED
      BY <1>5, <3>1, <3>3, <3>4, <1>3 DEF Carried, IsLogged
  <2> QED
    BY <2>1, <2>2 DEF InHand
<1>9. Taken'
  <2> SUFFICES ASSUME NEW v \in Workers, pc'[v] \in Decisions
               PROVE  /\ pc'[v] = "approved" => status'[target'[v]] = "Approved"
                      /\ pc'[v] = "denied" => status'[target'[v]] = "Rejected"
                      /\ \A u \in Workers : pc'[u] \in Decisions /\ target'[u] = target'[v] => u = v
                      /\ \A e \in DOMAIN built' :
                            built'[e].kind \in Decisions => built'[e].request # target'[v]
    BY DEF Taken, Decisions
  <2>1. v # w /\ pc[v] \in Decisions
    BY <1>4 DEF Decisions
  <2>2. \A u \in Workers : pc'[u] \in Decisions => pc[u] \in Decisions
    BY <1>4 DEF Decisions
  <2>3. pc[w] \in Decisions => target[w] # target[v]
    BY <2>1 DEF TrailInv, Taken
  <2> QED
    BY <1>2, <1>3, <1>4, <2>1, <2>2, <2>3 DEF TrailInv, Taken
<1>10. AboutRequests'
  BY <1>2, <1>3 DEF TrailInv, AboutRequests, InHand, Carried
<1>11. TrailTrue'
  <2>1. ASSUME NEW e \in DOMAIN built'
        PROVE  /\ built'[e].kind = "approved" => status'[built'[e].request] = "Approved"
               /\ built'[e].kind = "denied" => status'[built'[e].request] = "Rejected"
    BY <1>2, <1>3, <2>1 DEF TrailInv, TrailTrue, Taken
  <2>2. ASSUME NEW d \in DOMAIN built', NEW e \in DOMAIN built',
               built'[d].kind \in Decisions, built'[e].kind \in Decisions,
               built'[d].request = built'[e].request
        PROVE  d = e
    BY <1>2, <2>2 DEF TrailInv, TrailTrue, Taken
  <2>3. ASSUME NEW e \in DOMAIN built', NEW p \in Parents(e)'
        PROVE  /\ p \in logged' /\ p < e
               /\ built'[p].request = built'[e].request
               /\ <<built'[p].kind, built'[e].kind>> \in
                     ({"requested"} \X Decisions) \cup ({"approved"} \X {"executed", "failed"})
    <3>1. CASE e \in DOMAIN built
      <4>1. p \in Parents(e)
        BY <1>2, <2>3, <3>1 DEF Parents
      <4>2. p \in logged /\ p < e /\ built[p].request = built[e].request
            /\ <<built[p].kind, built[e].kind>> \in
                  ({"requested"} \X Decisions) \cup ({"approved"} \X {"executed", "failed"})
        BY <3>1, <4>1 DEF TrailInv, TrailTrue
      <4> QED
        BY <1>2, <1>3, <1>5, <3>1, <4>2
    <3>2. CASE e = n
      <4>1. p = parent[w] /\ parent[w] # None
        BY <1>2, <2>3, <3>2 DEF Parents
      <4>2. \/ pc[w] \in Decisions /\ IsLogged(p, "requested", target[w])
            \/ pc[w] \in {"executed", "failed"} /\ IsLogged(p, "approved", target[w])
        <5>1. Carried(w) /\ pc[w] \in Kinds /\ parent[w] # None
          BY <1>3, <4>1 DEF TrailInv, InHand
        <5>2. pc[w] \notin {"requested", "called", "direct"}
          BY <5>1 DEF Carried
        <5>3. pc[w] \in Decisions \/ pc[w] \in {"executed", "failed"}
          BY <5>1, <5>2 DEF Kinds, Decisions
        <5>4. /\ pc[w] \in Decisions => IsLogged(parent[w], "requested", target[w])
              /\ pc[w] \in {"executed", "failed"} => IsLogged(parent[w], "approved", target[w])
          BY <5>1 DEF Carried
        <5> QED
          BY <4>1, <5>3, <5>4 DEF IsLogged
      <4> QED
        BY <1>2, <1>3, <1>5, <3>2, <4>2 DEF IsLogged
    <3> QED
      BY <1>2, <3>1, <3>2
  <2> QED
    BY <2>1, <2>2, <2>3 DEF TrailTrue
<1> QED
  BY <1>1, <1>7, <1>8, <1>9, <1>10, <1>11 DEF TrailInv

\* A worker that goes on or returns, and logs at most what it stored.
LEMMA WorkerStep ==
    ASSUME TrailInv, NEW w \in Workers, Typed',
           UNCHANGED <<built, link>>, Settled, logged \subseteq logged',
           \A v \in Workers : v # w => /\ pc'[v] = pc[v] /\ target'[v] = target[v]
                                       /\ parent'[v] = parent[v] /\ event'[v] = event[v],
           Carried(w)', pc'[w] \notin Decisions
    PROVE  TrailInv'
<1>1. logged' \subseteq DOMAIN built
  BY DEF Typed
<1>2. TrailTrue' /\ AboutRequests'
  BY <1>1, EventsKept DEF TrailInv
<1>3. InHand' /\ Taken'
  BY <1>1, HandsKept DEF TrailInv
<1>4. Linked'
  BY LinksKept DEF TrailInv
<1> QED
  BY <1>2, <1>3, <1>4 DEF TrailInv

\* A worker that returns has nothing in hand.
LEMMA ReturnStep ==
    ASSUME TrailInv, NEW w \in Workers, Return(w), UNCHANGED <<built, status, link>>,
           logged \subseteq logged', logged' \subseteq DOMAIN built
    PROVE  TrailInv'
<1>1. Typed'
  BY TypedReturn DEF TrailInv
<1>2. \A v \in Workers : v # w => /\ pc'[v] = pc[v] /\ target'[v] = target[v]
                                  /\ parent'[v] = parent[v] /\ event'[v] = event[v]
  BY DEF Return, TrailInv, Typed
<1>3. pc'[w] = "idle"
  BY DEF Return, TrailInv, Typed
<1>4. Carried(w)' /\ pc'[w] \notin Decisions
  BY <1>3 DEF Carried, Decisions, Storing
<1> QED
  BY <1>1, <1>2, <1>4, WorkerStep DEF Settled

\* A worker that goes on has a parent that fits.
LEMMA GoOnStep ==
    ASSUME TrailInv, NEW w \in Workers, NEW label \in {"execute", "executed", "failed", "called", "link"},
           NEW id \in DOMAIN built \cup {None},
           GoOn(w, label, id), UNCHANGED <<built, status, link>>,
           logged \subseteq logged', logged' \subseteq DOMAIN built,
           label \in {"execute", "executed", "failed"} => id = None \/ IsLogged(id, "approved", target[w])',
           label = "link" => target[w] \in Requests /\ IsLogged(id, "requested", target[w])',
           label = "called" => id = None
    PROVE  TrailInv'
<1>1. Typed'
  <2>1. label \in Labels \ Storing
    BY DEF Labels, Kinds, Storing
  <2> QED
    BY <2>1, TypedGoOn DEF TrailInv
<1>2. \A v \in Workers : v # w => /\ pc'[v] = pc[v] /\ target'[v] = target[v]
                                  /\ parent'[v] = parent[v] /\ event'[v] = event[v]
  BY DEF GoOn, TrailInv, Typed
<1>3. pc'[w] = label /\ parent'[w] = id /\ target'[w] = target[w]
  BY DEF GoOn, TrailInv, Typed
<1>4. Carried(w)' /\ pc'[w] \notin Decisions
  BY <1>3 DEF Carried, Decisions, Storing, IsLogged
<1> QED
  BY <1>1, <1>2, <1>4, WorkerStep DEF Settled

\* A worker that begins does so with the copy of the request that it has read.
LEMMA BeginStep ==
    ASSUME TrailInv, NEW w \in Workers, NEW label \in {"direct", "requested", "approve", "reject"},
           NEW r \in Requests \cup {None}, NEW id, Begin(w, label, r, id), Typed',
           UNCHANGED <<built, link, event, logged>>, Settled,
           label # "direct" => r \in Requests,
           id = None \/ (label \in {"approve", "reject"} /\ IsLogged(id, "requested", r))
    PROVE  TrailInv'
<1>1. \A v \in Workers : v # w => /\ pc'[v] = pc[v] /\ target'[v] = target[v]
                                  /\ parent'[v] = parent[v] /\ event'[v] = event[v]
  BY DEF Begin, TrailInv, Typed
<1>2. pc'[w] = label /\ target'[w] = r /\ parent'[w] = id
  BY DEF Begin, TrailInv, Typed
<1>3. Carried(w)' /\ pc'[w] \notin Decisions
  BY <1>2 DEF Carried, Decisions, Storing, IsLogged
<1> QED
  BY <1>1, <1>3, WorkerStep

\* A decision over MCP disturbs nobody: it is not logged.
LEMMA DecideOverMcpStep ==
    ASSUME TrailInv, NEW r \in Requests, DecideOverMcp(r)
    PROVE  TrailInv'
<1>1. Typed'
  BY TypedStep DEF TrailInv, Next
<1>2. UNCHANGED <<built, link, pc, target, parent, event, logged>>
  BY DEF DecideOverMcp, local
<1>3. Settled
  BY DEF DecideOverMcp, Settled, TrailInv, Typed
<1>4. TrailTrue' /\ AboutRequests'
  BY <1>2, <1>3, EventsKept DEF TrailInv, Typed
<1>5. InHand'
  BY <1>2 DEF TrailInv, InHand, Carried, IsLogged
<1>6. Taken'
  <2>1. ASSUME NEW w \in Workers, pc[w] \in Decisions
        PROVE  status[target[w]] \in {"Approved", "Rejected"} => status'[target[w]] = status[target[w]]
    BY <1>3, <2>1 DEF TrailInv, InHand, Carried, Settled
  <2> QED
    BY <1>2, <2>1 DEF TrailInv, Taken, Decisions
<1> QED
  BY <1>1, <1>2, <1>4, <1>5, <1>6, LinksKept DEF TrailInv

\* The first to decide is the only one: the request was pending, so nobody is about
\* to log a decision on it, and the log has none.
LEMMA DecideStep ==
    ASSUME TrailInv, NEW w \in Workers, Decide(w)
    PROVE  TrailInv'
<1> DEFINE r == target[w]
<1>1. Typed'
  BY TypedStep DEF TrailInv, Next, Work
<1>2. /\ pc[w] \in {"approve", "reject"} /\ status[r] = "Pending"
      /\ UNCHANGED <<built, link, target, parent, event, logged>>
  BY DEF Decide
<1>3. r \in Requests /\ (parent[w] = None \/ IsLogged(parent[w], "requested", r))
  BY <1>2 DEF TrailInv, InHand, Carried
<1>4. /\ pc[w] = "approve" => pc'[w] = "approved" /\ status'[r] = "Approved"
      /\ pc[w] = "reject" => pc'[w] = "denied" /\ status'[r] = "Rejected"
      /\ \A v \in Workers : v # w => pc'[v] = pc[v]
      /\ \A q \in Requests : q # r => status'[q] = status[q]
  BY <1>3 DEF Decide, TrailInv, Typed
<1>5. Settled
  BY <1>2, <1>4 DEF Settled
<1>6. TrailTrue' /\ AboutRequests'
  BY <1>2, <1>5, EventsKept DEF TrailInv, Typed
<1>7. Carried(w)'
  <2>1. pc'[w] \in Decisions
    BY <1>2, <1>4 DEF Decisions
  <2> QED
    BY <2>1, <1>2, <1>3 DEF Carried, IsLogged, Decisions, Storing
<1>8. InHand'
  <2>1. ASSUME NEW v \in Workers, v # w PROVE Carried(v)'
    BY <1>2, <1>4, <2>1 DEF TrailInv, InHand, Carried, IsLogged
  <2> QED
    BY <1>7, <2>1 DEF InHand
<1>9. Taken'
  <2>1. \A v \in Workers : pc[v] \in Decisions => target[v] # r /\ target[v] \in Requests
    BY <1>2 DEF TrailInv, Taken, InHand, Carried, Decisions
  <2>2. \A e \in DOMAIN built : built[e].kind \in Decisions => built[e].request # r
    BY <1>2 DEF TrailInv, TrailTrue, Decisions
  <2>3. \A v \in Workers : pc'[v] \in Decisions => v = w \/ pc[v] \in Decisions
    BY <1>4
  <2>4. /\ pc'[w] = "approved" => status'[target'[w]] = "Approved"
        /\ pc'[w] = "denied" => status'[target'[w]] = "Rejected"
        /\ \A v \in Workers : pc'[v] \in Decisions /\ target'[v] = target'[w] => v = w
        /\ \A e \in DOMAIN built' : built'[e].kind \in Decisions => built'[e].request # target'[w]
    BY <1>2, <1>4, <2>1, <2>2, <2>3
  <2>5. ASSUME NEW v \in Workers, v # w, pc'[v] \in Decisions
        PROVE  /\ pc'[v] = "approved" => status'[target'[v]] = "Approved"
               /\ pc'[v] = "denied" => status'[target'[v]] = "Rejected"
               /\ \A u \in Workers : pc'[u] \in Decisions /\ target'[u] = target'[v] => u = v
               /\ \A e \in DOMAIN built' : built'[e].kind \in Decisions => built'[e].request # target'[v]
    BY <1>2, <1>4, <2>1, <2>3, <2>5 DEF TrailInv, Taken
  <2> QED
    BY <2>4, <2>5 DEF Taken, Decisions
<1> QED
  BY <1>1, <1>2, <1>6, <1>8, <1>9, LinksKept DEF TrailInv

\* A request is linked to the event that its creator has just logged.
LEMMA UpdateAuditIdsStep ==
    ASSUME TrailInv, NEW w \in Workers, UpdateAuditIds(w)
    PROVE  TrailInv'
<1>1. Typed'
  BY TypedStep DEF TrailInv, Next, Work
<1>2. /\ UNCHANGED <<built, status, logged>> /\ pc'[w] = "idle"
      /\ \A v \in Workers : v # w => /\ pc'[v] = pc[v] /\ target'[v] = target[v]
                                     /\ parent'[v] = parent[v] /\ event'[v] = event[v]
  BY DEF UpdateAuditIds, Return, TrailInv, Typed
<1>3. Carried(w)' /\ pc'[w] \notin Decisions
  BY <1>2 DEF Carried, Decisions, Storing
<1>4. TrailTrue' /\ AboutRequests'
  BY <1>2, EventsKept DEF TrailInv, Typed, Settled
<1>5. InHand' /\ Taken'
  BY <1>2, <1>3, HandsKept DEF TrailInv, Typed, Settled
<1>6. Linked'
  <2>1. target[w] \in Requests /\ IsLogged(parent[w], "requested", target[w])
    BY DEF UpdateAuditIds, TrailInv, InHand, Carried
  <2>2. link' = link \/ link' = [link EXCEPT ![target[w]] = parent[w]]
    BY DEF UpdateAuditIds
  <2> QED
    BY <1>2, <2>1, <2>2 DEF TrailInv, Typed, Linked, IsLogged
<1> QED
  BY <1>1, <1>4, <1>5, <1>6 DEF TrailInv

-----------------------------------------------------------------------------

\* What is true of the log and of those who write it is so after every step.
LEMMA TrailStep == TrailInv /\ [Next]_vars => TrailInv'
<1> SUFFICES ASSUME TrailInv, [Next]_vars PROVE TrailInv'
  OBVIOUS
<1>0. Typed /\ Typed'
  BY TypedStep DEF TrailInv
<1>1. ASSUME NEW w \in Workers, Build(w) PROVE TrailInv'
  BY <1>1, BuildStep
<1>2. ASSUME NEW w \in Workers, WriteObject(w) \/ WriteNewline(w) PROVE TrailInv'
  <2>1. /\ UNCHANGED <<built, status, link, logged, target, parent, event>>
        /\ pc[w] \in Storing /\ pc'[w] \in Storing
        /\ \A v \in Workers : v # w => pc'[v] = pc[v]
    BY <1>0, <1>2 DEF WriteObject, WriteNewline, requests, Typed, Storing
  <2>2. Carried(w)' /\ pc'[w] \notin Decisions
    BY <2>1 DEF TrailInv, InHand, Carried, Storing, Decisions, IsLogged
  <2> QED
    BY <1>0, <2>1, <2>2, WorkerStep DEF Settled
<1>3. ASSUME NEW w \in Workers, Push(w) PROVE TrailInv'
  <2>0. PICK id : id = event[w]
    OBVIOUS
  <2>1. /\ id \in DOMAIN built /\ id # None /\ built[id].request = target[w]
        /\ built[id].kind = "requested" => target[w] \in Requests
    BY <1>0, <1>3, <2>0 DEF Push, Typed, Storing, TrailInv, InHand, Carried
  <2>2. /\ UNCHANGED <<built, status, link>> /\ logged' = logged \cup {id}
        /\ logged' \subseteq DOMAIN built
    BY <1>0, <1>3, <2>0, <2>1 DEF Push, requests, Typed
  <2>3. \/ Return(w)
        \/ built[id].kind = "approved" /\ GoOn(w, "execute", id)
        \/ built[id].kind = "requested" /\ GoOn(w, "link", id)
    BY <1>3, <2>0, AfterLogging DEF Push
  <2>4. CASE Return(w)
    BY <2>2, <2>4, ReturnStep
  <2>5. CASE built[id].kind = "approved" /\ GoOn(w, "execute", id)
    <3>1. IsLogged(id, "approved", target[w])'
      BY <2>1, <2>2, <2>5 DEF IsLogged, GoOn
    <3> QED
      BY <2>1, <2>2, <2>5, <3>1, GoOnStep
  <2>6. CASE built[id].kind = "requested" /\ GoOn(w, "link", id)
    <3>1. IsLogged(id, "requested", target[w])'
      BY <2>1, <2>2, <2>6 DEF IsLogged, GoOn
    <3> QED
      BY <2>1, <2>2, <2>6, <3>1, GoOnStep
  <2> QED
    BY <2>3, <2>4, <2>5, <2>6
<1>4. ASSUME NEW w \in Workers, IoError(w) PROVE TrailInv'
  <2>1. UNCHANGED <<built, status, link, logged>> /\ logged' \subseteq DOMAIN built
    BY <1>0, <1>4 DEF IoError, requests, Typed
  <2>2. Return(w) \/ GoOn(w, "execute", None)
    BY <1>4, AfterLogging DEF IoError
  <2> QED
    BY <2>1, <2>2, ReturnStep, GoOnStep
<1>5. ASSUME Restart PROVE TrailInv'
  <2>1. UNCHANGED <<built, status, link, logged>> /\ \A w \in Workers : pc'[w] = "idle"
    BY <1>5 DEF Restart, requests
  <2>2. TrailTrue' /\ AboutRequests'
    BY <1>0, <2>1, EventsKept DEF TrailInv, Typed, Settled
  <2>3. InHand' /\ Taken'
    BY <2>1 DEF InHand, Carried, Taken, Decisions, Storing
  <2> QED
    BY <1>0, <2>1, <2>2, <2>3, LinksKept DEF TrailInv
<1>6. ASSUME NEW w \in Workers, CallDirectly(w) PROVE TrailInv'
  <2>1. Begin(w, "direct", None, None) /\ UNCHANGED <<built, status, link, event, logged>>
    BY <1>6 DEF CallDirectly, requests
  <2> QED
    BY <1>0, <2>1, BeginStep DEF Settled
<1>7. ASSUME NEW w \in Workers, NEW r \in Requests, CreateRequest(w, r) PROVE TrailInv'
  <2>1. Begin(w, "requested", r, None) /\ UNCHANGED <<built, link, event, logged>>
    BY <1>7 DEF CreateRequest
  <2>2. Settled
    BY <1>0, <1>7 DEF CreateRequest, Settled, Typed
  <2> QED
    BY <1>0, <2>1, <2>2, BeginStep
<1>8. ASSUME NEW w \in Workers, UpdateAuditIds(w) PROVE TrailInv'
  BY <1>8, UpdateAuditIdsStep
<1>9. ASSUME NEW r \in Requests, DecideOverMcp(r) PROVE TrailInv'
  BY <1>9, DecideOverMcpStep
<1>10. ASSUME NEW w \in Workers, NEW r \in Requests, OpenApproval(w, r) PROVE TrailInv'
  <2>0. PICK id : id = link[r]
    OBVIOUS
  <2>1. Begin(w, "approve", r, id) \/ Begin(w, "reject", r, id)
    BY <1>10, <2>0 DEF OpenApproval
  <2>2. UNCHANGED <<built, status, link, event, logged>>
    BY <1>10 DEF OpenApproval, requests
  <2>3. id = None \/ IsLogged(id, "requested", r)
    BY <2>0 DEF TrailInv, Linked
  <2> QED
    BY <1>0, <2>1, <2>2, <2>3, BeginStep DEF Settled
<1>11. ASSUME NEW w \in Workers, Decide(w) PROVE TrailInv'
  BY <1>11, DecideStep
<1>12. ASSUME NEW w \in Workers, DecideTooLate(w) \/ Drop(w) PROVE TrailInv'
  <2>1. Return(w) /\ UNCHANGED <<built, status, link, logged>>
    BY <1>12 DEF DecideTooLate, Drop, requests
  <2> QED
    BY <1>0, <2>1, ReturnStep DEF Typed
<1>13. ASSUME NEW w \in Workers, Execute(w) PROVE TrailInv'
  <2>1. UNCHANGED <<built, status, link, logged>> /\ logged' \subseteq DOMAIN built
    BY <1>0, <1>13 DEF Execute, requests, Typed
  <2>2. PICK id : id = parent[w]
    OBVIOUS
  <2>3. id \in DOMAIN built \cup {None} /\ (id = None \/ IsLogged(id, "approved", target[w]))
    BY <1>0, <1>13, <2>2 DEF Execute, TrailInv, InHand, Carried, Typed
  <2>4. \/ GoOn(w, "executed", id) \/ GoOn(w, "failed", id)
        \/ GoOn(w, "called", None) \/ Return(w)
    BY <1>13, <2>2 DEF Execute
  <2>5. CASE GoOn(w, "executed", id)
    <3>1. id = None \/ IsLogged(id, "approved", target[w])'
      BY <2>1, <2>3, <2>5 DEF IsLogged, GoOn
    <3> QED
      BY <2>1, <2>3, <2>5, <3>1, GoOnStep
  <2>6. CASE GoOn(w, "failed", id)
    <3>1. id = None \/ IsLogged(id, "approved", target[w])'
      BY <2>1, <2>3, <2>6 DEF IsLogged, GoOn
    <3> QED
      BY <2>1, <2>3, <2>6, <3>1, GoOnStep
  <2>7. CASE GoOn(w, "called", None)
    BY <2>1, <2>7, GoOnStep
  <2>8. CASE Return(w)
    BY <2>1, <2>8, ReturnStep
  <2> QED
    BY <2>4, <2>5, <2>6, <2>7, <2>8
<1>14. ASSUME UNCHANGED vars PROVE TrailInv'
  <2>1. UNCHANGED <<built, status, link, logged, pc, target, parent, event>>
    BY <1>14 DEF vars, requests, local
  <2>2. TrailTrue' /\ AboutRequests'
    BY <1>0, <2>1, EventsKept DEF TrailInv, Typed, Settled
  <2> QED
    BY <1>0, <2>1, <2>2, LinksKept DEF TrailInv, InHand, Carried, IsLogged, Taken
<1> QED
  BY <1>1, <1>2, <1>3, <1>4, <1>5, <1>6, <1>7, <1>8, <1>9, <1>10, <1>11, <1>12, <1>13, <1>14
     DEF Next, Work, Store, Workers

\* The audit log agrees with the approvals, for any number of requests, of tasks
\* and handlers and whatever is interleaved, fails or is cut off: what it shows as
\* approved or denied was so decided, once, and the parent of an event was logged
\* before and is of the same request.
THEOREM TrailIsTrue == Spec => []TrailTrue
<1>1. TrailInv => TrailTrue
  BY DEF TrailInv
<1> QED
  BY InitInv, TrailStep, <1>1, PTL DEF Spec

-----------------------------------------------------------------------------
(* What was logged is found: the file, the cache and who writes them.       *)

Tokens == DOMAIN built \cup {Newline, Cut}

\* The types of the rest.
FileTyped ==
    /\ file \in Seq(Tokens) /\ cache \in Seq(DOMAIN built)
    /\ errors \in 0 .. MaxErrors /\ restarts \in 0 .. MaxRestarts

\* An event is in the hands of one worker until it is logged, which it is not
\* before its object is in the file.
OwnEvents ==
    \A w \in Workers : pc[w] \in Storing =>
        /\ event[w] \notin logged
        /\ pc[w] \in {"newline", "push"} => event[w] \in ToSet(file)
        /\ \A v \in Workers : pc[v] \in Storing /\ event[v] = event[w] => v = w

VanishInv == Typed /\ FileTyped /\ OwnEvents /\ NothingLoggedVanishes

\* The type invariant of the model, in two parts.
LEMMA TypeParts == TypeOK <=> Typed /\ FileTyped
BY DEF TypeOK, Typed, FileTyped, Storing, Tokens

\* What is appended to the file makes no other object readable than itself.
LEMMA Appended ==
    ASSUME FileTyped, NEW t, file' = Append(file, t)
    PROVE  /\ ToSet(file') = ToSet(file) \cup {t}
           /\ Readable' \subseteq Readable \cup ({t} \ {Newline, Cut})
<1>1. /\ Len(file) \in Nat /\ DOMAIN file = 1 .. Len(file)
      /\ Len(file') = Len(file) + 1 /\ DOMAIN file' = 1 .. Len(file) + 1
      /\ \A n \in 1 .. Len(file) : file'[n] = file[n]
      /\ file'[Len(file) + 1] = t
  <2>1. file \in Seq(Tokens \cup {t}) /\ t \in Tokens \cup {t}
    BY DEF FileTyped
  <2> QED
    BY <2>1
<1>2. ToSet(file') = ToSet(file) \cup {t}
  BY <1>1 DEF ToSet
<1>3. ASSUME NEW n \in 1 .. Len(file), IsLine(n)' PROVE IsLine(n)
  <2>1. file[n] \notin {Newline, Cut}
    BY <1>1, <1>3 DEF IsLine
  <2>2. n = 1 \/ file[n - 1] = Newline
    <3>1. n = 1 \/ file'[n - 1] = Newline
      BY <1>3 DEF IsLine
    <3>2. n = 1 \/ n - 1 \in 1 .. Len(file)
      BY <1>1
    <3> QED
      BY <1>1, <3>1, <3>2
  <2>3. n = Len(file) \/ file[n + 1] = Newline
    <3>1. n # Len(file')
      BY <1>1
    <3>2. file'[n + 1] = Newline
      BY <1>3, <3>1 DEF IsLine
    <3>3. n = Len(file) \/ n + 1 \in 1 .. Len(file)
      <4>1. Len(file) \in Nat
        BY <1>1
      <4> QED
        BY <4>1
    <3> QED
      BY <1>1, <3>2, <3>3
  <2> QED
    BY <2>1, <2>2, <2>3 DEF IsLine
<1>4. ASSUME NEW e \in Readable' PROVE e \in Readable \cup ({t} \ {Newline, Cut})
  <2>1. PICK n \in DOMAIN file' : IsLine(n)' /\ e = file'[n]
    BY <1>4 DEF Readable
  <2>2. CASE n \in 1 .. Len(file)
    BY <1>1, <1>3, <2>1, <2>2 DEF Readable
  <2>3. CASE n = Len(file) + 1
    BY <1>1, <2>1, <2>3 DEF IsLine
  <2> QED
    BY <1>1, <2>1, <2>2, <2>3
<1> QED
  BY <1>2, <1>4

\* A file that nobody touches reads as before.
LEMMA Untouched ==
    ASSUME UNCHANGED file
    PROVE  Readable' = Readable /\ ToSet(file') = ToSet(file)
BY DEF Readable, IsLine, ToSet

-----------------------------------------------------------------------------
(* Loops.                                                                   *)

\* A set of naturals has a least element.
LEMMA Least ==
    ASSUME NEW B, B \subseteq Nat, B # {}
    PROVE  \E m \in B : m = 0 \/ (m - 1 \in Nat /\ m - 1 \notin B)
<1> DEFINE R == OpToRel(<, Nat)
<1>1. \E x \in B : \A y \in B : ~ (<<y, x>> \in R)
  BY NatLessThanWellFounded, WFMin
<1>2. PICK x \in B : \A y \in B : ~ (<<y, x>> \in R)
  BY <1>1
<1>3. ASSUME x # 0, x - 1 \in B PROVE FALSE
  <2>1. x \in Nat /\ x - 1 \in Nat /\ x - 1 < x
    BY <1>3
  <2>2. <<x - 1, x>> \in R
    BY <2>1 DEF OpToRel
  <2> QED
    BY <1>2, <1>3, <2>2
<1>4. x = 0 \/ x - 1 \in Nat
  OBVIOUS
<1> QED
  BY <1>3, <1>4

\* What holds before a loop and is kept by its turns holds after each of them.
LEMMA EveryTurn ==
    ASSUME NEW N \in Nat, NEW good, 0 \in good, \A n \in 1 .. N : n - 1 \in good => n \in good
    PROVE  \A n \in 0 .. N : n \in good
<1> DEFINE B == {n \in 0 .. N : n \notin good}
<1> SUFFICES ASSUME B # {} PROVE FALSE
  OBVIOUS
<1>1. B \subseteq Nat
  OBVIOUS
<1>2. PICK m \in B : m = 0 \/ (m - 1 \in Nat /\ m - 1 \notin B)
  <2> HIDE DEF B
  <2> QED
    BY <1>1, Least
<1>3. m \in 0 .. N /\ m \notin good
  OBVIOUS
<1>4. m # 0
  BY <1>3
<1>5. m \in 1 .. N /\ m - 1 \in 0 .. N
  BY <1>3, <1>4
<1>6. m - 1 \in good
  BY <1>2, <1>4, <1>5
<1> QED
  BY <1>3, <1>5, <1>6

\* N turns, each a function of what the one before it has left.
Turns(N, S) == [1 .. N -> [S -> S]]

\* What f has after each of the turns.
Runs(f, N, S, first, turn) ==
    /\ f \in [0 .. N -> S] /\ f[0] = first
    /\ \A n \in 1 .. N : f[n] = turn[n][f[n - 1]]

\* A loop of N turns has a value after each of them.
LEMMA Loop ==
    ASSUME NEW N \in Nat, NEW S, NEW first \in S, NEW turn \in Turns(N, S)
    PROVE  \E f : Runs(f, N, S, first, turn)
<1> USE DEF Runs
<1> DEFINE good == {m \in 0 .. N : \E f : Runs(f, m, S, first, turn)}
<1>1. 0 \in good
  <2>1. PICK g : g = [n \in 0 .. 0 |-> first]
    OBVIOUS
  <2>2. Runs(g, 0, S, first, turn)
    BY <2>1
  <2> QED
    BY <2>2
<1>2. ASSUME NEW m \in 1 .. N, m - 1 \in good PROVE m \in good
  <2>1. PICK f : Runs(f, m - 1, S, first, turn)
    BY <1>2
  <2>2. m - 1 \in 0 .. m - 1 /\ 0 .. m = (0 .. m - 1) \cup {m} /\ m \notin 0 .. m - 1 /\ m # 0
    OBVIOUS
  <2>3. PICK next \in S : next = turn[m][f[m - 1]]
    BY <2>1, <2>2 DEF Turns
  <2>4. PICK g : g = [n \in 0 .. m |-> IF n = m THEN next ELSE f[n]]
    OBVIOUS
  <2>5. g[m] = next /\ \A n \in 0 .. m - 1 : g[n] = f[n]
    BY <2>2, <2>4
  <2>6. g \in [0 .. m -> S]
    BY <2>1, <2>2, <2>4
  <2>7. ASSUME NEW n \in 1 .. m PROVE g[n] = turn[n][g[n - 1]]
    <3>1. CASE n = m
      BY <2>2, <2>3, <2>5, <3>1
    <3>2. CASE n # m
      <4>1. n \in 1 .. m - 1 /\ n \in 0 .. m - 1 /\ n - 1 \in 0 .. m - 1
        BY <3>2
      <4> QED
        BY <2>1, <2>5, <4>1
    <3> QED
      BY <3>1, <3>2
  <2>8. g[0] = first
    <3>1. 0 \in 0 .. m - 1
      OBVIOUS
    <3> QED
      BY <2>1, <2>5, <3>1
  <2>9. Runs(g, m, S, first, turn)
    BY <2>6, <2>7, <2>8
  <2> QED
    BY <2>9
<1>3. \A n \in 0 .. N : n \in good
  <2> HIDE DEF good
  <2> QED
    BY <1>1, <1>2, EveryTurn
<1> QED
  BY <1>3

-----------------------------------------------------------------------------
(* The loop that takes some elements of a sequence.                         *)

Taking(f, s, places) ==
    f = [n \in 0 .. Len(s) |->
            IF n = 0 THEN <<>>
            ELSE IF n \in places THEN Append(f[n - 1], s[n])
            ELSE f[n - 1]]

\* It takes or leaves one element a turn.
LEMMA TakenTurns ==
    ASSUME NEW T, NEW s \in Seq(T), NEW places
    PROVE  \E f : /\ TakenAt(s, places) = f[Len(s)] /\ f[0] = <<>>
                  /\ \A n \in 1 .. Len(s) :
                        f[n] = IF n \in places THEN Append(f[n - 1], s[n]) ELSE f[n - 1]
<1>1. PICK N \in Nat : N = Len(s)
  OBVIOUS
<1>2. \E f : Taking(f, s, places)
  <2>1. PICK turn : turn = [n \in 1 .. N |-> [t \in Seq(T) |->
                              IF n \in places THEN Append(t, s[n]) ELSE t]]
    OBVIOUS
  <2>2. ASSUME NEW n \in 1 .. N, NEW t \in Seq(T) PROVE Append(t, s[n]) \in Seq(T)
    <3>1. s[n] \in T
      BY <1>1, ElementOfSeq
    <3> QED
      BY <3>1
  <2>3. turn \in [1 .. N -> [Seq(T) -> Seq(T)]]
    BY <2>1, <2>2
  <2>4. <<>> \in Seq(T)
    OBVIOUS
  <2>5. PICK f \in [0 .. N -> Seq(T)] :
            /\ f[0] = <<>> /\ \A n \in 1 .. N : f[n] = turn[n][f[n - 1]]
    <3>1. PICK S : S = Seq(T)
      OBVIOUS
    <3>2. PICK first \in S : first = <<>>
      BY <2>4, <3>1
    <3>3. N \in Nat /\ first \in S /\ turn \in Turns(N, S)
      BY <1>1, <2>3, <3>1, <3>2 DEF Turns
    <3>4. PICK f : Runs(f, N, S, first, turn)
      BY <3>3, Loop
    <3> QED
      BY <3>1, <3>2, <3>4 DEF Runs
  <2>6. ASSUME NEW n \in 0 .. N
        PROVE  f[n] = IF n = 0 THEN <<>>
                      ELSE IF n \in places THEN Append(f[n - 1], s[n]) ELSE f[n - 1]
    <3>1. CASE n = 0
      BY <2>5, <3>1
    <3>2. CASE n # 0
      <4>1. n \in 1 .. N /\ n - 1 \in 0 .. N
        BY <3>2
      <4>2. f[n - 1] \in Seq(T)
        BY <4>1
      <4> QED
        BY <2>1, <2>5, <3>2, <4>1, <4>2
    <3> QED
      BY <3>1, <3>2
  <2>7. f = [n \in 0 .. N |-> IF n = 0 THEN <<>>
                             ELSE IF n \in places THEN Append(f[n - 1], s[n]) ELSE f[n - 1]]
    BY <2>6
  <2>8. Taking(f, s, places)
    BY <1>1, <2>7 DEF Taking
  <2> QED
    BY <2>8
<1> DEFINE c == CHOOSE f : Taking(f, s, places)
<1>3. TakenAt(s, places) = c[Len(s)]
  BY DEF TakenAt, Taking
<1>4. Taking(c, s, places)
  BY <1>2
<1>5. PICK f : TakenAt(s, places) = f[Len(s)] /\ Taking(f, s, places)
  <2> HIDE DEF c
  <2> QED
    BY <1>3, <1>4
<1>6. f = [n \in 0 .. N |-> IF n = 0 THEN <<>>
                           ELSE IF n \in places THEN Append(f[n - 1], s[n]) ELSE f[n - 1]]
  BY <1>1, <1>5 DEF Taking
<1>7. 0 \in 0 .. N /\ \A n \in 1 .. N : n \in 0 .. N /\ n # 0
  OBVIOUS
<1>8. f[0] = <<>> /\ \A n \in 1 .. N : f[n] = IF n \in places THEN Append(f[n - 1], s[n]) ELSE f[n - 1]
  BY <1>6, <1>7
<1> QED
  BY <1>1, <1>5, <1>8

\* The elements r are those of s at the places, in their order.
Picks(r, s, places) ==
    \E h : /\ \A i \in DOMAIN r : h[i] \in DOMAIN s \cap places /\ r[i] = s[h[i]]
           /\ \A i, j \in DOMAIN r : i < j => h[i] < h[j]
           /\ \A n \in DOMAIN s \cap places : \E i \in DOMAIN r : h[i] = n

\* Another element is picked, or not.
LEMMA PicksNext ==
    ASSUME NEW T, NEW s \in Seq(T), NEW n \in 1 .. Len(s), NEW places,
           NEW r \in Seq(T), Picks(r, s, places \cap 1 .. n - 1),
           NEW q, q = IF n \in places THEN Append(r, s[n]) ELSE r
    PROVE  q \in Seq(T) /\ Picks(q, s, places \cap 1 .. n)
<1>1. PICK h : /\ \A i \in DOMAIN r : h[i] \in DOMAIN s \cap (places \cap 1 .. n - 1) /\ r[i] = s[h[i]]
               /\ \A i, j \in DOMAIN r : i < j => h[i] < h[j]
               /\ \A k \in DOMAIN s \cap (places \cap 1 .. n - 1) : \E i \in DOMAIN r : h[i] = k
  BY DEF Picks
<1>2. /\ n \in Nat /\ n \in DOMAIN s /\ s[n] \in T /\ DOMAIN s = 1 .. Len(s) /\ Len(s) \in Nat
      /\ 1 .. n = (1 .. n - 1) \cup {n} /\ \A k \in 1 .. n - 1 : k < n /\ k \in Nat
  <2>1. DOMAIN s = 1 .. Len(s) /\ Len(s) \in Nat
    OBVIOUS
  <2>2. n \in Nat /\ n \in DOMAIN s
    BY <2>1
  <2>3. s[n] \in T
    BY <2>2, ElementOfSeq
  <2>4. 1 .. n = (1 .. n - 1) \cup {n}
    BY <2>2
  <2> QED
    BY <2>1, <2>2, <2>3, <2>4
<1>3. CASE n \notin places
  <2>1. places \cap 1 .. n = places \cap 1 .. n - 1
    BY <1>2, <1>3
  <2> QED
    BY <1>3, <2>1
<1>4. CASE n \in places
  <2>1. PICK b \in Nat : b = Len(r)
    OBVIOUS
  <2>2. /\ q \in Seq(T) /\ DOMAIN q = (1 .. b) \cup {b + 1} /\ DOMAIN r = 1 .. b
        /\ q[b + 1] = s[n] /\ \A i \in 1 .. b : q[i] = r[i]
    <3>1. q = Append(r, s[n])
      BY <1>4
    <3>2. DOMAIN q = 1 .. b + 1 /\ q \in Seq(T) /\ q[b + 1] = s[n] /\ \A i \in 1 .. b : q[i] = r[i]
      BY <1>2, <2>1, <3>1
    <3>3. 1 .. b + 1 = (1 .. b) \cup {b + 1}
      BY <2>1
    <3> QED
      BY <2>1, <3>2, <3>3
  <2>3. PICK g : g = [i \in DOMAIN q |-> IF i = b + 1 THEN n ELSE h[i]]
    OBVIOUS
  <2>4. /\ b + 1 \in DOMAIN q /\ b + 1 \notin 1 .. b /\ g[b + 1] = n
        /\ \A i \in 1 .. b : g[i] = h[i] /\ i < b + 1
    <3>1. b + 1 \notin 1 .. b /\ \A i \in 1 .. b : i < b + 1
      BY <2>1
    <3> QED
      BY <2>2, <2>3, <3>1
  <2>5. ASSUME NEW i \in DOMAIN q
        PROVE  g[i] \in DOMAIN s \cap (places \cap 1 .. n) /\ q[i] = s[g[i]]
    <3>1. CASE i = b + 1
      BY <1>2, <1>4, <2>2, <2>4, <3>1
    <3>2. CASE i \in 1 .. b
      BY <1>1, <1>2, <2>2, <2>4, <3>2
    <3> QED
      BY <2>2, <3>1, <3>2
  <2>6. ASSUME NEW i \in DOMAIN q, NEW j \in DOMAIN q, i < j
        PROVE  g[i] < g[j]
    <3>1. i \in 1 .. b
      BY <2>1, <2>2, <2>6
    <3>2. CASE j \in 1 .. b
      BY <1>1, <2>2, <2>4, <2>6, <3>1, <3>2
    <3>3. CASE j = b + 1
      <4>1. h[i] \in 1 .. n - 1
        BY <1>1, <2>2, <3>1
      <4> QED
        BY <1>2, <2>4, <3>1, <3>3, <4>1
    <3> QED
      BY <2>2, <3>2, <3>3
  <2>7. ASSUME NEW k \in DOMAIN s \cap (places \cap 1 .. n)
        PROVE  \E i \in DOMAIN q : g[i] = k
    <3>1. CASE k = n
      BY <2>4, <3>1
    <3>2. CASE k # n
      <4>1. k \in DOMAIN s \cap (places \cap 1 .. n - 1)
        BY <1>2, <3>2
      <4> QED
        BY <1>1, <2>2, <2>4, <4>1
    <3> QED
      BY <3>1, <3>2
  <2>8. Picks(q, s, places \cap 1 .. n)
    BY <2>5, <2>6, <2>7, Zenon DEF Picks
  <2> QED
    BY <2>2, <2>8
<1> QED
  BY <1>3, <1>4

\* TakenAt takes the elements at the places, in their order.
LEMMA TakenPicks ==
    ASSUME NEW T, NEW s \in Seq(T), NEW places
    PROVE  TakenAt(s, places) \in Seq(T) /\ Picks(TakenAt(s, places), s, places)
<1>1. PICK f : /\ TakenAt(s, places) = f[Len(s)] /\ f[0] = <<>>
               /\ \A n \in 1 .. Len(s) :
                     f[n] = IF n \in places THEN Append(f[n - 1], s[n]) ELSE f[n - 1]
  BY TakenTurns
<1>2. Len(s) \in Nat /\ DOMAIN s = 1 .. Len(s)
  OBVIOUS
<1> DEFINE good == {n \in 0 .. Len(s) : f[n] \in Seq(T) /\ Picks(f[n], s, places \cap 1 .. n)}
<1>3. 0 \in good
  <2>1. places \cap 1 .. 0 = {} /\ DOMAIN f[0] = {} /\ f[0] \in Seq(T)
    BY <1>1
  <2>2. Picks(f[0], s, places \cap 1 .. 0)
    BY <2>1 DEF Picks
  <2> QED
    BY <1>2, <2>1, <2>2
<1>4. ASSUME NEW n \in 1 .. Len(s), n - 1 \in good PROVE n \in good
  <2>1. f[n - 1] \in Seq(T) /\ Picks(f[n - 1], s, places \cap 1 .. n - 1)
    BY <1>4
  <2>2. f[n] = IF n \in places THEN Append(f[n - 1], s[n]) ELSE f[n - 1]
    BY <1>1
  <2>3. f[n] \in Seq(T) /\ Picks(f[n], s, places \cap 1 .. n)
    BY <2>1, <2>2, PicksNext
  <2>4. n \in 0 .. Len(s)
    BY <1>2
  <2> QED
    BY <2>3, <2>4
<1>5. Len(s) \in good
  <2> HIDE DEF good
  <2>1. \A n \in 0 .. Len(s) : n \in good
    BY <1>2, <1>3, <1>4, EveryTurn
  <2>2. Len(s) \in 0 .. Len(s)
    BY <1>2
  <2> QED
    BY <2>1, <2>2
<1>6. Picks(f[Len(s)], s, places \cap 1 .. Len(s))
  BY <1>5
<1>7. Picks(f[Len(s)], s, places)
  BY <1>2, <1>6 DEF Picks
<1> QED
  BY <1>1, <1>5, <1>7

\* Every element of a sequence is at one place.
OnlyOnce(s) == \A m, n \in DOMAIN s : s[m] = s[n] => m = n

\* What was picked of a sequence.
LEMMA Picked ==
    ASSUME NEW T, NEW s \in Seq(T), NEW places
    PROVE  /\ ToSet(TakenAt(s, places)) = {s[n] : n \in DOMAIN s \cap places}
           /\ OnlyOnce(s) => OnlyOnce(TakenAt(s, places))
<1>1. PICK r : r = TakenAt(s, places) /\ r \in Seq(T) /\ Picks(r, s, places)
  BY TakenPicks
<1>2. PICK h : /\ \A i \in DOMAIN r : h[i] \in DOMAIN s \cap places /\ r[i] = s[h[i]]
               /\ \A i, j \in DOMAIN r : i < j => h[i] < h[j]
               /\ \A k \in DOMAIN s \cap places : \E i \in DOMAIN r : h[i] = k
  BY <1>1 DEF Picks
<1>3. ToSet(r) = {s[n] : n \in DOMAIN s \cap places}
  BY <1>2 DEF ToSet
<1>4. ASSUME OnlyOnce(s), NEW i \in DOMAIN r, NEW j \in DOMAIN r, r[i] = r[j] PROVE i = j
  <2>1. h[i] = h[j] /\ h[i] \in Nat
    <3>1. DOMAIN s \subseteq Nat
      OBVIOUS
    <3> QED
      BY <1>2, <1>4, <3>1 DEF OnlyOnce
  <2>2. ~ (i < j) /\ ~ (j < i)
    BY <1>2, <2>1
  <2>3. i \in Nat /\ j \in Nat
    BY <1>1
  <2> QED
    BY <2>2, <2>3
<1>5. OnlyOnce(s) => OnlyOnce(r)
  BY <1>4 DEF OnlyOnce
<1> QED
  BY <1>1, <1>3, <1>5

-----------------------------------------------------------------------------

\* Loading finds what is readable, and nothing else.
LEMMA Loaded ==
    ASSUME FileTyped
    PROVE  LoadFromFile \in Seq(DOMAIN built) /\ ToSet(LoadFromFile) = Readable
<1>1. PICK places : places = {n \in DOMAIN file : IsLine(n)}
  OBVIOUS
<1>2. PICK r : r = LoadFromFile
  OBVIOUS
<1>3. r = TakenAt(file, places)
  BY <1>1, <1>2 DEF LoadFromFile
<1>4. r \in Seq(Tokens) /\ ToSet(r) = {file[n] : n \in DOMAIN file \cap places}
  BY <1>3, TakenPicks, Picked DEF FileTyped
<1>5. ToSet(r) = Readable
  BY <1>1, <1>4 DEF Readable
<1>6. \A n \in DOMAIN file : IsLine(n) => file[n] \in DOMAIN built
  BY DEF FileTyped, IsLine, Tokens
<1>7. \A k \in DOMAIN r : r[k] \in DOMAIN built
  <2>1. \A k \in DOMAIN r : r[k] \in Readable
    BY <1>5 DEF ToSet
  <2> QED
    BY <1>6, <2>1 DEF Readable
<1>8. r \in Seq(DOMAIN built)
  BY <1>4, <1>7
<1> QED
  BY <1>2, <1>5, <1>8

-----------------------------------------------------------------------------

LEMMA InitVanish == Init => VanishInv
<1> SUFFICES ASSUME Init PROVE VanishInv
  OBVIOUS
<1>1. Typed
  BY InitInv DEF TrailInv
<1>2. FileTyped
  <2>1. <<>> \in Seq(Tokens) /\ <<>> \in Seq(DOMAIN built)
    BY EmptySeq
  <2>2. 0 \in 0 .. MaxErrors /\ 0 \in 0 .. MaxRestarts
    BY ConstantsAssumption
  <2> QED
    BY <2>1, <2>2 DEF Init, FileTyped
<1>3. OwnEvents
  BY DEF Init, OwnEvents, Storing
<1>4. NothingLoggedVanishes
  BY DEF Init, NothingLoggedVanishes
<1> QED
  BY <1>1, <1>2, <1>3, <1>4 DEF VanishInv

\* What is found stays found where file, cache and logged stay as they are.
LEMMA NothingMoves ==
    ASSUME NothingLoggedVanishes, UNCHANGED <<file, cache, restarts, logged>>
    PROVE  NothingLoggedVanishes'
BY Untouched DEF NothingLoggedVanishes

\* Who does not begin to store leaves the events in the hands that they are in.
LEMMA HandsEmptied ==
    ASSUME OwnEvents,
           ToSet(file) \subseteq ToSet(file'), UNCHANGED logged,
           \A v \in Workers : pc'[v] \in Storing => pc'[v] = pc[v] /\ event'[v] = event[v]
    PROVE  OwnEvents'
BY DEF OwnEvents

\* Building gives the worker an event that nobody else has.
LEMMA BuildKeeps ==
    ASSUME VanishInv, NEW w \in Workers, Build(w)
    PROVE  VanishInv'
<1>1. Typed /\ Typed'
  BY TypedStep DEF VanishInv, Next, Work, Store
<1>2. DOMAIN built \subseteq DOMAIN built' /\ Len(built') \notin DOMAIN built
  BY <1>1, Grown
<1>3. UNCHANGED <<file, cache, errors, restarts, logged>>
  BY DEF Build, faults
<1>4. FileTyped'
  <2>1. Tokens \subseteq Tokens'
    BY <1>2 DEF Tokens
  <2>2. file \in Seq(Tokens') /\ cache \in Seq(DOMAIN built')
    BY <1>2, <2>1 DEF VanishInv, FileTyped
  <2> QED
    BY <1>3, <2>2 DEF VanishInv, FileTyped
<1>5. /\ event'[w] = Len(built') /\ pc'[w] = "object"
      /\ \A v \in Workers : v # w => event'[v] = event[v] /\ pc'[v] = pc[v]
  BY <1>1 DEF Build, Typed
<1>6. \A v \in Workers : pc[v] \in Storing => event[v] \in DOMAIN built
  BY <1>1 DEF Typed
<1>7. ASSUME NEW v \in Workers, pc'[v] \in Storing
      PROVE  /\ event'[v] \notin logged'
             /\ pc'[v] \in {"newline", "push"} => event'[v] \in ToSet(file')
             /\ \A u \in Workers : pc'[u] \in Storing /\ event'[u] = event'[v] => u = v
  <2>1. CASE v = w
    BY <1>1, <1>2, <1>3, <1>5, <1>6, <2>1 DEF Typed
  <2>2. CASE v # w
    BY <1>2, <1>3, <1>5, <1>6, <1>7, <2>2 DEF VanishInv, OwnEvents
  <2> QED
    BY <2>1, <2>2
<1>8. OwnEvents'
  BY <1>7 DEF OwnEvents
<1> QED
  BY <1>1, <1>3, <1>4, <1>8, NothingMoves DEF VanishInv

\* A token that a worker writes spoils at most its own line's readability, and no
\* event that was logged becomes readable by it.
LEMMA WriteKeeps ==
    ASSUME VanishInv, NEW w \in Workers, NEW t \in Tokens,
           file' = Append(file, t), t \in {Newline, Cut} \/ t \notin logged,
           Typed', FileTyped', OwnEvents', UNCHANGED <<built, cache, restarts, logged>>
    PROVE  VanishInv'
<1>1. ToSet(file') = ToSet(file) \cup {t} /\ Readable' \subseteq Readable \cup ({t} \ {Newline, Cut})
  BY Appended DEF VanishInv
<1>2. NothingLoggedVanishes'
  BY <1>1 DEF VanishInv, NothingLoggedVanishes
<1> QED
  BY <1>2 DEF VanishInv

LEMMA WriteObjectKeeps ==
    ASSUME VanishInv, NEW w \in Workers, WriteObject(w)
    PROVE  VanishInv'
<1>1. Typed /\ Typed'
  BY TypedStep DEF VanishInv, Next, Work, Store
<1>2. PICK t : t = event[w]
  OBVIOUS
<1>3. t \in Tokens /\ file' = Append(file, t) /\ t \notin logged
  BY <1>1, <1>2 DEF WriteObject, Typed, Storing, Tokens, VanishInv, OwnEvents
<1>4. UNCHANGED <<built, cache, errors, restarts, logged, event>>
  BY DEF WriteObject, faults
<1>5. ToSet(file') = ToSet(file) \cup {t}
  BY <1>3, Appended DEF VanishInv
<1>6. /\ pc[w] \in Storing /\ pc'[w] \in Storing
      /\ \A v \in Workers : v # w => pc'[v] = pc[v]
  BY <1>1 DEF WriteObject, Typed, Storing
<1>7. OwnEvents'
  BY <1>2, <1>4, <1>5, <1>6 DEF VanishInv, OwnEvents
<1>8. FileTyped'
  <2>1. file' \in Seq(Tokens)
    BY <1>3 DEF VanishInv, FileTyped
  <2> QED
    BY <1>4, <2>1 DEF VanishInv, FileTyped, Tokens
<1> QED
  BY <1>1, <1>3, <1>4, <1>7, <1>8, WriteKeeps

LEMMA WriteNewlineKeeps ==
    ASSUME VanishInv, NEW w \in Workers, WriteNewline(w)
    PROVE  VanishInv'
<1>1. Typed /\ Typed'
  BY TypedStep DEF VanishInv, Next, Work, Store
<1>2. Newline \in Tokens /\ file' = Append(file, Newline)
  BY DEF WriteNewline, Tokens
<1>3. UNCHANGED <<built, cache, errors, restarts, logged, event>>
  BY DEF WriteNewline, faults
<1>4. ToSet(file') = ToSet(file) \cup {Newline}
  BY <1>2, Appended DEF VanishInv
<1>5. /\ pc[w] = "newline" /\ pc'[w] = "push"
      /\ \A v \in Workers : v # w => pc'[v] = pc[v]
  BY <1>1 DEF WriteNewline, Typed
<1>6. OwnEvents'
  BY <1>3, <1>4, <1>5 DEF VanishInv, OwnEvents, Storing
<1>7. FileTyped'
  <2>1. file' \in Seq(Tokens)
    BY <1>2 DEF VanishInv, FileTyped
  <2> QED
    BY <1>3, <2>1 DEF VanishInv, FileTyped, Tokens
<1> QED
  BY <1>1, <1>2, <1>3, <1>6, <1>7, WriteKeeps

\* After its event a worker stores no more.
LEMMA Stored ==
    ASSUME Typed, NEW w \in Workers, NEW id, Continue(w, id)
    PROVE  \A v \in Workers : pc'[v] \in Storing => v # w /\ pc'[v] = pc[v] /\ event'[v] = event[v]
<1>1. \/ Return(w)
      \/ GoOn(w, "execute", id)
      \/ GoOn(w, "link", id)
  BY AfterLogging
<1>2. CASE Return(w)
  BY <1>2 DEF Return, Typed, Storing
<1>3. CASE GoOn(w, "execute", id)
  BY <1>3 DEF GoOn, Typed, Storing
<1>4. CASE GoOn(w, "link", id)
  BY <1>4 DEF GoOn, Typed, Storing
<1> QED
  BY <1>1, <1>2, <1>3, <1>4

LEMMA IoErrorKeeps ==
    ASSUME VanishInv, NEW w \in Workers, IoError(w)
    PROVE  VanishInv'
<1>1. Typed /\ Typed'
  BY TypedStep DEF VanishInv, Next
<1>2. file' = file \/ file' = Append(file, Cut)
  BY DEF IoError
<1>3. UNCHANGED <<built, cache, restarts, logged>> /\ errors' = errors + 1 /\ errors < MaxErrors
  BY DEF IoError
<1>4. \A v \in Workers : pc'[v] \in Storing => pc'[v] = pc[v] /\ event'[v] = event[v]
  BY <1>1, Stored DEF IoError
<1>5. ToSet(file) \subseteq ToSet(file')
  BY <1>2, Appended DEF VanishInv
<1>6. OwnEvents'
  BY <1>3, <1>4, <1>5, HandsEmptied DEF VanishInv
<1>7. FileTyped'
  <2>1. Cut \in Tokens
    BY DEF Tokens
  <2>2. file' \in Seq(Tokens)
    BY <1>2, <2>1 DEF VanishInv, FileTyped
  <2>3. errors' \in 0 .. MaxErrors
    BY <1>3, ConstantsAssumption DEF VanishInv, FileTyped
  <2> QED
    BY <1>3, <2>2, <2>3 DEF VanishInv, FileTyped, Tokens
<1>8. CASE file' = file
  BY <1>1, <1>3, <1>6, <1>7, <1>8, NothingMoves DEF VanishInv
<1>9. CASE file' = Append(file, Cut)
  <2>1. Cut \in Tokens
    BY DEF Tokens
  <2> QED
    BY <1>1, <1>3, <1>6, <1>7, <1>9, <2>1, WriteKeeps
<1> QED
  BY <1>2, <1>8, <1>9

\* The cache keeps the newest events: of those it had, all or as many as it can hold.
LEMMA Pushed ==
    ASSUME NEW S, NEW s \in Seq(S), NEW e \in S
    PROVE  LET new == Newest(Append(s, e), CacheSize)
           IN  /\ new \in Seq(S) /\ e \in ToSet(new)
               /\ Len(new) >= CacheSize \/ ToSet(s) \subseteq ToSet(new)
<1> DEFINE a == Append(s, e)
           n == Len(a)
           new == Newest(a, CacheSize)
<1>1. CacheSize \in Nat /\ CacheSize >= 1
  BY ConstantsAssumption
<1>2. /\ a \in Seq(S) /\ n = Len(s) + 1 /\ Len(s) \in Nat /\ DOMAIN a = 1 .. n
      /\ a[n] = e /\ DOMAIN s = 1 .. Len(s) /\ \A k \in 1 .. Len(s) : a[k] = s[k]
  OBVIOUS
<1>3. CASE n <= CacheSize
  <2>1. new = a
    BY <1>3 DEF Newest
  <2>2. n \in DOMAIN a /\ \A k \in DOMAIN s : k \in DOMAIN a
    BY <1>2
  <2> HIDE DEF a, n, new
  <2>3. new \in Seq(S) /\ e \in ToSet(new) /\ ToSet(s) \subseteq ToSet(new)
    BY <1>2, <2>1, <2>2 DEF ToSet
  <2> QED
    BY <2>3 DEF new, a
<1>4. CASE n > CacheSize
  <2> DEFINE lo == n - CacheSize + 1
  <2>1. new = SubSeq(a, lo, n)
    BY <1>1, <1>2, <1>4 DEF Newest
  <2>2. lo \in Int /\ n \in Int /\ lo <= n /\ lo >= 1 /\ n - lo + 1 = CacheSize
    <3> HIDE DEF a
    <3> QED
      BY <1>1, <1>2, <1>4
  <2>3. \A k \in lo .. n : a[k] \in S
    <3>1. \A k \in lo .. n : k \in DOMAIN a
      <4> HIDE DEF a
      <4> QED
        BY <1>2, <2>2
    <3> HIDE DEF a, n, lo
    <3> QED
      BY <1>2, <3>1, ElementOfSeq
  <2> HIDE DEF a, n, lo, new
  <2>4. /\ new \in Seq(S) /\ Len(new) = CacheSize
        /\ \A k \in 1 .. CacheSize : new[k] = a[lo + k - 1]
    BY <2>1, <2>2, <2>3, SubSeqProperties
  <2>5. CacheSize \in DOMAIN new /\ new[CacheSize] = e
    <3>1. lo + CacheSize - 1 = n
      BY <1>1, <2>2
    <3>2. CacheSize \in 1 .. CacheSize
      BY <1>1
    <3> QED
      BY <1>2, <2>4, <3>1, <3>2
  <2>6. e \in ToSet(new) /\ Len(new) >= CacheSize
    BY <1>1, <2>4, <2>5 DEF ToSet
  <2> QED
    BY <2>4, <2>6 DEF a, new
<1>5. n <= CacheSize \/ n > CacheSize
  <2> HIDE DEF a
  <2> QED
    BY <1>1, <1>2
<1> QED
  BY <1>3, <1>4, <1>5

\* A full cache stays full.
LEMMA FullStaysFull ==
    ASSUME NEW S, NEW s \in Seq(S), NEW e \in S, Len(s) >= CacheSize
    PROVE  Len(Newest(Append(s, e), CacheSize)) >= CacheSize
<1> DEFINE a == Append(s, e)
<1>1. CacheSize \in Nat /\ CacheSize >= 1
  BY ConstantsAssumption
<1>2. a \in Seq(S) /\ Len(a) = Len(s) + 1 /\ Len(s) \in Nat
  OBVIOUS
<1> HIDE DEF a
<1>3. Newest(a, CacheSize) = SubSeq(a, Len(a) - CacheSize + 1, Len(a))
  BY <1>1, <1>2 DEF Newest
<1>4. Len(SubSeq(a, Len(a) - CacheSize + 1, Len(a))) = CacheSize
  <2>1. PICK lo \in Int : lo = Len(a) - CacheSize + 1
    <3>1. Len(a) - CacheSize + 1 \in Int
      BY <1>1, <1>2
    <3> QED
      BY <3>1
  <2>2. \A k \in lo .. Len(a) : a[k] \in S
    <3>1. \A k \in lo .. Len(a) : k \in 1 .. Len(a)
      BY <1>1, <1>2, <2>1
    <3> QED
      BY <1>2, <3>1, ElementOfSeq
  <2>3. Len(a) \in Int /\ lo <= Len(a) /\ Len(a) - lo + 1 = CacheSize
    BY <1>1, <1>2, <2>1
  <2> QED
    BY <2>1, <2>2, <2>3, SubSeqProperties
<1> QED
  BY <1>1, <1>3, <1>4 DEF a

LEMMA PushKeeps ==
    ASSUME VanishInv, NEW w \in Workers, Push(w)
    PROVE  VanishInv'
<1>1. Typed /\ Typed'
  BY TypedStep DEF VanishInv, Next, Work, Store
<1>2. PICK e : e = event[w]
  OBVIOUS
<1>3. /\ e \in DOMAIN built /\ e \in ToSet(file) /\ pc[w] \in Storing
      /\ logged' = logged \cup {e} /\ cache' = Newest(Append(cache, e), CacheSize)
      /\ UNCHANGED <<built, file, errors, restarts>>
  BY <1>1, <1>2 DEF Push, Typed, Storing, VanishInv, OwnEvents, faults
<1>4. /\ cache' \in Seq(DOMAIN built) /\ e \in ToSet(cache')
      /\ Len(cache') >= CacheSize \/ ToSet(cache) \subseteq ToSet(cache')
  BY <1>3, Pushed DEF VanishInv, FileTyped
<1>5. FileTyped'
  BY <1>3, <1>4 DEF VanishInv, FileTyped, Tokens
<1>6. \A v \in Workers : pc'[v] \in Storing => v # w /\ pc'[v] = pc[v] /\ event'[v] = event[v]
  BY <1>1, Stored DEF Push
<1>7. OwnEvents'
  BY <1>2, <1>3, <1>6 DEF VanishInv, OwnEvents
<1>8. Readable' = Readable
  BY <1>3, Untouched
<1>9. NothingLoggedVanishes'
  <2> SUFFICES ASSUME NEW d \in logged'
               PROVE  /\ d \in ToSet(file')
                      /\ \/ d \in ToSet(cache')
                         \/ Len(cache') >= CacheSize
                         \/ restarts' > 0 /\ d \notin Readable'
    BY DEF NothingLoggedVanishes
  <2>1. CASE d = e
    BY <1>3, <1>4, <2>1
  <2>2. CASE d \in logged
    <3>1. CASE d \in ToSet(cache)
      BY <1>3, <1>4, <2>2, <3>1 DEF VanishInv, NothingLoggedVanishes
    <3>2. CASE Len(cache) >= CacheSize
      <4>1. Len(cache') >= CacheSize
        BY <1>3, <3>2, FullStaysFull DEF VanishInv, FileTyped
      <4> QED
        BY <1>3, <2>2, <4>1 DEF VanishInv, NothingLoggedVanishes
    <3>3. CASE restarts > 0 /\ d \notin Readable
      BY <1>3, <1>8, <2>2, <3>3 DEF VanishInv, NothingLoggedVanishes
    <3> QED
      BY <2>2, <3>1, <3>2, <3>3 DEF VanishInv, NothingLoggedVanishes
  <2> QED
    BY <1>3, <2>1, <2>2
<1> QED
  BY <1>1, <1>5, <1>7, <1>9 DEF VanishInv

\* After a restart the cache is what the file still says.
LEMMA RestartKeeps ==
    ASSUME VanishInv, Restart
    PROVE  VanishInv'
<1>1. Typed /\ Typed'
  BY TypedStep DEF VanishInv, Next
<1>2. /\ cache' = LoadFromFile /\ restarts' = restarts + 1 /\ restarts < MaxRestarts
      /\ UNCHANGED <<built, file, errors, logged>> /\ \A w \in Workers : pc'[w] = "idle"
  BY DEF Restart
<1>3. cache' \in Seq(DOMAIN built) /\ ToSet(cache') = Readable
  BY <1>2, Loaded DEF VanishInv
<1>4. restarts' \in 0 .. MaxRestarts /\ restarts' > 0
  BY <1>2, ConstantsAssumption DEF VanishInv, FileTyped
<1>5. FileTyped'
  BY <1>2, <1>3, <1>4 DEF VanishInv, FileTyped, Tokens
<1>6. OwnEvents'
  BY <1>2 DEF OwnEvents, Storing
<1>7. Readable' = Readable /\ ToSet(file') = ToSet(file)
  BY <1>2, Untouched
<1>8. NothingLoggedVanishes'
  BY <1>2, <1>3, <1>4, <1>7 DEF VanishInv, NothingLoggedVanishes
<1> QED
  BY <1>1, <1>5, <1>6, <1>8 DEF VanishInv

\* The other steps, which store nothing.
Unstored ==
    /\ UNCHANGED <<built, file, cache, errors, restarts, logged>>
    /\ \A v \in Workers : pc'[v] \in Storing => pc'[v] = pc[v] /\ event'[v] = event[v]

LEMMA UnstoredKeeps ==
    ASSUME VanishInv, Unstored, Typed'
    PROVE  VanishInv'
<1>1. FileTyped'
  BY DEF Unstored, VanishInv, FileTyped, Tokens
<1>2. OwnEvents'
  BY HandsEmptied DEF Unstored, VanishInv
<1>3. NothingLoggedVanishes'
  BY NothingMoves DEF Unstored, VanishInv
<1> QED
  BY <1>1, <1>2, <1>3 DEF VanishInv

\* A step is one of storing, an I/O error, a restart, or stores nothing.
LEMMA StepsThatStore ==
    ASSUME Typed, [Next]_vars
    PROVE  (\E w \in Workers : Store(w) \/ IoError(w)) \/ Restart \/ Unstored
<1>1. ASSUME NEW w \in Workers, UpdateAuditIds(w) PROVE Unstored
  BY <1>1 DEF UpdateAuditIds, Return, Unstored, faults, Typed, Storing
<1>2. ASSUME NEW w \in Workers, Decide(w) PROVE Unstored
  BY <1>2 DEF Decide, Unstored, faults, Typed, Storing
<1>3. ASSUME NEW w \in Workers, DecideTooLate(w) \/ Drop(w) PROVE Unstored
  BY <1>3 DEF DecideTooLate, Drop, Return, Unstored, faults, Typed, Storing
<1>4. ASSUME NEW w \in Workers, Execute(w) PROVE Unstored
  <2>1. UNCHANGED <<built, file, cache, errors, restarts, logged>>
    BY <1>4 DEF Execute, faults
  <2>2. CASE Return(w)
    BY <2>1, <2>2 DEF Return, Unstored, Typed, Storing
  <2>3. CASE GoOn(w, "executed", parent[w])
    BY <2>1, <2>3 DEF GoOn, Unstored, Typed, Storing
  <2>4. CASE GoOn(w, "failed", parent[w])
    BY <2>1, <2>4 DEF GoOn, Unstored, Typed, Storing
  <2>5. CASE GoOn(w, "called", None)
    BY <2>1, <2>5 DEF GoOn, Unstored, Typed, Storing
  <2> QED
    BY <1>4, <2>2, <2>3, <2>4, <2>5 DEF Execute
<1>5. ASSUME NEW w \in Workers, CallDirectly(w) PROVE Unstored
  BY <1>5 DEF CallDirectly, Begin, Unstored, faults, Typed, Storing
<1>6. ASSUME NEW w \in Workers, NEW r \in Requests, CreateRequest(w, r) PROVE Unstored
  BY <1>6 DEF CreateRequest, Begin, Unstored, faults, Typed, Storing
<1>7. ASSUME NEW w \in Workers, NEW r \in Requests, OpenApproval(w, r) PROVE Unstored
  BY <1>7 DEF OpenApproval, Begin, Unstored, faults, Typed, Storing
<1>8. ASSUME NEW r \in Requests, DecideOverMcp(r) PROVE Unstored
  BY <1>8 DEF DecideOverMcp, local, Unstored, faults
<1>9. ASSUME UNCHANGED vars PROVE Unstored
  BY <1>9 DEF vars, local, Unstored, faults
<1> QED
  BY <1>1, <1>2, <1>3, <1>4, <1>5, <1>6, <1>7, <1>8, <1>9 DEF Next, Work, Workers

LEMMA VanishStep == VanishInv /\ [Next]_vars => VanishInv'
<1> SUFFICES ASSUME VanishInv, [Next]_vars PROVE VanishInv'
  OBVIOUS
<1>0. Typed /\ Typed'
  BY TypedStep DEF VanishInv
<1>1. ASSUME NEW w \in Workers, Store(w) PROVE VanishInv'
  BY <1>1, BuildKeeps, WriteObjectKeeps, WriteNewlineKeeps, PushKeeps DEF Store
<1>2. ASSUME NEW w \in Workers, IoError(w) PROVE VanishInv'
  BY <1>2, IoErrorKeeps
<1>3. ASSUME Restart PROVE VanishInv'
  BY <1>3, RestartKeeps
<1>4. ASSUME Unstored PROVE VanishInv'
  BY <1>0, <1>4, UnstoredKeeps
<1> QED
  BY <1>0, <1>1, <1>2, <1>3, <1>4, StepsThatStore

\* The types of the log, its file and its cache, whatever is interleaved or fails.
THEOREM Typing == Spec => []TypeOK
<1>1. VanishInv => TypeOK
  BY TypeParts DEF VanishInv
<1> QED
  BY InitVanish, VanishStep, <1>1, PTL DEF Spec

\* No logged event is lost, for any number of writers, any cache, any faults: its
\* object is in the file, and it is read unless the cache is full of others or a
\* line of the file was spoilt and the file was read again.
THEOREM NothingLoggedIsLost == Spec => []NothingLoggedVanishes
<1>1. VanishInv => NothingLoggedVanishes
  BY DEF VanishInv
<1> QED
  BY InitVanish, VanishStep, <1>1, PTL DEF Spec

-----------------------------------------------------------------------------
(* Trees.                                                                   *)

\* A sequence in ascending order.
Ascending(s) == \A k, l \in DOMAIN s : k < l => s[k] < s[l]

\* The loop of the sort.
Sorting(f, tree) ==
    f = [n \in 0 .. Len(built) |->
            IF n = 0 THEN <<>>
            ELSE f[n - 1] \o TakenAt(tree, {k \in DOMAIN tree : tree[k] = n})]

\* The elements of one time, if there is one.
LEMMA OneTime ==
    ASSUME NEW tree \in Seq(Nat), OnlyOnce(tree), NEW n
    PROVE  TakenAt(tree, {k \in DOMAIN tree : tree[k] = n}) = IF n \in ToSet(tree) THEN <<n>> ELSE <<>>
<1>1. PICK places : places = {k \in DOMAIN tree : tree[k] = n}
  OBVIOUS
<1>2. PICK r : r = TakenAt(tree, places)
  OBVIOUS
<1>3. /\ r \in Seq(Nat) /\ OnlyOnce(r)
      /\ ToSet(r) = {tree[k] : k \in DOMAIN tree \cap places}
  BY <1>2, TakenPicks, Picked
<1>4. ToSet(r) = IF n \in ToSet(tree) THEN {n} ELSE {}
  BY <1>1, <1>3 DEF ToSet
<1>5. DOMAIN r = 1 .. Len(r) /\ Len(r) \in Nat
  BY <1>3
<1>6. CASE n \notin ToSet(tree)
  <2>1. DOMAIN r = {}
    BY <1>4, <1>6 DEF ToSet
  <2>2. r = <<>>
    BY <1>3, <2>1, EmptySeq
  <2> QED
    BY <1>1, <1>2, <1>6, <2>2
<1>7. CASE n \in ToSet(tree)
  <2>1. \A i \in DOMAIN r : r[i] = n
    BY <1>4, <1>7 DEF ToSet
  <2>2. \A i, j \in DOMAIN r : i = j
    BY <1>3, <2>1 DEF OnlyOnce
  <2>3. DOMAIN r # {}
    BY <1>4, <1>7 DEF ToSet
  <2>4. Len(r) = 1
    <3>1. Len(r) # 0
      BY <1>5, <2>3
    <3>2. ASSUME Len(r) > 1 PROVE FALSE
      <4>1. 1 \in DOMAIN r /\ 2 \in DOMAIN r
        BY <1>5, <3>2
      <4> QED
        BY <2>2, <4>1
    <3> QED
      BY <1>5, <3>1, <3>2
  <2>5. r = <<n>>
    <3>1. n \in Nat
      BY <1>7 DEF ToSet
    <3>2. 1 \in DOMAIN r /\ r[1] = n
      BY <1>5, <2>1, <2>4
    <3> QED
      BY <1>3, <2>4, <3>1, <3>2
  <2> QED
    BY <1>1, <1>2, <1>7, <2>5
<1> QED
  BY <1>6, <1>7

\* It puts what has the next time behind what it has.
LEMMA SortTurns ==
    ASSUME NEW tree \in Seq(Nat), Len(built) \in Nat
    PROVE  \E f : /\ ByTime(tree) = f[Len(built)] /\ f[0] = <<>>
                  /\ \A n \in 1 .. Len(built) :
                        f[n] = f[n - 1] \o TakenAt(tree, {k \in DOMAIN tree : tree[k] = n})
<1>1. PICK N \in Nat : N = Len(built)
  OBVIOUS
<1>2. PICK b : b = [n \in 1 .. N |-> TakenAt(tree, {k \in DOMAIN tree : tree[k] = n})]
  OBVIOUS
<1>3. \A n \in 1 .. N : b[n] \in Seq(Nat)
  BY <1>2, TakenPicks
<1>4. \A n \in 1 .. N : b[n] = TakenAt(tree, {k \in DOMAIN tree : tree[k] = n})
  BY <1>2
<1>5. \E f : Sorting(f, tree)
  <2>1. PICK S : S = Seq(Nat)
    OBVIOUS
  <2>2. PICK turn : turn = [n \in 1 .. N |-> [t \in S |-> t \o b[n]]]
    OBVIOUS
  <2>3. \A n \in 1 .. N, t \in S : t \o b[n] \in S
    BY <1>3, <2>1, ConcatProperties
  <2>4. turn \in Turns(N, S)
    BY <2>2, <2>3 DEF Turns
  <2>5. PICK first \in S : first = <<>>
    <3>1. <<>> \in S
      BY <2>1, EmptySeq
    <3> QED
      BY <3>1
  <2>6. PICK f : Runs(f, N, S, first, turn)
    BY <1>1, <2>4, <2>5, Loop
  <2>7. f \in [0 .. N -> S] /\ f[0] = first /\ \A n \in 1 .. N : f[n] = turn[n][f[n - 1]]
    BY <2>6 DEF Runs
  <2>8. ASSUME NEW n \in 0 .. N
        PROVE  f[n] = IF n = 0 THEN <<>> ELSE f[n - 1] \o b[n]
    <3>1. CASE n = 0
      BY <2>5, <2>7, <3>1
    <3>2. CASE n # 0
      <4>1. n \in 1 .. N /\ n - 1 \in 0 .. N
        BY <3>2
      <4>2. f[n - 1] \in S
        BY <2>7, <4>1
      <4> QED
        BY <2>2, <2>7, <3>2, <4>1, <4>2
    <3> QED
      BY <3>1, <3>2
  <2>9. ASSUME NEW n \in 0 .. N
        PROVE  f[n] = IF n = 0 THEN <<>>
                      ELSE f[n - 1] \o TakenAt(tree, {k \in DOMAIN tree : tree[k] = n})
    <3>1. n = 0 \/ n \in 1 .. N
      OBVIOUS
    <3> QED
      BY <1>4, <2>8, <3>1
  <2>10. f = [n \in 0 .. N |-> IF n = 0 THEN <<>>
                      ELSE f[n - 1] \o TakenAt(tree, {k \in DOMAIN tree : tree[k] = n})]
    BY <2>7, <2>9
  <2> QED
    BY <1>1, <2>10 DEF Sorting
<1> DEFINE c == CHOOSE f : Sorting(f, tree)
<1>6. ByTime(tree) = c[Len(built)]
  BY DEF ByTime, Sorting
<1>7. Sorting(c, tree)
  BY <1>5
<1>8. PICK f : ByTime(tree) = f[Len(built)] /\ Sorting(f, tree)
  <2> HIDE DEF c
  <2> QED
    BY <1>6, <1>7
<1>9. f = [n \in 0 .. N |-> IF n = 0 THEN <<>>
             ELSE f[n - 1] \o TakenAt(tree, {k \in DOMAIN tree : tree[k] = n})]
  BY <1>1, <1>8 DEF Sorting
<1>10. 0 \in 0 .. N /\ \A n \in 1 .. N : n \in 0 .. N /\ n # 0
  OBVIOUS
<1>11. /\ f[0] = <<>>
       /\ \A n \in 1 .. N : f[n] = f[n - 1] \o TakenAt(tree, {k \in DOMAIN tree : tree[k] = n})
  BY <1>9, <1>10
<1> QED
  BY <1>1, <1>8, <1>11

\* Sorting keeps the elements of a tree that has each once, and puts them in order.
LEMMA Sorted ==
    ASSUME Len(built) \in Nat, NEW tree \in Seq(1 .. Len(built)), OnlyOnce(tree)
    PROVE  /\ ByTime(tree) \in Seq(Nat) /\ ToSet(ByTime(tree)) = ToSet(tree)
           /\ Ascending(ByTime(tree))
<1>1. PICK N \in Nat : N = Len(built)
  OBVIOUS
<1>2. tree \in Seq(Nat) /\ ToSet(tree) \subseteq 1 .. N
  <2>1. 1 .. N \subseteq Nat
    OBVIOUS
  <2>2. tree \in Seq(1 .. N)
    BY <1>1
  <2>3. \A k \in DOMAIN tree : tree[k] \in 1 .. N
    BY <2>2
  <2> QED
    BY <2>1, <2>2, <2>3 DEF ToSet
<1>3. PICK f : /\ ByTime(tree) = f[N] /\ f[0] = <<>>
               /\ \A n \in 1 .. N :
                     f[n] = f[n - 1] \o TakenAt(tree, {k \in DOMAIN tree : tree[k] = n})
  BY <1>1, <1>2, SortTurns
<1>4. \A n \in 1 .. N : f[n] = f[n - 1] \o (IF n \in ToSet(tree) THEN <<n>> ELSE <<>>)
  BY <1>2, <1>3, OneTime
<1> DEFINE good == {n \in 0 .. N : /\ f[n] \in Seq(Nat) /\ Ascending(f[n])
                                   /\ ToSet(f[n]) = ToSet(tree) \cap 1 .. n}
<1>5. 0 \in good
  <2>1. f[0] \in Seq(Nat) /\ DOMAIN f[0] = {} /\ 1 .. 0 = {}
    BY <1>3
  <2> QED
    BY <2>1 DEF Ascending, ToSet
<1>6. ASSUME NEW n \in 1 .. N, n - 1 \in good PROVE n \in good
  <2>1. /\ f[n - 1] \in Seq(Nat) /\ Ascending(f[n - 1])
        /\ ToSet(f[n - 1]) = ToSet(tree) \cap 1 .. n - 1
    BY <1>6
  <2>2. n \in Nat /\ 1 .. n = (1 .. n - 1) \cup {n} /\ n \in 0 .. N /\ \A k \in 1 .. n - 1 : k < n
    OBVIOUS
  <2>3. CASE n \notin ToSet(tree)
    <3>1. f[n] = f[n - 1] \o <<>>
      BY <1>4, <2>3
    <3>2. f[n] = f[n - 1]
      BY <2>1, <3>1, ConcatEmptySeq
    <3>3. ToSet(tree) \cap 1 .. n = ToSet(tree) \cap 1 .. n - 1
      BY <2>2, <2>3
    <3> QED
      BY <2>1, <2>2, <3>2, <3>3
  <2>4. CASE n \in ToSet(tree)
    <3>1. f[n] = f[n - 1] \o <<n>>
      BY <1>4, <2>4
    <3>2. PICK s \in Seq(Nat) : s = f[n - 1]
      BY <2>1
    <3>3. PICK b \in Nat : b = Len(s)
      OBVIOUS
    <3>4. PICK q : q = f[n]
      OBVIOUS
    <3>5. q = Append(s, n)
      BY <2>2, <3>1, <3>2, <3>4, AppendIsConcat
    <3>6. /\ q \in Seq(Nat) /\ DOMAIN q = 1 .. b + 1 /\ q[b + 1] = n /\ DOMAIN s = 1 .. b
          /\ \A i \in 1 .. b : q[i] = s[i]
      BY <2>2, <3>3, <3>5
    <3>7. 1 .. b + 1 = (1 .. b) \cup {b + 1}
      OBVIOUS
    <3>8. ToSet(q) = ToSet(s) \cup {n}
      <4>1. \A i \in DOMAIN q : q[i] \in ToSet(s) \cup {n}
        BY <3>6, <3>7 DEF ToSet
      <4>2. n \in ToSet(q) /\ \A i \in DOMAIN s : s[i] \in ToSet(q)
        <5>1. b + 1 \in DOMAIN q /\ \A i \in DOMAIN s : i \in DOMAIN q
          BY <3>6, <3>7
        <5> QED
          BY <3>6, <5>1 DEF ToSet
      <4> QED
        BY <4>1, <4>2 DEF ToSet
    <3>9. ToSet(q) = ToSet(tree) \cap 1 .. n
      BY <2>1, <2>2, <2>4, <3>2, <3>8
    <3>10. ASSUME NEW k \in DOMAIN q, NEW l \in DOMAIN q, k < l PROVE q[k] < q[l]
      <4>1. k \in 1 .. b
        BY <3>6, <3>10
      <4>2. CASE l \in 1 .. b
        BY <2>1, <3>2, <3>6, <3>10, <4>1, <4>2 DEF Ascending
      <4>3. CASE l = b + 1
        <5>1. s[k] \in ToSet(s)
          BY <3>6, <4>1 DEF ToSet
        <5>2. s[k] \in 1 .. n - 1
          BY <2>1, <3>2, <5>1
        <5> QED
          BY <2>2, <3>6, <4>1, <4>3, <5>2
      <4> QED
        BY <3>6, <3>7, <4>2, <4>3
    <3>11. Ascending(q)
      BY <3>10 DEF Ascending
    <3> QED
      BY <2>2, <3>4, <3>6, <3>9, <3>11
  <2> QED
    BY <2>3, <2>4
<1>7. N \in good
  <2> HIDE DEF good
  <2>1. \A n \in 0 .. N : n \in good
    BY <1>1, <1>5, <1>6, EveryTurn
  <2> QED
    BY <1>1, <2>1
<1>8. ToSet(tree) \cap 1 .. N = ToSet(tree)
  BY <1>2
<1> QED
  BY <1>3, <1>7, <1>8

\* The cached events that have an event for a parent.
ChildrenOf(id) == {c \in ToSet(cache) : built[c].parent = id}

\* A turn of the walk finds these, each once.
LEMMA ChildrenFound ==
    ASSUME NEW id, NEW T, cache \in Seq(T), OnlyOnce(cache)
    PROVE  /\ Children(id) \in Seq(ToSet(cache)) /\ OnlyOnce(Children(id))
           /\ ToSet(Children(id)) = ChildrenOf(id)
<1>1. PICK places : places = {n \in DOMAIN cache : built[cache[n]].parent = id}
  OBVIOUS
<1>2. Children(id) = TakenAt(cache, places)
  BY <1>1 DEF Children
<1>3. PICK C : C = ToSet(cache)
  OBVIOUS
<1>4. cache \in Seq(C)
  <2>1. Len(cache) \in Nat /\ DOMAIN cache = 1 .. Len(cache) /\ \A n \in DOMAIN cache : cache[n] \in C
    BY <1>3 DEF ToSet
  <2>2. cache = [n \in 1 .. Len(cache) |-> cache[n]]
    BY <2>1
  <2>3. cache \in [1 .. Len(cache) -> C]
    BY <2>1, <2>2
  <2> QED
    BY <2>1, <2>3, SeqDef
<1>5. PICK r : r = TakenAt(cache, places)
  OBVIOUS
<1>6. r \in Seq(C) /\ OnlyOnce(r) /\ ToSet(r) = {cache[n] : n \in DOMAIN cache \cap places}
  BY <1>4, <1>5, TakenPicks, Picked
<1>7. {cache[n] : n \in DOMAIN cache \cap places} = ChildrenOf(id)
  BY <1>1 DEF ChildrenOf, ToSet
<1> QED
  BY <1>2, <1>3, <1>5, <1>6, <1>7

\* The last of a sequence, and the others.
LEMMA LastAndFront ==
    ASSUME NEW T, NEW s \in Seq(T), s # <<>>, OnlyOnce(s)
    PROVE  /\ Last(s) \in ToSet(s) /\ Front(s) \in Seq(T) /\ OnlyOnce(Front(s))
           /\ ToSet(Front(s)) = ToSet(s) \ {Last(s)}
<1>1. PICK n \in Nat : n = Len(s)
  OBVIOUS
<1>2. n # 0 /\ n \in 1 .. n /\ DOMAIN s = 1 .. n /\ Last(s) = s[n]
  BY <1>1, EmptySeq DEF Last
<1>3. PICK f : f = Front(s)
  OBVIOUS
<1>4. /\ f \in Seq(T) /\ DOMAIN f = 1 .. n - 1 /\ \A k \in 1 .. n - 1 : f[k] = s[k]
  <2>1. f = SubSeq(s, 1, n - 1)
    BY <1>1, <1>3 DEF Front
  <2>2. n - 1 \in Nat /\ 1 .. n - 1 \subseteq 1 .. n
    BY <1>2
  <2>3. \A k \in 1 .. n - 1 : s[k] \in T
    BY <1>1, <2>2, ElementOfSeq
  <2>4. Len(f) = n - 1 /\ f \in Seq(T) /\ \A k \in 1 .. n - 1 : f[k] = s[k]
    BY <1>1, <1>2, <2>1, <2>2, <2>3
  <2> QED
    BY <2>2, <2>4
<1>5. 1 .. n = (1 .. n - 1) \cup {n} /\ n \notin 1 .. n - 1
  BY <1>2
<1>6. OnlyOnce(f)
  BY <1>2, <1>4, <1>5 DEF OnlyOnce
<1>7. ToSet(f) = ToSet(s) \ {s[n]}
  <2>1. \A k \in 1 .. n - 1 : s[k] # s[n]
    BY <1>2, <1>5 DEF OnlyOnce
  <2> QED
    BY <1>2, <1>4, <1>5, <2>1 DEF ToSet
<1> QED
  BY <1>2, <1>3, <1>4, <1>6, <1>7 DEF ToSet

\* Two sequences without common elements.
LEMMA OneAfterTheOther ==
    ASSUME NEW T, NEW s \in Seq(T), NEW t \in Seq(T), OnlyOnce(s), OnlyOnce(t),
           ToSet(s) \cap ToSet(t) = {}
    PROVE  /\ s \o t \in Seq(T) /\ OnlyOnce(s \o t)
           /\ ToSet(s \o t) = ToSet(s) \cup ToSet(t)
<1>1. PICK a \in Nat, b \in Nat : a = Len(s) /\ b = Len(t)
  OBVIOUS
<1>2. PICK q : q = s \o t
  OBVIOUS
<1>3. /\ q \in Seq(T) /\ Len(q) = a + b /\ DOMAIN s = 1 .. a /\ DOMAIN t = 1 .. b
      /\ \A i \in 1 .. a + b : q[i] = IF i <= a THEN s[i] ELSE t[i - a]
  BY <1>1, <1>2, ConcatProperties
<1>4. DOMAIN q = 1 .. a + b
  BY <1>3
<1>5. \A i \in 1 .. a : i \in 1 .. a + b /\ q[i] = s[i] /\ q[i] \in ToSet(s)
  BY <1>3 DEF ToSet
<1>6. ASSUME NEW i \in 1 .. a + b, i \notin 1 .. a
      PROVE  i - a \in 1 .. b /\ q[i] = t[i - a] /\ q[i] \in ToSet(t)
  <2>1. i - a \in 1 .. b /\ ~ (i <= a)
    BY <1>6
  <2> QED
    BY <1>3, <2>1 DEF ToSet
<1>7. ToSet(q) = ToSet(s) \cup ToSet(t)
  <2>1. ASSUME NEW j \in 1 .. b PROVE j + a \in 1 .. a + b /\ q[j + a] = t[j]
    <3>1. PICK i : i = j + a
      OBVIOUS
    <3>2. i \in 1 .. a + b /\ ~ (i <= a) /\ i - a = j
      BY <3>1
    <3> QED
      BY <1>3, <3>1, <3>2
  <2>2. ToSet(s) \cup ToSet(t) \subseteq ToSet(q)
    <3>1. ToSet(s) \subseteq ToSet(q)
      BY <1>3, <1>4, <1>5 DEF ToSet
    <3>2. ASSUME NEW j \in 1 .. b PROVE t[j] \in ToSet(q)
      <4>1. PICK i \in DOMAIN q : q[i] = t[j]
        BY <1>4, <2>1
      <4> QED
        BY <4>1 DEF ToSet
    <3>3. ToSet(t) \subseteq ToSet(q)
      BY <1>3, <3>2 DEF ToSet
    <3> QED
      BY <3>1, <3>3
  <2>3. ToSet(q) \subseteq ToSet(s) \cup ToSet(t)
    <3> SUFFICES ASSUME NEW i \in 1 .. a + b PROVE q[i] \in ToSet(s) \cup ToSet(t)
      BY <1>4 DEF ToSet
    <3> QED
      BY <1>5, <1>6
  <2> QED
    BY <2>2, <2>3
<1>8. ASSUME NEW i \in DOMAIN q, NEW j \in DOMAIN q, q[i] = q[j] PROVE i = j
  <2>1. i \in 1 .. a + b /\ j \in 1 .. a + b
    BY <1>4
  <2>2. CASE i \in 1 .. a /\ j \in 1 .. a
    BY <1>3, <1>5, <1>8, <2>2 DEF OnlyOnce
  <2>3. CASE i \notin 1 .. a /\ j \notin 1 .. a
    <3>1. i - a = j - a
      BY <1>3, <1>6, <1>8, <2>1, <2>3 DEF OnlyOnce
    <3> QED
      BY <2>1, <3>1
  <2>4. CASE (i \in 1 .. a) # (j \in 1 .. a)
    BY <1>5, <1>6, <1>8, <2>1, <2>4
  <2> QED
    BY <2>2, <2>3, <2>4
<1>9. OnlyOnce(q)
  BY <1>8 DEF OnlyOnce
<1> QED
  BY <1>2, <1>3, <1>7, <1>9

\* The variables of the walk.
Walks == [tree : Seq(ToSet(cache)), to_process : Seq(ToSet(cache))]

\* The events that were processed.
Processed(walk) == ToSet(walk.tree) \ ToSet(walk.to_process)

\* After n turns: the events found are the root and the children of those processed,
\* which are n unless nothing is left to process.
FoundSoFar(walk, root, n) ==
    /\ walk \in Walks
    /\ OnlyOnce(walk.tree) /\ OnlyOnce(walk.to_process)
    /\ ToSet(walk.to_process) \subseteq ToSet(walk.tree)
    /\ ToSet(walk.tree) = {root} \cup {c \in ToSet(cache) : built[c].parent \in Processed(walk)}
    /\ \A e \in ToSet(walk.tree) : root <= e
    /\ walk.to_process = <<>> \/ (IsFiniteSet(Processed(walk)) /\ Cardinality(Processed(walk)) = n)

\* Of the events in the cache, each is there once and is younger than its parent.
CacheSound ==
    /\ cache \in Seq(Nat) /\ OnlyOnce(cache)
    /\ \A c \in ToSet(cache) : built[c].parent # None => built[c].parent \in Nat /\ built[c].parent < c

\* A turn processes one more event: no child of it was found before.
LEMMA VisitFinds ==
    ASSUME CacheSound, NEW root \in ToSet(cache), NEW n \in Nat,
           NEW walk, FoundSoFar(walk, root, n)
    PROVE  FoundSoFar(Visit(walk), root, n + 1)
<1>1. PICK C : C = ToSet(cache) /\ C \subseteq Nat /\ root \in Nat
  <2>1. \A k \in DOMAIN cache : cache[k] \in Nat
    BY DEF CacheSound
  <2>2. ToSet(cache) \subseteq Nat
    BY <2>1 DEF ToSet
  <2> QED
    BY <2>2
<1>2. PICK tree \in Seq(C), todo \in Seq(C) : tree = walk.tree /\ todo = walk.to_process
  BY <1>1 DEF FoundSoFar, Walks
<1>3. /\ OnlyOnce(tree) /\ OnlyOnce(todo) /\ ToSet(todo) \subseteq ToSet(tree)
      /\ ToSet(tree) = {root} \cup {c \in C : built[c].parent \in ToSet(tree) \ ToSet(todo)}
      /\ \A e \in ToSet(tree) : root <= e
      /\ \/ todo = <<>>
         \/ /\ IsFiniteSet(ToSet(tree) \ ToSet(todo))
            /\ Cardinality(ToSet(tree) \ ToSet(todo)) = n
  <2>1. Processed(walk) = ToSet(tree) \ ToSet(todo)
    BY <1>2 DEF Processed
  <2>2. ToSet(tree) = {root} \cup {c \in C : built[c].parent \in Processed(walk)}
    BY <1>1, <1>2 DEF FoundSoFar
  <2>3. ToSet(tree) = {root} \cup {c \in C : built[c].parent \in ToSet(tree) \ ToSet(todo)}
    BY <2>1, <2>2
  <2>4. /\ OnlyOnce(tree) /\ OnlyOnce(todo) /\ ToSet(todo) \subseteq ToSet(tree)
        /\ \A e \in ToSet(tree) : root <= e
    BY <1>2 DEF FoundSoFar
  <2>5. todo = <<>> \/ (IsFiniteSet(Processed(walk)) /\ Cardinality(Processed(walk)) = n)
    BY <1>2 DEF FoundSoFar
  <2> QED
    BY <2>1, <2>3, <2>4, <2>5
<1>4. CASE todo = <<>>
  <2>1. Visit(walk) = walk
    BY <1>2, <1>4 DEF Visit
  <2> QED
    BY <1>2, <1>4, <2>1 DEF FoundSoFar
<1>5. CASE todo # <<>>
  <2>1. PICK x, front : x = Last(todo) /\ front = Front(todo)
    OBVIOUS
  <2>2. /\ x \in ToSet(todo) /\ front \in Seq(C) /\ OnlyOnce(front)
        /\ ToSet(front) = ToSet(todo) \ {x}
    BY <1>2, <1>3, <1>5, <2>1, LastAndFront
  <2>3. PICK children : children = Children(x)
    OBVIOUS
  <2>4. children \in Seq(C) /\ OnlyOnce(children) /\ ToSet(children) = {c \in C : built[c].parent = x}
    BY <1>1, <2>3, ChildrenFound DEF CacheSound, ChildrenOf
  <2>5. Visit(walk) = [tree |-> tree \o children, to_process |-> front \o children]
    BY <1>2, <1>5, <2>1, <2>3 DEF Visit
  <2>6. x \in ToSet(tree) /\ x \in Nat /\ root <= x
    <3>1. ToSet(tree) \subseteq C
      BY <1>2 DEF ToSet
    <3> QED
      BY <1>1, <1>3, <2>2, <3>1
  <2>7. ToSet(tree) \cap ToSet(children) = {}
    <3> SUFFICES ASSUME NEW c \in C, built[c].parent = x, c \in ToSet(tree) PROVE FALSE
      BY <2>4
    <3>1. c = root
      BY <1>3, <2>2
    <3>2. x # None
      BY <2>6, ConstantsAssumption
    <3>3. x < c
      BY <1>1, <3>2 DEF CacheSound
    <3> QED
      BY <1>1, <2>6, <3>1, <3>3
  <2>8. ToSet(front) \cap ToSet(children) = {}
    BY <1>3, <2>2, <2>7
  <2>9. PICK tree2 : /\ tree2 = tree \o children /\ tree2 \in Seq(C) /\ OnlyOnce(tree2)
                     /\ ToSet(tree2) = ToSet(tree) \cup ToSet(children)
    <3>1. /\ tree \o children \in Seq(C) /\ OnlyOnce(tree \o children)
          /\ ToSet(tree \o children) = ToSet(tree) \cup ToSet(children)
      BY <1>2, <1>3, <2>4, <2>7, OneAfterTheOther
    <3> QED
      BY <3>1
  <2>10. PICK todo2 : /\ todo2 = front \o children /\ todo2 \in Seq(C) /\ OnlyOnce(todo2)
                      /\ ToSet(todo2) = ToSet(front) \cup ToSet(children)
    <3>1. /\ front \o children \in Seq(C) /\ OnlyOnce(front \o children)
          /\ ToSet(front \o children) = ToSet(front) \cup ToSet(children)
      BY <2>2, <2>4, <2>8, OneAfterTheOther
    <3> QED
      BY <3>1
  <2>11. PICK P, Q : P = ToSet(tree) \ ToSet(todo) /\ Q = ToSet(tree2) \ ToSet(todo2)
    OBVIOUS
  <2>12. Q = P \cup {x} /\ x \notin P
    BY <1>3, <2>2, <2>6, <2>7, <2>9, <2>10, <2>11
  <2>13. IsFiniteSet(Q) /\ Cardinality(Q) = n + 1
    <3>1. IsFiniteSet(P) /\ Cardinality(P) = n
      BY <1>3, <1>5, <2>11
    <3> QED
      BY <2>12, <3>1, FS_AddElement
  <2>14. ToSet(tree2) = {root} \cup {c \in C : built[c].parent \in Q}
    BY <1>3, <2>4, <2>9, <2>11, <2>12
  <2>15. \A e \in ToSet(tree2) : root <= e
    <3> SUFFICES ASSUME NEW c \in C, built[c].parent = x PROVE root <= c
      BY <1>3, <2>4, <2>9
    <3>1. x # None
      BY <2>6, ConstantsAssumption
    <3>2. x < c /\ c \in Nat
      BY <1>1, <3>1 DEF CacheSound
    <3> QED
      BY <1>1, <2>6, <3>2
  <2>16. PICK walk2 : walk2 = [tree |-> tree2, to_process |-> todo2]
    OBVIOUS
  <2>17. Visit(walk) = walk2 /\ walk2.tree = tree2 /\ walk2.to_process = todo2
    BY <2>5, <2>9, <2>10, <2>16
  <2>18. walk2 \in Walks
    BY <1>1, <2>9, <2>10, <2>16 DEF Walks
  <2>19. ToSet(todo2) \subseteq ToSet(tree2)
    BY <1>3, <2>2, <2>9, <2>10
  <2>20. FoundSoFar(walk2, root, n + 1)
    <3>1. Processed(walk2) = Q
      BY <2>11, <2>17 DEF Processed
    <3>2. ToSet(walk2.tree) = {root} \cup {c \in ToSet(cache) : built[c].parent \in Processed(walk2)}
      BY <1>1, <2>14, <2>17, <3>1
    <3>3. OnlyOnce(walk2.tree) /\ OnlyOnce(walk2.to_process)
      BY <2>9, <2>10, <2>17
    <3> QED
      BY <2>13, <2>15, <2>17, <2>18, <2>19, <3>1, <3>2, <3>3 DEF FoundSoFar
  <2> QED
    BY <2>17, <2>20
<1> QED
  BY <1>4, <1>5

\* The loop of get_event_tree.
Walking(f, root) ==
    f = [n \in 0 .. Len(cache) |->
            IF n = 0 THEN [tree |-> <<root>>, to_process |-> <<root>>] ELSE Visit(f[n - 1])]

\* A turn keeps the types of its variables.
LEMMA VisitWalks ==
    ASSUME CacheSound, NEW walk \in Walks
    PROVE  Visit(walk) \in Walks
<1>1. PICK C : C = ToSet(cache)
  OBVIOUS
<1>2. PICK tree \in Seq(C), todo \in Seq(C) : tree = walk.tree /\ todo = walk.to_process
  BY <1>1 DEF Walks
<1>3. CASE todo = <<>>
  BY <1>2, <1>3 DEF Visit
<1>4. CASE todo # <<>>
  <2>1. PICK children : children = Children(Last(todo))
    OBVIOUS
  <2>2. children \in Seq(C)
    BY <1>1, <2>1, ChildrenFound DEF CacheSound
  <2>3. PICK front : front = Front(todo)
    OBVIOUS
  <2>4. front \in Seq(C)
    <3>1. PICK n \in Nat : n = Len(todo)
      BY <1>2
    <3>2. n # 0
      BY <1>2, <1>4, <3>1, EmptySeq
    <3>3. n - 1 \in Nat /\ 1 .. n - 1 \subseteq 1 .. n
      BY <3>2
    <3>4. \A k \in 1 .. n - 1 : todo[k] \in C
      BY <1>2, <3>1, <3>3, ElementOfSeq
    <3> QED
      BY <1>2, <2>3, <3>1, <3>3, <3>4, SubSeqProperties DEF Front
  <2>5. PICK tree2 \in Seq(C), todo2 \in Seq(C) : tree2 = tree \o children /\ todo2 = front \o children
    BY <1>2, <2>2, <2>4, ConcatProperties
  <2>6. Visit(walk) = [tree |-> tree2, to_process |-> todo2]
    BY <1>2, <1>4, <2>1, <2>3, <2>5 DEF Visit
  <2> QED
    BY <1>1, <2>5, <2>6 DEF Walks
<1> QED
  BY <1>3, <1>4

\* It visits once a turn, and the result is sorted.
LEMMA WalkTurns ==
    ASSUME CacheSound, NEW root \in ToSet(cache)
    PROVE  \E f : /\ GetEventTree(root) = ByTime(f[Len(cache)].tree)
                  /\ f[0] = [tree |-> <<root>>, to_process |-> <<root>>]
                  /\ \A n \in 1 .. Len(cache) : f[n] = Visit(f[n - 1])
<1>1. PICK N \in Nat : N = Len(cache)
  BY DEF CacheSound
<1>2. PICK first : first = [tree |-> <<root>>, to_process |-> <<root>>]
  OBVIOUS
<1>3. \E f : Walking(f, root)
  <2>1. PICK S : S = Walks
    OBVIOUS
  <2>2. PICK turn : turn = [n \in 1 .. N |-> [t \in S |-> Visit(t)]]
    OBVIOUS
  <2>3. \A t \in S : Visit(t) \in S
    BY <2>1, VisitWalks
  <2>4. turn \in Turns(N, S)
    BY <2>2, <2>3 DEF Turns
  <2>5. first \in S
    <3>1. <<root>> \in Seq(ToSet(cache))
      OBVIOUS
    <3> QED
      BY <1>2, <2>1, <3>1 DEF Walks
  <2>6. PICK f : Runs(f, N, S, first, turn)
    BY <1>1, <2>4, <2>5, Loop
  <2>7. f \in [0 .. N -> S] /\ f[0] = first /\ \A n \in 1 .. N : f[n] = turn[n][f[n - 1]]
    BY <2>6 DEF Runs
  <2>8. ASSUME NEW n \in 0 .. N
        PROVE  f[n] = IF n = 0 THEN first ELSE Visit(f[n - 1])
    <3>1. CASE n = 0
      BY <2>7, <3>1
    <3>2. CASE n # 0
      <4>1. n \in 1 .. N /\ n - 1 \in 0 .. N
        BY <3>2
      <4>2. f[n - 1] \in S
        BY <2>7, <4>1
      <4> QED
        BY <2>2, <2>7, <3>2, <4>1, <4>2
    <3> QED
      BY <3>1, <3>2
  <2>9. f = [n \in 0 .. N |-> IF n = 0 THEN first ELSE Visit(f[n - 1])]
    BY <2>7, <2>8
  <2> QED
    BY <1>1, <1>2, <2>9 DEF Walking
<1> DEFINE c == CHOOSE f : Walking(f, root)
<1>4. GetEventTree(root) = ByTime(c[Len(cache)].tree)
  BY DEF GetEventTree, Walking
<1>5. Walking(c, root)
  BY <1>3
<1>6. PICK f : GetEventTree(root) = ByTime(f[Len(cache)].tree) /\ Walking(f, root)
  <2> HIDE DEF c
  <2> QED
    BY <1>4, <1>5
<1>7. f = [n \in 0 .. N |-> IF n = 0 THEN first ELSE Visit(f[n - 1])]
  BY <1>1, <1>2, <1>6 DEF Walking
<1>8. 0 \in 0 .. N /\ \A n \in 1 .. N : n \in 0 .. N /\ n # 0
  OBVIOUS
<1>9. f[0] = first /\ \A n \in 1 .. N : f[n] = Visit(f[n - 1])
  BY <1>7, <1>8
<1> QED
  BY <1>1, <1>2, <1>6, <1>9

\* The walk ends within a turn per cached event, when everything is processed.
LEMMA WalkEnds ==
    ASSUME CacheSound, NEW root \in ToSet(cache)
    PROVE  \E tree \in Seq(ToSet(cache)) :
              /\ GetEventTree(root) = ByTime(tree) /\ OnlyOnce(tree)
              /\ ToSet(tree) = {root} \cup {c \in ToSet(cache) : built[c].parent \in ToSet(tree)}
              /\ \A e \in ToSet(tree) : root <= e
<1>1. PICK f : /\ GetEventTree(root) = ByTime(f[Len(cache)].tree)
               /\ f[0] = [tree |-> <<root>>, to_process |-> <<root>>]
               /\ \A n \in 1 .. Len(cache) : f[n] = Visit(f[n - 1])
  BY WalkTurns
<1>2. PICK N \in Nat : N = Len(cache) /\ DOMAIN cache = 1 .. N
  BY DEF CacheSound
<1> DEFINE good == {n \in 0 .. N : FoundSoFar(f[n], root, n)}
<1>3. 0 \in good
  <2>1. PICK s : s = <<root>>
    OBVIOUS
  <2>2. s \in Seq(ToSet(cache)) /\ ToSet(s) = {root} /\ OnlyOnce(s)
    BY <2>1 DEF ToSet, OnlyOnce
  <2>3. PICK walk : walk = f[0]
    OBVIOUS
  <2>4. walk = [tree |-> s, to_process |-> s]
    BY <1>1, <2>1, <2>3
  <2>5. walk \in Walks /\ walk.tree = s /\ walk.to_process = s
    BY <2>2, <2>4 DEF Walks
  <2>6. Processed(walk) = {}
    BY <2>5 DEF Processed
  <2>7. root <= root
    <3>1. root \in Nat
      BY DEF CacheSound, ToSet
    <3> QED
      BY <3>1
  <2>8. IsFiniteSet(Processed(walk)) /\ Cardinality(Processed(walk)) = 0
    BY <2>6, FS_EmptySet
  <2>9. ToSet(walk.tree) = {root} \cup {c \in ToSet(cache) : built[c].parent \in Processed(walk)}
    BY <2>2, <2>5, <2>6
  <2>10. FoundSoFar(walk, root, 0)
    BY <2>2, <2>5, <2>7, <2>8, <2>9 DEF FoundSoFar
  <2> QED
    BY <2>3, <2>10
<1>4. ASSUME NEW n \in 1 .. N, n - 1 \in good PROVE n \in good
  <2>1. n - 1 \in Nat /\ (n - 1) + 1 = n /\ n \in 0 .. N
    OBVIOUS
  <2>2. FoundSoFar(f[n - 1], root, n - 1)
    BY <1>4
  <2>3. FoundSoFar(Visit(f[n - 1]), root, (n - 1) + 1)
    BY <2>1, <2>2, VisitFinds
  <2>4. FoundSoFar(f[n], root, n)
    BY <1>1, <1>2, <2>1, <2>3
  <2> QED
    BY <2>1, <2>4
<1>5. FoundSoFar(f[N], root, N)
  <2> HIDE DEF good
  <2>1. \A n \in 0 .. N : n \in good
    BY <1>2, <1>3, <1>4, EveryTurn
  <2>2. N \in good
    BY <1>2, <2>1
  <2> QED
    BY <2>2 DEF good
<1>6. PICK walk : walk = f[N]
  OBVIOUS
<1>7. PICK tree \in Seq(ToSet(cache)), todo \in Seq(ToSet(cache)) :
          tree = walk.tree /\ todo = walk.to_process
  BY <1>5, <1>6 DEF FoundSoFar, Walks
<1>8. IsFiniteSet(ToSet(cache)) /\ Cardinality(ToSet(cache)) <= N
  <2>1. cache \in Surjection(1 .. N, ToSet(cache))
    <3>1. cache \in [1 .. N -> ToSet(cache)]
      <4>1. cache = [n \in 1 .. N |-> cache[n]]
        BY <1>2 DEF CacheSound
      <4> QED
        BY <1>2, <4>1 DEF ToSet
    <3>2. \A c \in ToSet(cache) : \E n \in 1 .. N : cache[n] = c
      BY <1>2 DEF ToSet
    <3> QED
      BY <3>1, <3>2 DEF Surjection
  <2>2. IsFiniteSet(1 .. N) /\ Cardinality(1 .. N) = N
    <3>1. 1 \in Int /\ N \in Int
      BY <1>2
    <3>2. /\ IsFiniteSet(1 .. N)
          /\ Cardinality(1 .. N) = IF 1 > N THEN 0 ELSE N - 1 + 1
      BY <3>1, FS_Interval
    <3> QED
      BY <1>2, <3>2
  <2> QED
    BY <2>1, <2>2, FS_Surjection
<1>9. todo = <<>>
  <2> SUFFICES ASSUME todo # <<>> PROVE FALSE
    OBVIOUS
  <2>1. PICK P : P = ToSet(tree) \ ToSet(todo)
    OBVIOUS
  <2>2. Processed(walk) = P
    BY <1>7, <2>1 DEF Processed
  <2>3. Cardinality(P) = N
    BY <1>5, <1>6, <1>7, <2>2 DEF FoundSoFar
  <2>4. ToSet(tree) \subseteq ToSet(cache) /\ ToSet(todo) \subseteq ToSet(tree)
    <3>1. \A k \in DOMAIN tree : tree[k] \in ToSet(cache)
      BY <1>7
    <3>2. ToSet(tree) \subseteq ToSet(cache)
      BY <3>1 DEF ToSet
    <3>3. ToSet(todo) \subseteq ToSet(tree)
      BY <1>5, <1>6, <1>7 DEF FoundSoFar
    <3> QED
      BY <3>2, <3>3
  <2>5. P \in SUBSET ToSet(cache)
    BY <2>1, <2>4
  <2>6. Cardinality(ToSet(cache)) \in Nat
    BY <1>8, FS_CardinalityType
  <2>7. Cardinality(P) <= Cardinality(ToSet(cache))
    BY <1>8, <2>5, FS_Subset
  <2>8. Cardinality(ToSet(cache)) = Cardinality(P)
    BY <1>8, <2>3, <2>6, <2>7
  <2>9. P = ToSet(cache)
    BY <1>8, <2>5, <2>8, FS_Subset
  <2>10. ToSet(todo) = {}
    BY <2>1, <2>4, <2>9
  <2>11. PICK T : T = ToSet(cache)
    OBVIOUS
  <2>12. todo \in Seq(T) /\ todo # <<>>
    BY <1>7, <2>11
  <2>13. Len(todo) # 0 /\ Len(todo) \in Nat /\ DOMAIN todo = 1 .. Len(todo)
    BY <2>12, EmptySeq
  <2>14. 1 \in DOMAIN todo
    BY <2>13
  <2>15. todo[1] \in ToSet(todo)
    BY <2>14 DEF ToSet
  <2> QED
    BY <2>10, <2>15
<1>10. Processed(walk) = ToSet(tree)
  <2>1. ToSet(todo) = {}
    BY <1>9 DEF ToSet
  <2> QED
    BY <1>7, <2>1 DEF Processed
<1>11. /\ OnlyOnce(tree) /\ \A e \in ToSet(tree) : root <= e
       /\ ToSet(tree) = {root} \cup {c \in ToSet(cache) : built[c].parent \in Processed(walk)}
  BY <1>5, <1>6, <1>7 DEF FoundSoFar
<1>12. ToSet(tree) = {root} \cup {c \in ToSet(cache) : built[c].parent \in ToSet(tree)}
  BY <1>10, <1>11
<1> QED
  BY <1>1, <1>2, <1>6, <1>7, <1>11, <1>12

-----------------------------------------------------------------------------
(* Families.                                                                *)

\* Every event is there once, and after its parent.
InOrder(s) ==
    \A m, n \in DOMAIN s : s[m] \in Nat =>
        /\ s[n] = s[m] => n = m
        /\ s[n] \in Nat /\ s[m] \in Parents(s[n]) => m < n

\* What a worker stores is not yet in the cache; what it is about to write is not in the file.
NotYetStored ==
    \A w \in Workers :
        /\ pc[w] \in Storing => event[w] \notin ToSet(cache)
        /\ pc[w] = "object" => event[w] \notin ToSet(file)

\* No child is drained before its parent.
ChildrenKept ==
    \A e \in logged : \A p \in Parents(e) :
        p \in ToSet(cache) => e \in ToSet(cache) \/ (restarts > 0 /\ e \notin Readable)

FamilyInv ==
    /\ TrailInv /\ VanishInv
    /\ InOrder(file) /\ InOrder(cache) /\ NotYetStored /\ ChildrenKept

\* A new element at the end that is nobody's parent, or no event.
LEMMA AppendInOrder ==
    ASSUME NEW T, NEW s \in Seq(T), NEW t \in T, InOrder(s),
           \/ t \notin Nat
           \/ /\ t \notin ToSet(s) /\ t \notin Parents(t)
              /\ \A n \in DOMAIN s : s[n] \in Nat => t \notin Parents(s[n])
    PROVE  InOrder(Append(s, t))
<1>1. PICK b \in Nat : b = Len(s)
  OBVIOUS
<1>2. PICK q : q = Append(s, t)
  OBVIOUS
<1>3. /\ DOMAIN s = 1 .. b /\ DOMAIN q = (1 .. b) \cup {b + 1} /\ q[b + 1] = t
      /\ \A i \in 1 .. b : q[i] = s[i] /\ i < b + 1
  <2>1. DOMAIN q = 1 .. b + 1 /\ DOMAIN s = 1 .. b /\ q[b + 1] = t /\ \A i \in 1 .. b : q[i] = s[i]
    BY <1>1, <1>2
  <2>2. 1 .. b + 1 = (1 .. b) \cup {b + 1} /\ \A i \in 1 .. b : i < b + 1
    OBVIOUS
  <2> QED
    BY <2>1, <2>2
<1>4. ASSUME NEW m \in DOMAIN q, NEW n \in DOMAIN q, q[m] \in Nat, q[n] = q[m] PROVE n = m
  <2>1. CASE m \in 1 .. b /\ n \in 1 .. b
    BY <1>3, <1>4, <2>1 DEF InOrder
  <2>2. CASE m = b + 1 /\ n \in 1 .. b
    BY <1>3, <1>4, <2>2 DEF ToSet
  <2>3. CASE n = b + 1 /\ m \in 1 .. b
    BY <1>3, <1>4, <2>3 DEF ToSet
  <2> QED
    BY <1>3, <2>1, <2>2, <2>3
<1>5. ASSUME NEW m \in DOMAIN q, NEW n \in DOMAIN q,
             q[m] \in Nat, q[n] \in Nat, q[m] \in Parents(q[n])
      PROVE  m < n
  <2>1. CASE m \in 1 .. b /\ n \in 1 .. b
    BY <1>3, <1>5, <2>1 DEF InOrder
  <2>2. CASE m = b + 1
    BY <1>3, <1>5, <2>2
  <2>3. CASE n = b + 1 /\ m \in 1 .. b
    BY <1>3, <2>3
  <2> QED
    BY <1>3, <2>1, <2>2, <2>3
<1> QED
  BY <1>2, <1>4, <1>5 DEF InOrder

\* What is picked stays in its order.
LEMMA PickedInOrder ==
    ASSUME NEW T, NEW s \in Seq(T), NEW places, InOrder(s)
    PROVE  InOrder(TakenAt(s, places))
<1>1. PICK r : r = TakenAt(s, places) /\ r \in Seq(T) /\ Picks(r, s, places)
  BY TakenPicks
<1>2. PICK h : /\ \A i \in DOMAIN r : h[i] \in DOMAIN s \cap places /\ r[i] = s[h[i]]
               /\ \A i, j \in DOMAIN r : i < j => h[i] < h[j]
  BY <1>1 DEF Picks
<1>3. DOMAIN r \subseteq Nat /\ DOMAIN s \subseteq Nat
  BY <1>1
<1>4. \A i \in DOMAIN r : h[i] \in Nat /\ i \in Nat
  BY <1>2, <1>3
<1>5. ASSUME NEW i \in DOMAIN r, NEW j \in DOMAIN r, r[i] \in Nat, r[j] = r[i] PROVE j = i
  <2>1. h[i] = h[j]
    BY <1>2, <1>5 DEF InOrder
  <2>2. ~ (i < j) /\ ~ (j < i)
    BY <1>2, <1>4, <2>1
  <2> QED
    BY <1>4, <2>2
<1>6. ASSUME NEW i \in DOMAIN r, NEW j \in DOMAIN r,
             r[i] \in Nat, r[j] \in Nat, r[i] \in Parents(r[j])
      PROVE  i < j
  <2>1. h[i] < h[j]
    BY <1>2, <1>6 DEF InOrder
  <2>2. ~ (j < i) /\ i # j
    BY <1>2, <1>4, <2>1
  <2> QED
    BY <1>4, <2>2
<1>7. InOrder(r)
  BY <1>5, <1>6 DEF InOrder
<1> QED
  BY <1>1, <1>7

\* What is left of a cache is its end.
LEMMA Drained ==
    ASSUME NEW T, NEW s \in Seq(T), NEW k \in Nat, k # 0
    PROVE  \E d \in Nat : /\ DOMAIN Newest(s, k) = 1 .. (Len(s) - d)
                          /\ \A i \in DOMAIN Newest(s, k) : Newest(s, k)[i] = s[i + d]
<1>1. PICK b \in Nat : b = Len(s) /\ DOMAIN s = 1 .. b
  OBVIOUS
<1>2. CASE b <= k
  <2>1. Newest(s, k) = s
    BY <1>1, <1>2 DEF Newest
  <2>2. 0 \in Nat /\ b - 0 = b /\ \A i \in 1 .. b : i + 0 = i
    OBVIOUS
  <2> QED
    BY <1>1, <2>1, <2>2
<1>3. CASE ~ (b <= k)
  <2>1. PICK d \in Nat : d = b - k
    BY <1>3
  <2>2. PICK q : q = SubSeq(s, d + 1, b)
    OBVIOUS
  <2>3. Newest(s, k) = q
    BY <1>1, <1>3, <2>1, <2>2 DEF Newest
  <2>4. d + 1 \in 1 .. b + 1 /\ b \in d .. b /\ \A i \in d + 1 .. b : i \in 1 .. b
    BY <2>1
  <2>5. \A i \in d + 1 .. b : s[i] \in T
    BY <1>1, <2>4, ElementOfSeq
  <2>6. q \in Seq(T) /\ Len(q) = b - d /\ \A i \in 1 .. b - d : q[i] = s[i + d]
    <3>1. PICK lo \in Int : lo = d + 1 /\ lo <= b + 1 /\ b - lo + 1 = b - d
      <4>1. d + 1 \in Int /\ d + 1 <= b + 1 /\ b - (d + 1) + 1 = b - d
        BY <2>1
      <4> QED
        BY <4>1
    <3>2. /\ q \in Seq(T) /\ Len(q) = b - lo + 1
          /\ \A i \in 1 .. b - lo + 1 : q[i] = s[lo + i - 1]
      <4>1. \A i \in lo .. b : s[i] \in T
        BY <2>5, <3>1
      <4> QED
        BY <2>2, <3>1, <4>1, SubSeqProperties
    <3>3. \A i \in 1 .. b - d : lo + i - 1 = i + d
      BY <3>1
    <3> QED
      BY <3>1, <3>2, <3>3
  <2>7. DOMAIN q = 1 .. b - d
    BY <2>6
  <2> QED
    BY <1>1, <2>3, <2>6, <2>7
<1> QED
  BY <1>2, <1>3

\* Draining spares an element if it spares one before it.
LEMMA DrainedInOrder ==
    ASSUME NEW T, NEW s \in Seq(T), NEW k \in Nat, k # 0, InOrder(s)
    PROVE  /\ InOrder(Newest(s, k))
           /\ \A m, n \in DOMAIN s :
                 m < n /\ s[m] \in Nat /\ s[m] \in ToSet(Newest(s, k)) => s[n] \in ToSet(Newest(s, k))
<1>1. PICK q : q = Newest(s, k)
  OBVIOUS
<1>2. PICK b \in Nat, d \in Nat : /\ DOMAIN s = 1 .. b /\ DOMAIN q = 1 .. (b - d)
                                  /\ \A i \in DOMAIN q : q[i] = s[i + d]
  <2>1. PICK d \in Nat : /\ DOMAIN Newest(s, k) = 1 .. (Len(s) - d)
                         /\ \A i \in DOMAIN Newest(s, k) : Newest(s, k)[i] = s[i + d]
    BY Drained
  <2>2. Len(s) \in Nat /\ DOMAIN s = 1 .. Len(s)
    OBVIOUS
  <2> QED
    BY <1>1, <2>1, <2>2
<1>3. \A i \in DOMAIN q : i \in Nat /\ i + d \in DOMAIN s
  BY <1>2
<1>4. InOrder(q)
  <2>1. ASSUME NEW i \in DOMAIN q, NEW j \in DOMAIN q, q[i] \in Nat, q[j] = q[i] PROVE j = i
    <3>1. i + d = j + d
      BY <1>2, <1>3, <2>1 DEF InOrder
    <3> QED
      BY <1>3, <3>1
  <2>2. ASSUME NEW i \in DOMAIN q, NEW j \in DOMAIN q,
               q[i] \in Nat, q[j] \in Nat, q[i] \in Parents(q[j])
        PROVE  i < j
    <3>1. i + d < j + d
      BY <1>2, <1>3, <2>2 DEF InOrder
    <3> QED
      BY <1>3, <3>1
  <2> QED
    BY <2>1, <2>2 DEF InOrder
<1>5. ASSUME NEW m \in DOMAIN s, NEW n \in DOMAIN s, m < n, s[m] \in Nat, s[m] \in ToSet(q)
      PROVE  s[n] \in ToSet(q)
  <2>1. PICK i \in DOMAIN q : q[i] = s[m]
    BY <1>5 DEF ToSet
  <2>2. i + d = m
    BY <1>2, <1>3, <1>5, <2>1 DEF InOrder
  <2>3. PICK j \in DOMAIN q : j + d = n
    <3>1. PICK j : j = n - d
      OBVIOUS
    <3>2. m \in Nat /\ n \in Nat /\ n <= b /\ i \in Nat /\ i >= 1
      BY <1>2
    <3>3. j \in 1 .. b - d /\ j + d = n
      BY <1>5, <2>2, <3>1, <3>2
    <3> QED
      BY <1>2, <3>3
  <2>4. q[j] = s[n]
    BY <1>2, <2>3
  <2> QED
    BY <2>4 DEF ToSet
<1> QED
  BY <1>1, <1>4, <1>5

-----------------------------------------------------------------------------
(* Steps.                                                                   *)

\* Where nothing but the locals changes, order and children are as before.
LEMMA FamiliesUntouched ==
    ASSUME ChildrenKept, InOrder(file), InOrder(cache),
           UNCHANGED <<built, file, cache, restarts, logged>>
    PROVE  ChildrenKept' /\ InOrder(file)' /\ InOrder(cache)'
<1>1. ChildrenKept'
  BY Untouched DEF ChildrenKept, Parents
<1>2. InOrder(file)' /\ InOrder(cache)'
  BY DEF InOrder, Parents
<1> QED
  BY <1>1, <1>2

\* A parent was logged.
LEMMA ParentsLogged ==
    ASSUME TrailTrue, NEW e \in DOMAIN built, NEW p \in Parents(e)
    PROVE  p \in logged /\ p < e
BY DEF TrailTrue

\* An event that is not logged is nobody's parent.
LEMMA NobodysParent ==
    ASSUME TrailInv, NEW T, NEW s \in Seq(T), T \cap Nat \subseteq DOMAIN built,
           NEW t \in DOMAIN built, t \notin logged, InOrder(s), t \notin ToSet(s), t \in T
    PROVE  InOrder(Append(s, t))
<1>1. \A e \in DOMAIN built : t \notin Parents(e)
  BY ParentsLogged DEF TrailInv
<1>2. \A n \in DOMAIN s : s[n] \in T
  OBVIOUS
<1>3. \A n \in DOMAIN s : s[n] \in Nat => t \notin Parents(s[n])
  BY <1>1, <1>2
<1> QED
  BY <1>1, <1>3, AppendInOrder

\* What is appended to the file is an event for the first time, or no event.
LEMMA FamiliesWritten ==
    ASSUME FamilyInv, NEW t \in Tokens, file' = Append(file, t),
           t \in {Newline, Cut} \/ (t \in DOMAIN built /\ t \notin logged /\ t \notin ToSet(file)),
           UNCHANGED <<built, cache, restarts, logged>>
    PROVE  ChildrenKept' /\ InOrder(file)' /\ InOrder(cache)'
<1>1. file \in Seq(Tokens) /\ InOrder(file) /\ Typed
  BY DEF FamilyInv, VanishInv, FileTyped
<1>2. Tokens \cap Nat \subseteq DOMAIN built /\ Newline \notin Nat /\ Cut \notin Nat
  BY ConstantsAssumption DEF Tokens
<1>3. InOrder(Append(file, t))
  <2>1. CASE t \in {Newline, Cut}
    BY <1>1, <1>2, <2>1, AppendInOrder
  <2>2. CASE t \in DOMAIN built /\ t \notin logged /\ t \notin ToSet(file)
    BY <1>1, <1>2, <2>2, NobodysParent DEF FamilyInv
  <2> QED
    BY <2>1, <2>2
<1>4. InOrder(file)'
  <2>1. PICK s : s = Append(file, t)
    OBVIOUS
  <2>2. InOrder(s) /\ file' = s
    BY <1>3, <2>1
  <2> QED
    BY <2>2 DEF InOrder, Parents
<1>5. InOrder(cache)'
  BY DEF FamilyInv, InOrder, Parents
<1>6. Readable' \subseteq Readable \cup ({t} \ {Newline, Cut})
  BY <1>1, Appended DEF FamilyInv, VanishInv
<1>7. ChildrenKept'
  BY <1>6 DEF FamilyInv, ChildrenKept, Parents
<1> QED
  BY <1>4, <1>5, <1>7

\* A new event is in no file, in no cache and nobody's parent.
LEMMA FamilyBuild ==
    ASSUME FamilyInv, NEW w \in Workers, Build(w)
    PROVE  NotYetStored' /\ ChildrenKept' /\ InOrder(file)' /\ InOrder(cache)'
<1>1. /\ DOMAIN built \subseteq DOMAIN built' /\ Len(built') \in Nat \ DOMAIN built
      /\ \A e \in DOMAIN built : built'[e] = built[e]
  <2>1. Typed
    BY DEF FamilyInv, VanishInv
  <2>2. /\ DOMAIN built' = DOMAIN built \cup {Len(built')} /\ Len(built') \notin DOMAIN built
        /\ \A e \in DOMAIN built : built'[e] = built[e]
        /\ Len(built') = Len(built) + 1 /\ Len(built) \in Nat
    BY <2>1, Grown
  <2> QED
    BY <2>2
<1>2. \A e \in DOMAIN built : Parents(e)' = Parents(e)
  BY <1>1 DEF Parents
<1>3. UNCHANGED <<file, cache, restarts, logged>>
  BY DEF Build, faults
<1>4. ToSet(file) \subseteq Tokens /\ ToSet(cache) \subseteq DOMAIN built
  BY DEF FamilyInv, VanishInv, FileTyped, ToSet
<1>5. Tokens \cap Nat \subseteq DOMAIN built
  BY ConstantsAssumption DEF Tokens
<1>6. InOrder(file)'
  <2>1. \A n \in DOMAIN file : file[n] \in Nat => file[n] \in DOMAIN built
    BY <1>4, <1>5 DEF ToSet
  <2> QED
    BY <1>2, <1>3, <2>1 DEF FamilyInv, InOrder
<1>7. InOrder(cache)'
  <2>1. \A n \in DOMAIN cache : cache[n] \in DOMAIN built
    BY <1>4 DEF ToSet
  <2> QED
    BY <1>2, <1>3, <2>1 DEF FamilyInv, InOrder
<1>8. ChildrenKept'
  <2>1. logged \subseteq DOMAIN built
    BY DEF FamilyInv, VanishInv, Typed
  <2> QED
    BY <1>2, <1>3, <2>1, Untouched DEF FamilyInv, ChildrenKept
<1>9. NotYetStored'
  <2>1. /\ pc'[w] = "object" /\ event'[w] = Len(built')
        /\ \A v \in Workers : v # w => pc'[v] = pc[v] /\ event'[v] = event[v]
    BY DEF Build, FamilyInv, VanishInv, Typed
  <2>2. Len(built') \notin ToSet(file) /\ Len(built') \notin ToSet(cache)
    BY <1>1, <1>4, <1>5
  <2> QED
    BY <1>3, <2>1, <2>2 DEF FamilyInv, NotYetStored
<1> QED
  BY <1>6, <1>7, <1>8, <1>9

LEMMA FamilyWriteObject ==
    ASSUME FamilyInv, NEW w \in Workers, WriteObject(w)
    PROVE  NotYetStored' /\ ChildrenKept' /\ InOrder(file)' /\ InOrder(cache)'
<1>1. PICK t : t = event[w]
  OBVIOUS
<1>2. /\ t \in DOMAIN built /\ t \notin logged /\ t \notin ToSet(file) /\ file' = Append(file, t)
      /\ pc[w] = "object" /\ t \in Tokens
  BY <1>1 DEF WriteObject, FamilyInv, VanishInv, Typed, OwnEvents, NotYetStored, Storing, Tokens
<1>3. UNCHANGED <<built, cache, restarts, logged, event>>
  BY DEF WriteObject, faults
<1>4. ChildrenKept' /\ InOrder(file)' /\ InOrder(cache)'
  BY <1>2, <1>3, FamiliesWritten
<1>5. /\ pc'[w] = "newline" /\ \A v \in Workers : v # w => pc'[v] = pc[v]
      /\ ToSet(file') = ToSet(file) \cup {t}
  BY <1>2, Appended DEF WriteObject, FamilyInv, VanishInv, Typed
<1>6. NotYetStored'
  BY <1>1, <1>2, <1>3, <1>5 DEF FamilyInv, VanishInv, OwnEvents, NotYetStored, Storing
<1> QED
  BY <1>4, <1>6

LEMMA FamilyWriteNewline ==
    ASSUME FamilyInv, NEW w \in Workers, WriteNewline(w)
    PROVE  NotYetStored' /\ ChildrenKept' /\ InOrder(file)' /\ InOrder(cache)'
<1>1. /\ Newline \in Tokens /\ file' = Append(file, Newline)
      /\ UNCHANGED <<built, cache, restarts, logged, event>>
  BY DEF WriteNewline, faults, Tokens
<1>2. ChildrenKept' /\ InOrder(file)' /\ InOrder(cache)'
  BY <1>1, FamiliesWritten
<1>3. /\ pc[w] = "newline" /\ pc'[w] = "push" /\ \A v \in Workers : v # w => pc'[v] = pc[v]
      /\ ToSet(file') = ToSet(file) \cup {Newline}
  BY <1>1, Appended DEF WriteNewline, FamilyInv, VanishInv, Typed
<1>4. \A v \in Workers : pc[v] = "object" => event[v] # Newline
  BY ConstantsAssumption DEF FamilyInv, VanishInv, Typed, Storing
<1>5. NotYetStored'
  BY <1>1, <1>3, <1>4 DEF FamilyInv, NotYetStored, Storing
<1> QED
  BY <1>2, <1>5

LEMMA FamilyIoError ==
    ASSUME FamilyInv, NEW w \in Workers, IoError(w)
    PROVE  NotYetStored' /\ ChildrenKept' /\ InOrder(file)' /\ InOrder(cache)'
<1>1. /\ Cut \in Tokens /\ (file' = file \/ file' = Append(file, Cut))
      /\ UNCHANGED <<built, cache, restarts, logged>>
  BY DEF IoError, Tokens
<1>2. ChildrenKept' /\ InOrder(file)' /\ InOrder(cache)'
  <2>1. CASE file' = file
    BY <1>1, <2>1, FamiliesUntouched DEF FamilyInv
  <2>2. CASE file' = Append(file, Cut)
    BY <1>1, <2>2, FamiliesWritten
  <2> QED
    BY <1>1, <2>1, <2>2
<1>3. \A v \in Workers : pc'[v] \in Storing => pc'[v] = pc[v] /\ event'[v] = event[v]
  BY Stored DEF IoError, FamilyInv, VanishInv
<1>4. ToSet(file') \subseteq ToSet(file) \cup {Cut}
  BY <1>1, Appended DEF FamilyInv, VanishInv
<1>5. \A v \in Workers : pc[v] = "object" => event[v] # Cut
  BY ConstantsAssumption DEF FamilyInv, VanishInv, Typed, Storing
<1>6. NotYetStored'
  <2> SUFFICES ASSUME NEW v \in Workers, pc'[v] \in Storing
               PROVE  /\ event'[v] \notin ToSet(cache')
                      /\ pc'[v] = "object" => event'[v] \notin ToSet(file')
    BY DEF NotYetStored, Storing
  <2> QED
    BY <1>1, <1>3, <1>4, <1>5 DEF FamilyInv, NotYetStored
<1> QED
  BY <1>2, <1>6

\* What is pushed is the youngest: its parent was logged before it, and what is
\* drained is drained from the other end.
LEMMA FamilyPush ==
    ASSUME FamilyInv, NEW w \in Workers, Push(w)
    PROVE  NotYetStored' /\ ChildrenKept' /\ InOrder(file)' /\ InOrder(cache)'
<1>1. Typed /\ Typed'
  BY TypedStep DEF FamilyInv, VanishInv, Next, Work, Store
<1>2. PICK t : t = event[w]
  OBVIOUS
<1>3. /\ t \in DOMAIN built /\ t \notin logged /\ t \notin ToSet(cache) /\ t \in Nat
      /\ pc[w] = "push" /\ cache' = Newest(Append(cache, t), CacheSize)
      /\ logged' = logged \cup {t} /\ UNCHANGED <<built, file, restarts>>
  <2>1. pc[w] \in Storing /\ pc[w] = "push"
    BY DEF Push, Storing
  <2>2. t \in DOMAIN built
    BY <1>1, <1>2, <2>1 DEF Typed
  <2>3. t \in Nat
    BY <1>1, <2>2 DEF Typed
  <2>4. t \notin logged /\ t \notin ToSet(cache)
    BY <1>2, <2>1 DEF FamilyInv, VanishInv, OwnEvents, NotYetStored
  <2> QED
    BY <1>2, <2>1, <2>2, <2>3, <2>4 DEF Push, faults
<1>4. cache \in Seq(DOMAIN built) /\ CacheSize \in Nat /\ CacheSize # 0
  BY ConstantsAssumption DEF FamilyInv, VanishInv, FileTyped
<1>5. PICK s \in Seq(DOMAIN built) : s = Append(cache, t)
  <2>1. Append(cache, t) \in Seq(DOMAIN built)
    BY <1>3, <1>4
  <2> QED
    BY <2>1
<1>6. InOrder(s)
  BY <1>3, <1>4, <1>5, NobodysParent DEF FamilyInv
<1>7. /\ DOMAIN s = DOMAIN cache \cup {Len(cache) + 1} /\ s[Len(cache) + 1] = t
      /\ \A i \in DOMAIN cache : s[i] = cache[i] /\ i < Len(cache) + 1
  <2>1. PICK b \in Nat : b = Len(cache) /\ DOMAIN cache = 1 .. b
    BY <1>4
  <2>2. DOMAIN s = 1 .. b + 1 /\ s[b + 1] = t /\ \A i \in 1 .. b : s[i] = cache[i]
    BY <1>3, <1>4, <1>5, <2>1
  <2>3. 1 .. b + 1 = (1 .. b) \cup {b + 1} /\ \A i \in 1 .. b : i < b + 1
    OBVIOUS
  <2> QED
    BY <2>1, <2>2, <2>3
<1>8. PICK q : q = Newest(s, CacheSize)
  OBVIOUS
<1>9. /\ InOrder(q) /\ cache' = q
      /\ \A m, n \in DOMAIN s : m < n /\ s[m] \in Nat /\ s[m] \in ToSet(q) => s[n] \in ToSet(q)
  BY <1>3, <1>4, <1>5, <1>6, <1>8, DrainedInOrder
<1>10. t \in ToSet(q) /\ ToSet(q) \subseteq ToSet(cache) \cup {t}
  <2>1. q \in Seq(DOMAIN built) /\ t \in ToSet(q)
    BY <1>3, <1>4, <1>5, <1>8, Pushed
  <2>2. PICK d \in Nat : /\ DOMAIN q = 1 .. (Len(s) - d)
                         /\ \A i \in DOMAIN q : q[i] = s[i + d]
    BY <1>4, <1>8, Drained
  <2>3. \A i \in DOMAIN q : i + d \in DOMAIN s
    <3>1. Len(s) \in Nat /\ DOMAIN s = 1 .. Len(s)
      OBVIOUS
    <3> QED
      BY <2>2, <3>1
  <2>4. \A i \in DOMAIN s : s[i] \in ToSet(cache) \cup {t}
    BY <1>7 DEF ToSet
  <2>5. \A i \in DOMAIN q : q[i] \in ToSet(cache) \cup {t}
    BY <2>2, <2>3, <2>4
  <2> QED
    BY <2>1, <2>5 DEF ToSet
<1>11. InOrder(cache)' /\ InOrder(file)'
  BY <1>3, <1>9 DEF FamilyInv, InOrder, Parents
<1>12. \A v \in Workers : pc'[v] \in Storing => v # w /\ pc'[v] = pc[v] /\ event'[v] = event[v]
  BY <1>1, Stored DEF Push
<1>13. NotYetStored'
  <2> SUFFICES ASSUME NEW v \in Workers, pc'[v] \in Storing
               PROVE  /\ event'[v] \notin ToSet(cache')
                      /\ pc'[v] = "object" => event'[v] \notin ToSet(file')
    BY DEF NotYetStored, Storing
  <2>1. v # w /\ pc'[v] = pc[v] /\ event'[v] = event[v] /\ pc[w] \in Storing
    BY <1>3, <1>12 DEF Storing
  <2>2. event[v] # t
    BY <1>2, <2>1 DEF FamilyInv, VanishInv, OwnEvents
  <2> QED
    BY <1>3, <1>9, <1>10, <2>1, <2>2 DEF FamilyInv, NotYetStored
<1>14. ChildrenKept'
  <2>1. Readable' = Readable /\ \A e : Parents(e)' = Parents(e)
    BY <1>3, Untouched DEF Parents
  <2> SUFFICES ASSUME NEW e \in logged \cup {t}, NEW p \in Parents(e), p \in ToSet(q)
               PROVE  e \in ToSet(q) \/ (restarts > 0 /\ e \notin Readable)
    BY <1>3, <1>9, <2>1 DEF ChildrenKept
  <2>2. CASE e = t
    BY <1>10, <2>2
  <2>3. CASE e \in logged
    <3>1. e \in DOMAIN built
      BY <1>1, <2>3 DEF Typed
    <3>2. p \in logged
      BY <3>1, ParentsLogged DEF FamilyInv, TrailInv
    <3>3. p \in ToSet(cache)
      BY <1>3, <1>10, <3>2
    <3>4. CASE e \in ToSet(cache)
      <4>1. PICK m \in DOMAIN cache : cache[m] = p
        BY <3>3 DEF ToSet
      <4>2. PICK n \in DOMAIN cache : cache[n] = e
        BY <3>4 DEF ToSet
      <4>3. p \in Nat /\ e \in Nat
        BY <1>1, <3>1, <3>2 DEF Typed
      <4>4. m < n
        BY <4>1, <4>2, <4>3 DEF FamilyInv, InOrder
      <4>5. m \in DOMAIN s /\ n \in DOMAIN s /\ s[m] = p /\ s[n] = e
        BY <1>7, <4>1, <4>2
      <4> QED
        BY <1>9, <4>3, <4>4, <4>5
    <3>5. CASE e \notin ToSet(cache)
      BY <2>3, <3>3, <3>5 DEF FamilyInv, ChildrenKept
    <3> QED
      BY <3>4, <3>5
  <2> QED
    BY <2>2, <2>3
<1> QED
  BY <1>11, <1>13, <1>14

\* The file has the events in the order that the cache needs.
LEMMA FamilyRestart ==
    ASSUME FamilyInv, Restart
    PROVE  NotYetStored' /\ ChildrenKept' /\ InOrder(file)' /\ InOrder(cache)'
<1>1. /\ cache' = LoadFromFile /\ restarts' = restarts + 1 /\ restarts \in Nat
      /\ UNCHANGED <<built, file, logged>> /\ \A w \in Workers : pc'[w] = "idle"
  BY DEF Restart, FamilyInv, VanishInv, FileTyped
<1>2. ToSet(cache') = Readable
  BY <1>1, Loaded DEF FamilyInv, VanishInv
<1>3. NotYetStored'
  BY <1>1 DEF NotYetStored, Storing
<1>4. ChildrenKept'
  <2>1. restarts' > 0
    BY <1>1
  <2>2. Readable' = Readable
    BY <1>1, Untouched
  <2> QED
    BY <1>2, <2>1, <2>2 DEF ChildrenKept
<1>5. InOrder(LoadFromFile)
  <2>1. PICK places : places = {n \in DOMAIN file : IsLine(n)}
    OBVIOUS
  <2>2. LoadFromFile = TakenAt(file, places)
    BY <2>1 DEF LoadFromFile
  <2>3. file \in Seq(Tokens) /\ InOrder(file)
    BY DEF FamilyInv, VanishInv, FileTyped
  <2> QED
    BY <2>2, <2>3, PickedInOrder
<1>6. InOrder(cache)' /\ InOrder(file)'
  <2>1. PICK s : s = LoadFromFile
    OBVIOUS
  <2>2. cache' = s /\ InOrder(s)
    BY <1>1, <1>5, <2>1
  <2> QED
    BY <1>1, <2>2 DEF FamilyInv, InOrder, Parents
<1> QED
  BY <1>3, <1>4, <1>6

LEMMA FamilyUnstored ==
    ASSUME FamilyInv, Unstored
    PROVE  NotYetStored' /\ ChildrenKept' /\ InOrder(file)' /\ InOrder(cache)'
<1>1. ChildrenKept' /\ InOrder(file)' /\ InOrder(cache)'
  BY FamiliesUntouched DEF FamilyInv, Unstored
<1>2. NotYetStored'
  <2>1. "object" \in Storing
    BY DEF Storing
  <2> QED
    BY <2>1 DEF FamilyInv, Unstored, NotYetStored
<1> QED
  BY <1>1, <1>2

\* Every step keeps it.
LEMMA FamilyStep == FamilyInv /\ [Next]_vars => FamilyInv'
<1> SUFFICES ASSUME FamilyInv, [Next]_vars PROVE FamilyInv'
  OBVIOUS
<1>1. TrailInv' /\ VanishInv' /\ Typed
  BY TrailStep, VanishStep DEF FamilyInv, VanishInv
<1>2. NotYetStored' /\ ChildrenKept' /\ InOrder(file)' /\ InOrder(cache)'
  <2>1. ASSUME NEW w \in Workers, Store(w)
        PROVE  NotYetStored' /\ ChildrenKept' /\ InOrder(file)' /\ InOrder(cache)'
    BY <2>1, FamilyBuild, FamilyWriteObject, FamilyWriteNewline, FamilyPush DEF Store
  <2> QED
    BY <1>1, <2>1, FamilyIoError, FamilyRestart, FamilyUnstored, StepsThatStore
<1> QED
  BY <1>1, <1>2 DEF FamilyInv

LEMMA InitFamily == Init => FamilyInv
<1> SUFFICES ASSUME Init PROVE FamilyInv
  OBVIOUS
<1>1. TrailInv /\ VanishInv
  BY InitInv, InitVanish
<1>2. file = <<>> /\ cache = <<>> /\ logged = {} /\ \A w \in Workers : pc[w] = "idle"
  BY DEF Init
<1>3. InOrder(file) /\ InOrder(cache)
  BY <1>2 DEF InOrder
<1>4. NotYetStored /\ ChildrenKept
  BY <1>2 DEF NotYetStored, ChildrenKept, Storing
<1> QED
  BY <1>1, <1>3, <1>4 DEF FamilyInv

-----------------------------------------------------------------------------

\* The walk needs no more of the invariant than this.
LEMMA TheCacheIsSound == FamilyInv => CacheSound
<1> SUFFICES ASSUME FamilyInv PROVE CacheSound
  OBVIOUS
<1>1. /\ built \in Seq(Event) /\ cache \in Seq(DOMAIN built) /\ DOMAIN built \subseteq Nat
  BY DEF FamilyInv, VanishInv, Typed, FileTyped
<1>2. cache \in Seq(Nat) /\ \A n \in DOMAIN cache : cache[n] \in DOMAIN built /\ cache[n] \in Nat
  BY <1>1
<1>3. OnlyOnce(cache)
  BY <1>2 DEF FamilyInv, InOrder, OnlyOnce
<1>4. ASSUME NEW c \in ToSet(cache), built[c].parent # None
      PROVE  built[c].parent \in Nat /\ built[c].parent < c
  <2>1. c \in DOMAIN built
    BY <1>2 DEF ToSet
  <2>2. built[c].parent \in Parents(c)
    BY <1>4 DEF Parents
  <2>3. built[c].parent \in logged /\ built[c].parent < c
    BY <2>1, <2>2, ParentsLogged DEF FamilyInv, TrailInv
  <2> QED
    BY <1>1, <2>3 DEF FamilyInv, VanishInv, Typed
<1> QED
  BY <1>2, <1>3, <1>4 DEF CacheSound

\* The root and every child of a member.
IsFamily(tree, root) == tree = {root} \cup {c \in ToSet(cache) : built[c].parent \in tree}

\* A child of a tree's event that was logged, and is on a line of its own if the file
\* was read again, is in the cache and so in the tree.
LEMMA ChildInTree ==
    ASSUME FamilyInv, NEW tree, tree \subseteq ToSet(cache), NEW root,
           IsFamily(tree, root),
           NEW e \in logged, NEW p \in Parents(e), p \in tree, restarts > 0 => e \in Readable
    PROVE  e \in tree
<1>1. e \in ToSet(cache)
  BY DEF FamilyInv, ChildrenKept
<1>2. built[e].parent = p
  BY DEF Parents
<1> QED
  BY <1>1, <1>2 DEF IsFamily

\* The invariant is enough: parents that are in the tree have their children there.
LEMMA FamiliesAreTrees == FamilyInv => TreesAreFamilies
<1> SUFFICES ASSUME FamilyInv, NEW root \in ToSet(cache)
             PROVE  /\ GetEventTree(root)[1] = root
                    /\ \A k, l \in DOMAIN GetEventTree(root) :
                          k < l => GetEventTree(root)[k] < GetEventTree(root)[l]
                    /\ \A e \in logged :
                          /\ root \in Ancestors(e)
                          /\ restarts > 0 =>
                                ({e} \cup Ancestors(e)) \ {root} \subseteq Readable \cup 1 .. root
                          => e \in ToSet(GetEventTree(root))
  BY DEF TreesAreFamilies
<1>1. CacheSound
  BY TheCacheIsSound
<1>2. PICK tree \in Seq(ToSet(cache)) :
          /\ GetEventTree(root) = ByTime(tree) /\ OnlyOnce(tree)
          /\ ToSet(tree) = {root} \cup {c \in ToSet(cache) : built[c].parent \in ToSet(tree)}
          /\ \A e \in ToSet(tree) : root <= e
  BY <1>1, WalkEnds
<1>3. PICK sorted : sorted = GetEventTree(root)
  OBVIOUS
<1>4. Len(built) \in Nat /\ DOMAIN built = 1 .. Len(built) /\ cache \in Seq(DOMAIN built)
  BY DEF FamilyInv, VanishInv, Typed, FileTyped
<1>5. ToSet(cache) \subseteq 1 .. Len(built)
  <2>1. \A n \in DOMAIN cache : cache[n] \in DOMAIN built
    BY <1>4
  <2> QED
    BY <1>4, <2>1 DEF ToSet
<1>6. sorted \in Seq(Nat) /\ ToSet(sorted) = ToSet(tree) /\ Ascending(sorted)
  <2>1. tree \in Seq(1 .. Len(built))
    <3>1. \A n \in DOMAIN tree : tree[n] \in ToSet(cache)
      OBVIOUS
    <3> QED
      BY <1>5, <3>1
  <2> QED
    BY <1>2, <1>3, <1>4, <2>1, Sorted
<1>7. sorted[1] = root
  <2>1. root \in ToSet(sorted) /\ root \in Nat
    BY <1>2, <1>5, <1>6
  <2>2. PICK k \in DOMAIN sorted : sorted[k] = root
    BY <2>1 DEF ToSet
  <2>3. DOMAIN sorted = 1 .. Len(sorted) /\ Len(sorted) \in Nat
    BY <1>6
  <2>4. 1 \in DOMAIN sorted /\ (k = 1 \/ 1 < k)
    <3>1. k \in 1 .. Len(sorted)
      BY <2>3
    <3>2. 1 \in 1 .. Len(sorted) /\ (k = 1 \/ 1 < k)
      BY <2>3, <3>1
    <3> QED
      BY <2>3, <3>2
  <2>5. sorted[1] \in ToSet(tree) /\ sorted[1] \in Nat
    <3>1. sorted[1] \in ToSet(sorted)
      BY <2>4 DEF ToSet
    <3>2. sorted[1] \in Nat
      BY <1>6, <2>4
    <3> QED
      BY <1>6, <3>1, <3>2
  <2>6. root <= sorted[1]
    BY <1>2, <2>5
  <2>7. CASE 1 < k
    <3>1. sorted[1] < root
      BY <1>6, <2>2, <2>4, <2>7 DEF Ascending
    <3> QED
      BY <2>1, <2>5, <2>6, <3>1
  <2> QED
    BY <2>2, <2>4, <2>7
<1>8. \A k, l \in DOMAIN sorted : k < l => sorted[k] < sorted[l]
  BY <1>6 DEF Ascending
<1>9. ASSUME NEW e \in logged, root \in Ancestors(e),
             restarts > 0 => ({e} \cup Ancestors(e)) \ {root} \subseteq Readable \cup 1 .. root
      PROVE  e \in ToSet(sorted)
  <2>1. e \in DOMAIN built /\ e \in Nat /\ root \in Nat
    BY <1>4, <1>5 DEF FamilyInv, VanishInv, Typed
  <2>2. PICK found : found = ToSet(tree)
    OBVIOUS
  <2>3. found \subseteq ToSet(cache) /\ root \in found /\ IsFamily(found, root)
    BY <1>2, <2>2 DEF IsFamily
  <2>4. CASE root \in Parents(e)
    <3>1. root < e
      BY <2>1, <2>4, ParentsLogged DEF FamilyInv, TrailInv
    <3>2. e \notin 1 .. root /\ e # root
      BY <2>1, <3>1
    <3>3. restarts > 0 => e \in Readable
      BY <1>9, <3>2
    <3>4. e \in found
      BY <2>3, <2>4, <3>3, ChildInTree
    <3> QED
      BY <1>6, <2>2, <3>4
  <2>5. CASE root \notin Parents(e)
    <3>1. PICK p \in Parents(e) : root \in Parents(p)
      BY <1>9, <2>5 DEF Ancestors
    <3>2. p \in logged /\ p < e
      BY <2>1, ParentsLogged DEF FamilyInv, TrailInv
    <3>3. p \in DOMAIN built /\ p \in Nat
      BY <1>4, <3>2 DEF FamilyInv, VanishInv, Typed
    <3>4. root < p
      BY <3>1, <3>3, ParentsLogged DEF FamilyInv, TrailInv
    <3>5. e \notin 1 .. root /\ p \notin 1 .. root /\ e # root /\ p # root
      BY <2>1, <3>2, <3>3, <3>4
    <3>6. p \in Ancestors(e)
      BY DEF Ancestors
    <3>7. (restarts > 0 => e \in Readable) /\ (restarts > 0 => p \in Readable)
      BY <1>9, <3>5, <3>6
    <3>8. p \in found
      BY <2>3, <3>1, <3>2, <3>7, ChildInTree
    <3>9. e \in found
      BY <2>3, <3>7, <3>8, ChildInTree
    <3> QED
      BY <1>6, <2>2, <3>9
  <2> QED
    BY <2>4, <2>5
<1> QED
  BY <1>3, <1>7, <1>8, <1>9

\* Whatever is interleaved, drained, lost or spoilt, the tree of an event is its family.
THEOREM TreesAreWhole == Spec => []TreesAreFamilies
BY InitFamily, FamilyStep, FamiliesAreTrees, PTL DEF Spec

=============================================================================
