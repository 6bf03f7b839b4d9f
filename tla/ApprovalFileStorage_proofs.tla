--------------------- MODULE ApprovalFileStorage_proofs ---------------------
(***************************************************************************)
(* Theorems about ApprovalFileStorage, for any sets of ids and threads and *)
(* any values of the bounds.                                               *)
(***************************************************************************)
EXTENDS ApprovalFileStorage, FiniteSetTheorems, SequenceTheorems, TLAPS

(***************************************************************************)
(* Lemmas about the operators on files and caches.                         *)
(***************************************************************************)

Cache == [Ids -> Request \cup {Absent}]

\* The tokens a rewrite of a cache may put into its file.
Lines(cache) == {[id |-> i, request |-> cache[i]] : i \in Cached(cache)} \cup {Newline}

\* What rewrite_file writes is a sequence of such tokens.
LEMMA SerializedTokens ==
    ASSUME NEW cache \in Cache
    PROVE  Serialized(cache) \in Seq(Lines(cache))
<1> DEFINE S == Cached(cache)
           ids == SetToSeq(S)
<1>1. IsFiniteSet(S)
  BY FS_Subset, ConstantsAssumption DEF Cached, ConstantsAssumption
<1>2. Cardinality(S) \in Nat /\ \E f \in [1 .. Cardinality(S) -> S] : IsInjective(f)
  BY <1>1, FS_CardinalityType DEF ExistsBijection, Bijection, Injection
<1>3. ids \in [1 .. Cardinality(S) -> S]
  BY <1>2 DEF SetToSeq
<1>4. ASSUME NEW n \in 1 .. 2 * Cardinality(S), n % 2 = 1
      PROVE  (n + 1) \div 2 \in 1 .. Cardinality(S)
  BY <1>2, <1>4
<1>5. Serialized(cache) \in [1 .. 2 * Cardinality(S) -> Lines(cache)]
  BY <1>3, <1>4 DEF Serialized, Lines
<1>6. 2 * Cardinality(S) \in Nat
  BY <1>2
<1> QED
  BY <1>5, <1>6, SeqDef

\* Laying a text over a file brings in no token from elsewhere.
LEMMA OverlayTokens ==
    ASSUME NEW T, NEW file \in Seq(T), NEW text \in Seq(T)
    PROVE  Overlay(file, text) \in Seq(T)
<1>1. Len(text) \in Nat /\ Len(file) \in Nat
  BY LenProperties
<1>2. \A n \in Len(text) + 1 .. Len(file) : file[n] \in T
  BY <1>1, ElementOfSeq
<1>3. SubSeq(file, Len(text) + 1, Len(file)) \in Seq(T)
  BY <1>1, <1>2, SubSeqProperties
<1> QED
  BY <1>3, ConcatProperties DEF Overlay

\* A rewrite leaves in a file nothing but what was in it and what is cached.
LEMMA RewriteTokens ==
    ASSUME NEW cache \in Cache, NEW T, NEW file \in Seq(T), Lines(cache) \subseteq T
    PROVE  Overlay(file, Serialized(cache)) \in Seq(T)
BY SerializedTokens, SeqMonotonic, OverlayTokens

\* What is loaded from a file is a request that some record of the file holds.
LEMMA LoadedRequests ==
    ASSUME NEW file \in Seq(Record \cup {Newline}), NEW i \in Ids,
           LoadFromFile(file)[i] # Absent
    PROVE  \E n \in DOMAIN file : /\ file[n] \in Record
                                  /\ file[n].id = i
                                  /\ LoadFromFile(file)[i] = file[n].request
<1> DEFINE lines == {n \in DOMAIN file : IsLine(file, n) /\ file[n].id = i}
           last == CHOOSE n \in lines : IsLast(lines, n)
<1>1. LoadFromFile(file)[i] = IF \E n \in lines : IsLast(lines, n)
                              THEN file[last].request ELSE Absent
  BY DEF LoadFromFile
<1>2. last \in lines /\ LoadFromFile(file)[i] = file[last].request
  BY <1>1
<1>3. file[last] \in Record
  BY <1>2, LenProperties, ElementOfSeq DEF IsLine
<1> QED
  BY <1>2, <1>3

\* load_from_file fills a cache with requests.
LEMMA LoadedCache ==
    ASSUME NEW file \in Seq(Record \cup {Newline})
    PROVE  LoadFromFile(file) \in Cache
<1>1. ASSUME NEW i \in Ids PROVE LoadFromFile(file)[i] \in Request \cup {Absent}
  BY LoadedRequests DEF Record
<1>2. DOMAIN LoadFromFile(file) = Ids /\ LoadFromFile(file) = [i \in Ids |-> LoadFromFile(file)[i]]
  BY DEF LoadFromFile
<1> QED
  BY <1>1, <1>2 DEF Cache

(***************************************************************************)
(* Type correctness, with faults.  It needs to know that a thread has a    *)
(* clone and a target wherever it uses them.                               *)
(***************************************************************************)

\* Where thread t is between two steps of a call on one request.
Busy(t) == pc[t] # "idle" /\ (pc[t] = "moved" => todo[t] = {})

Moving == {"insert", "clear", "rewritePending"}

LocalsOK ==
    \A t \in Threads :
        /\ Busy(t) => target[t] \in Ids /\ clone[t] \in Request
        /\ pc[t] \in Moving => clone[t].status # "Pending"
        /\ \A record \in todo[t] : record.request.status = "Expired"

CacheTypes == pending \in Cache /\ approved \in Cache /\ denied \in Cache

LogTypes == log \in [Files -> Seq(Record \cup {Newline})]

LocalTypes ==
    /\ pc \in [Threads -> Labels]
    /\ target \in [Threads -> Ids \cup {Absent}]
    /\ clone \in [Threads -> Request \cup {Absent}]
    /\ todo \in [Threads -> SUBSET Record]

HistoryTypes ==
    /\ created \in SUBSET Ids
    /\ expired \in SUBSET created
    /\ clock \in Nat
    /\ errors \in Nat
    /\ restarts \in Nat
    /\ outcomes \in [Ids -> SUBSET Decision]
    /\ stored \in SUBSET Ids
    /\ settled \in SUBSET Ids
    /\ torn \in BOOLEAN

TypeInv == CacheTypes /\ LogTypes /\ LocalTypes /\ HistoryTypes /\ LocalsOK

\* TypeInv is TypeOK with the requests a thread holds in each of its steps.
LEMMA TypeInvIsTypeOK == TypeInv => TypeOK
BY DEF TypeInv, TypeOK, Cache, CacheTypes, LogTypes, LocalTypes, HistoryTypes

\* The three ways in which a request is changed.
LEMMA ChangedRequests ==
    ASSUME NEW r \in Request
    PROVE  /\ clock \in Nat => \A outcome \in Outcomes :
                 LET d == Decided(r, outcome)
                 IN  d \in Request /\ d.status = outcome /\ d.decidedAt = clock + 1
           /\ Linked(r) \in Request
           /\ Linked(r).status = r.status /\ Linked(r).decidedAt = r.decidedAt
           /\ WithResult(r) \in Request
           /\ WithResult(r).status = r.status /\ WithResult(r).decidedAt = r.decidedAt
<1>1. ASSUME clock \in Nat, NEW outcome \in Outcomes
      PROVE  /\ Decided(r, outcome) \in Request
             /\ Decided(r, outcome).status = outcome
             /\ Decided(r, outcome).decidedAt = clock + 1
  <2> DEFINE d == [r EXCEPT !.status = outcome]
  <2>1. d \in Request /\ d.status = outcome
    BY DEF Request, Status
  <2>2. Decided(r, outcome) = [d EXCEPT !.decidedAt = clock + 1]
    BY DEF Decided
  <2> HIDE DEF d
  <2> QED
    BY <1>1, <2>1, <2>2 DEF Request
<1>2. Linked(r) \in Request /\ Linked(r).status = r.status /\ Linked(r).decidedAt = r.decidedAt
  BY DEF Request, Linked
<1>3. /\ WithResult(r) \in Request
      /\ WithResult(r).status = r.status /\ WithResult(r).decidedAt = r.decidedAt
  BY DEF Request, WithResult
<1> QED
  BY <1>1, <1>2, <1>3

\* The three ways in which a thread's locals change.
LEMMA Returning ==
    ASSUME LocalTypes, LocalsOK, NEW t \in Threads, Return(t)
    PROVE  (LocalTypes /\ LocalsOK)'
BY DEF LocalTypes, LocalsOK, Return, Labels, Busy, Moving

\* ... it goes on with the same locals, ...
LEMMA GoingOn ==
    ASSUME LocalTypes, LocalsOK, NEW t \in Threads, NEW label \in Labels, GoTo(t, label),
           Busy(t), label \in Moving => clone[t].status # "Pending"
    PROVE  (LocalTypes /\ LocalsOK)'
BY DEF LocalTypes, LocalsOK, GoTo, Busy, Moving

\* ... or it takes up a request.
LEMMA Taking ==
    ASSUME LocalTypes, LocalsOK, NEW t \in Threads, NEW i \in Ids, NEW label \in {"insert", "append"},
           NEW r \in Request, label = "insert" => r.status # "Pending",
           pc' = [pc EXCEPT ![t] = label],
           target' = [target EXCEPT ![t] = i],
           clone' = [clone EXCEPT ![t] = r],
           todo' \in [Threads -> SUBSET Record],
           todo'[t] \subseteq todo[t], \A u \in Threads \ {t} : todo'[u] = todo[u]
    PROVE  (LocalTypes /\ LocalsOK)'
BY DEF LocalTypes, LocalsOK, Labels, Busy, Moving

\* The lines of a cache are records and newlines.
LEMMA LoggedRecords ==
    ASSUME NEW cache \in Cache
    PROVE  Lines(cache) \subseteq Record \cup {Newline}
BY DEF Cache, Lines, Cached, Record

\* Inserting into a cache and trimming it leave a cache.
LEMMA TrimmedCache ==
    ASSUME NEW cache \in Cache
    PROVE  /\ \A S : Without(cache, S) \in Cache
           /\ \A i \in Ids, r \in Request : [cache EXCEPT ![i] = r] \in Cache
BY DEF Cache, Without

\* A decision advances the clock and is recorded with its time.
LEMMA NotedTypes ==
    ASSUME HistoryTypes, NEW S, NEW outcome \in Outcomes, Note(S, outcome)
    PROVE  clock' \in Nat /\ outcomes' \in [Ids -> SUBSET Decision]
<1>1. clock + 1 \in Nat
  BY DEF HistoryTypes
<1>2. [status |-> outcome, at |-> clock + 1] \in Decision
  BY <1>1 DEF Decision
<1> QED
  BY <1>1, <1>2 DEF HistoryTypes, Note

\* TypeInv holds of the empty store.
LEMMA TypeInit == Init => TypeInv
<1> SUFFICES ASSUME Init PROVE TypeInv
  OBVIOUS
<1>1. CacheTypes /\ LogTypes
  BY EmptySeq DEF Init, CacheTypes, LogTypes, Cache
<1>2. LocalTypes /\ HistoryTypes /\ LocalsOK
  BY DEF Init, LocalTypes, HistoryTypes, LocalsOK, Labels, Busy, Moving
<1> QED
  BY <1>1, <1>2 DEF TypeInv

\* Every operation of the store, every fault and a restart preserve TypeInv.
LEMMA TypeStep == TypeInv /\ [FaultyNext]_vars => TypeInv'
<1> SUFFICES ASSUME TypeInv, [FaultyNext]_vars PROVE TypeInv'
  OBVIOUS
<1> USE DEF TypeInv, caches, local, faults, history
<1>1. ASSUME NEW t \in Threads, SkipAuditIds(t) PROVE TypeInv'
  <2>1. (LocalTypes /\ LocalsOK)'
    BY <1>1, Returning DEF SkipAuditIds
  <2>2. (CacheTypes /\ LogTypes /\ HistoryTypes)'
    BY <1>1 DEF SkipAuditIds, CacheTypes, LogTypes, HistoryTypes
  <2> QED
    BY <2>1, <2>2 DEF TypeInv
<1>2. ASSUME NEW t \in Threads, LinkNowhere(t) PROVE TypeInv'
  <2>1. (LocalTypes /\ LocalsOK)'
    BY <1>2, Returning DEF LinkNowhere
  <2>2. (CacheTypes /\ LogTypes /\ HistoryTypes)'
    BY <1>2 DEF LinkNowhere, CacheTypes, LogTypes, HistoryTypes
  <2> QED
    BY <2>1, <2>2 DEF TypeInv
<1>3. ASSUME NEW t \in Threads, ReturnMoved(t) PROVE TypeInv'
  <2>1. (LocalTypes /\ LocalsOK)'
    BY <1>3, Returning DEF ReturnMoved
  <2>2. (CacheTypes /\ LogTypes /\ HistoryTypes)'
    BY <1>3 DEF ReturnMoved, CacheTypes, LogTypes, HistoryTypes
  <2> QED
    BY <2>1, <2>2 DEF TypeInv
<1>4. ASSUME NEW t \in Threads, LinkElsewhere(t) PROVE TypeInv'
  <2>1. Busy(t)
    BY <1>4 DEF LinkElsewhere, Busy
  <2>2. (LocalTypes /\ LocalsOK)'
    BY <1>4, <2>1, GoingOn DEF LinkElsewhere, Busy, Labels, Moving, LocalsOK
  <2>3. (CacheTypes /\ LogTypes /\ HistoryTypes)'
    BY <1>4 DEF LinkElsewhere, CacheTypes, LogTypes, HistoryTypes
  <2> QED
    BY <2>2, <2>3 DEF TypeInv
<1>5. ASSUME NEW t \in Threads, AppendRecord(t) PROVE TypeInv'
  <2>1. Busy(t)
    BY <1>5 DEF AppendRecord, Busy
  <2>2. (LocalTypes /\ LocalsOK)'
    BY <1>5, <2>1, GoingOn DEF AppendRecord, Busy, Labels, Moving, LocalsOK
  <2>3. FileOf(clone[t]) \in Files /\ [id |-> target[t], request |-> clone[t]] \in Record
    BY <1>5, <2>1 DEF LocalsOK, FileOf, Files, Record
  <2>4. LogTypes'
    BY <1>5, <2>3 DEF AppendRecord, LogTypes
  <2>5. (CacheTypes /\ HistoryTypes)'
    BY <1>5 DEF AppendRecord, CacheTypes, HistoryTypes
  <2> QED
    BY <2>2, <2>4, <2>5 DEF TypeInv
<1>6. ASSUME NEW t \in Threads, AppendNewline(t) PROVE TypeInv'
  <2>1. Busy(t)
    BY <1>6 DEF AppendNewline, Busy
  <2>2. (LocalTypes /\ LocalsOK)'
    BY <1>6, <2>1, GoingOn DEF AppendNewline, Busy, Labels, Moving, LocalsOK
  <2>3. FileOf(clone[t]) \in Files /\ target[t] \in Ids
    BY <1>6, <2>1 DEF LocalsOK, FileOf, Files
  <2>4. LogTypes'
    BY <1>6, <2>3 DEF AppendNewline, LogTypes
  <2>5. (CacheTypes /\ HistoryTypes)'
    BY <1>6, <2>3 DEF AppendNewline, CacheTypes, HistoryTypes
  <2> QED
    BY <2>2, <2>4, <2>5 DEF TypeInv
<1>7. ASSUME NEW t \in Threads, LinkPending(t) PROVE TypeInv'
  <2>1. Busy(t)
    BY <1>7 DEF LinkPending, Busy
  <2>2. (LocalTypes /\ LocalsOK)'
    BY <1>7, <2>1, GoingOn DEF LinkPending, Busy, Labels, Moving, LocalsOK
  <2>3. target[t] \in Ids /\ pending[target[t]] \in Request
    BY <1>7, <2>1 DEF LinkPending, LocalsOK, CacheTypes, Cache
  <2>4. CacheTypes'
    BY <1>7, <2>3, ChangedRequests DEF LinkPending, CacheTypes, Cache
  <2>5. LogTypes'
    BY <1>7, EmptySeq DEF LinkPending, LogTypes
  <2>6. HistoryTypes'
    BY <1>7 DEF LinkPending, HistoryTypes
  <2> QED
    BY <2>2, <2>4, <2>5, <2>6 DEF TypeInv
<1>8. ASSUME NEW t \in Threads, LinkApproved(t) PROVE TypeInv'
  <2>1. Busy(t)
    BY <1>8 DEF LinkApproved, Busy
  <2>2. (LocalTypes /\ LocalsOK)'
    BY <1>8, <2>1, GoingOn DEF LinkApproved, Busy, Labels, Moving, LocalsOK
  <2>3. target[t] \in Ids /\ approved[target[t]] \in Request
    BY <1>8, <2>1 DEF LinkApproved, LocalsOK, CacheTypes, Cache
  <2>4. CacheTypes'
    BY <1>8, <2>3, ChangedRequests DEF LinkApproved, CacheTypes, Cache
  <2>5. LogTypes'
    BY <1>8, EmptySeq DEF LinkApproved, LogTypes
  <2>6. HistoryTypes'
    BY <1>8 DEF LinkApproved, HistoryTypes
  <2> QED
    BY <2>2, <2>4, <2>5, <2>6 DEF TypeInv
<1>9. ASSUME NEW t \in Threads, FinishLink(t) PROVE TypeInv'
  <2>1. (LocalTypes /\ LocalsOK)'
    BY <1>9, Returning DEF FinishLink
  <2>2. Overlay(log["pending"], Serialized(pending)) \in Seq(Record \cup {Newline})
    BY LoggedRecords, RewriteTokens DEF CacheTypes, LogTypes, Files
  <2>3. LogTypes'
    BY <1>9, <2>2 DEF FinishLink, LogTypes
  <2>4. (CacheTypes /\ HistoryTypes)'
    BY <1>9 DEF FinishLink, CacheTypes, HistoryTypes
  <2> QED
    BY <2>1, <2>3, <2>4 DEF TypeInv
<1>10. ASSUME NEW t \in Threads, FinishRewriteApproved(t) PROVE TypeInv'
  <2>1. (LocalTypes /\ LocalsOK)'
    BY <1>10, Returning DEF FinishRewriteApproved
  <2>2. Overlay(log["approved"], Serialized(approved)) \in Seq(Record \cup {Newline})
    BY LoggedRecords, RewriteTokens DEF CacheTypes, LogTypes, Files
  <2>3. LogTypes'
    BY <1>10, <2>2 DEF FinishRewriteApproved, LogTypes
  <2>4. (CacheTypes /\ HistoryTypes)'
    BY <1>10 DEF FinishRewriteApproved, CacheTypes, HistoryTypes
  <2> QED
    BY <2>1, <2>3, <2>4 DEF TypeInv
<1>11. ASSUME NEW t \in Threads, RewritePending(t) PROVE TypeInv'
  <2>1. Busy(t)
    BY <1>11 DEF RewritePending, Busy
  <2>2. (LocalTypes /\ LocalsOK)'
    BY <1>11, <2>1, GoingOn DEF RewritePending, Busy, Labels, Moving, LocalsOK
  <2>3. Overlay(log["pending"], Serialized(pending)) \in Seq(Record \cup {Newline})
    BY LoggedRecords, RewriteTokens DEF CacheTypes, LogTypes, Files
  <2>4. LogTypes'
    BY <1>11, <2>3 DEF RewritePending, LogTypes
  <2>5. (CacheTypes /\ HistoryTypes)'
    BY <1>11 DEF RewritePending, CacheTypes, HistoryTypes
  <2> QED
    BY <2>2, <2>4, <2>5 DEF TypeInv
<1>12. ASSUME NEW t \in Threads, InsertDenied(t) PROVE TypeInv'
  <2>1. Busy(t)
    BY <1>12 DEF InsertDenied, Busy
  <2>2. (LocalTypes /\ LocalsOK)'
    BY <1>12, <2>1, GoingOn DEF InsertDenied, Busy, Labels, Moving, LocalsOK
  <2>3. target[t] \in Ids /\ clone[t] \in Request
    BY <2>1 DEF LocalsOK
  <2>4. CacheTypes'
    BY <1>12, <2>3, TrimmedCache DEF InsertDenied, CacheTypes
  <2>5. (LogTypes /\ HistoryTypes)'
    BY <1>12 DEF InsertDenied, LogTypes, HistoryTypes
  <2> QED
    BY <2>2, <2>4, <2>5 DEF TypeInv
<1>13. ASSUME NEW t \in Threads, InsertApproved(t) PROVE TypeInv'
  <2>1. Busy(t)
    BY <1>13 DEF InsertApproved, Busy
  <2>2. (LocalTypes /\ LocalsOK)'
    BY <1>13, <2>1, GoingOn DEF InsertApproved, Busy, Labels, Moving, LocalsOK
  <2>3. target[t] \in Ids /\ clone[t] \in Request
    BY <2>1 DEF LocalsOK
  <2>4. CacheTypes'
    BY <1>13, <2>3, TrimmedCache DEF InsertApproved, CacheTypes
  <2>5. (LogTypes /\ HistoryTypes)'
    BY <1>13 DEF InsertApproved, LogTypes, HistoryTypes
  <2> QED
    BY <2>2, <2>4, <2>5 DEF TypeInv
<1>14. ASSUME NEW t \in Threads, Clear(t) PROVE TypeInv'
  <2>1. Busy(t)
    BY <1>14 DEF Clear, Busy
  <2>2. (LocalTypes /\ LocalsOK)'
    BY <1>14, <2>1, GoingOn DEF Clear, Busy, Labels, Moving, LocalsOK
  <2>3. target[t] \in Ids
    BY <2>1 DEF LocalsOK
  <2>4. LogTypes'
    BY <1>14, EmptySeq DEF Clear, LogTypes
  <2>5. (CacheTypes /\ HistoryTypes)'
    BY <1>14, <2>3 DEF Clear, CacheTypes, HistoryTypes
  <2> QED
    BY <2>2, <2>4, <2>5 DEF TypeInv
<1>15. ASSUME NEW t \in Threads, MoveNext(t) PROVE TypeInv'
  <2>1. PICK record \in todo[t] : /\ target' = [target EXCEPT ![t] = record.id]
                                  /\ clone' = [clone EXCEPT ![t] = record.request]
                                  /\ todo' = [todo EXCEPT ![t] = @ \ {record}]
    BY <1>15 DEF MoveNext
  <2>2. record.id \in Ids /\ record.request \in Request /\ record.request.status = "Expired"
    BY DEF LocalTypes, LocalsOK, Record
  <2>3. (LocalTypes /\ LocalsOK)'
    BY <1>15, <2>1, <2>2, Taking DEF MoveNext, LocalTypes
  <2>4. (CacheTypes /\ LogTypes /\ HistoryTypes)'
    BY <1>15 DEF MoveNext, CacheTypes, LogTypes, HistoryTypes
  <2> QED
    BY <2>3, <2>4 DEF TypeInv
<1>16. ASSUME NEW t \in Threads, UpdateWithResult(t) PROVE TypeInv'
  <2>1. Busy(t)
    BY <1>16 DEF UpdateWithResult, Busy
  <2>2. (LocalTypes /\ LocalsOK)'
    BY <1>16, <2>1, GoingOn, Returning DEF UpdateWithResult, Labels, Moving
  <2>3. CacheTypes'
    BY <1>16, ChangedRequests DEF UpdateWithResult, CacheTypes, Cache
  <2>4. LogTypes'
    BY <1>16, EmptySeq DEF UpdateWithResult, LogTypes
  <2>5. HistoryTypes'
    BY <1>16 DEF UpdateWithResult, HistoryTypes
  <2> QED
    BY <2>2, <2>3, <2>4, <2>5 DEF TypeInv
<1>17. ASSUME NEW t \in Threads, IoError(t) PROVE TypeInv'
  <2>1. GoTo(t, "audit") => Busy(t)
    BY <1>17 DEF IoError, Busy, MidWrite
  <2>2. (LocalTypes /\ LocalsOK)'
    BY <1>17, <2>1, GoingOn, Returning DEF IoError, Labels, Moving
  <2>3. (CacheTypes /\ LogTypes /\ HistoryTypes)'
    BY <1>17 DEF IoError, CacheTypes, LogTypes, HistoryTypes
  <2> QED
    BY <2>2, <2>3 DEF TypeInv
<1>18. ASSUME NEW t \in Threads, NEW i \in Ids, StorePending(t, i) PROVE TypeInv'
  <2>1. NewRequest \in Request
    BY DEF NewRequest, Request, Status, Outcomes
  <2>2. (LocalTypes /\ LocalsOK)'
    BY <1>18, <2>1, Taking DEF StorePending, LocalTypes
  <2>3. CacheTypes'
    BY <1>18, <2>1 DEF StorePending, CacheTypes, Cache
  <2>4. (LogTypes /\ HistoryTypes)'
    BY <1>18 DEF StorePending, LogTypes, HistoryTypes
  <2> QED
    BY <2>2, <2>3, <2>4 DEF TypeInv
<1>19. ASSUME NEW t \in Threads, NEW i \in Ids, Approve(t, i) \/ Reject(t, i) \/ Cancel(t, i) PROVE TypeInv'
  <2>1. PICK outcome \in Outcomes : TakeOut(t, i, outcome)
    BY <1>19 DEF Approve, Reject, Cancel, Outcomes
  <2>2. pending[i] \in Request
    BY <1>19 DEF Approve, Reject, Cancel, CacheTypes, Cache
  <2>3. Decided(pending[i], outcome) \in Request /\ Decided(pending[i], outcome).status # "Pending"
    BY <2>2, ChangedRequests DEF HistoryTypes, Outcomes
  <2>4. (LocalTypes /\ LocalsOK)'
    BY <2>1, <2>3, Taking DEF TakeOut, LocalTypes
  <2>5. (CacheTypes /\ LogTypes)'
    BY <2>1 DEF TakeOut, CacheTypes, LogTypes, Cache
  <2>6. HistoryTypes'
    BY <2>1, NotedTypes DEF TakeOut, HistoryTypes
  <2> QED
    BY <2>4, <2>5, <2>6 DEF TypeInv
<1>20. ASSUME NEW t \in Threads, NEW i \in Ids, GetOverdue(t, i) PROVE TypeInv'
  <2>1. pending[i] \in Request
    BY <1>20 DEF GetOverdue, CacheTypes, Cache
  <2>2. Decided(pending[i], "Expired") \in Request /\ Decided(pending[i], "Expired").status # "Pending"
    BY <2>1, ChangedRequests DEF HistoryTypes, Outcomes
  <2>3. (LocalTypes /\ LocalsOK)'
    BY <1>20, <2>2, Taking DEF GetOverdue, LocalTypes
  <2>4. (CacheTypes /\ LogTypes)'
    BY <1>20, <2>2 DEF GetOverdue, CacheTypes, LogTypes, Cache
  <2>5. HistoryTypes'
    BY <1>20, NotedTypes DEF GetOverdue, HistoryTypes, Outcomes
  <2> QED
    BY <2>3, <2>4, <2>5 DEF TypeInv
<1>21. ASSUME NEW t \in Threads, ListPending(t) PROVE TypeInv'
  <2> DEFINE overdue == {i \in expired : pending[i] # Absent /\ pending[i].status = "Pending"}
             moves == {[id |-> i, request |-> Decided(pending[i], "Expired")] : i \in overdue}
  <2>2. overdue \subseteq Ids /\ \A i \in overdue : pending[i] \in Request
    BY DEF HistoryTypes, CacheTypes, Cache
  <2>3. \A record \in moves : record \in Record /\ record.request.status = "Expired"
    BY <2>2, ChangedRequests DEF HistoryTypes, Outcomes, Record
  <2>4. moves # {}
    BY <1>21 DEF ListPending
  <2>5. pc' = [pc EXCEPT ![t] = "moved"] /\ todo' = [todo EXCEPT ![t] = moves] /\ UNCHANGED <<target, clone>>
    BY <1>21 DEF ListPending
  <2>6. (LocalTypes /\ LocalsOK)'
    BY <2>3, <2>4, <2>5 DEF LocalTypes, LocalsOK, Labels, Busy, Moving
  <2>7. (CacheTypes /\ LogTypes)'
    BY <1>21, TrimmedCache DEF ListPending, CacheTypes, LogTypes
  <2>8. HistoryTypes'
    BY <1>21, <2>2, NotedTypes DEF ListPending, HistoryTypes, Outcomes
  <2> QED
    BY <2>6, <2>7, <2>8 DEF TypeInv
<1>22. ASSUME NEW i \in Ids, TimePasses(i) PROVE TypeInv'
  <2>1. (LocalTypes /\ LocalsOK)'
    BY <1>22 DEF TimePasses, LocalTypes, LocalsOK, Busy
  <2>2. (CacheTypes /\ LogTypes /\ HistoryTypes)'
    BY <1>22 DEF TimePasses, CacheTypes, LogTypes, HistoryTypes
  <2> QED
    BY <2>1, <2>2 DEF TypeInv
<1>23. ASSUME Restart PROVE TypeInv'
  <2>1. (LocalTypes /\ LocalsOK)'
    BY <1>23 DEF Restart, LocalTypes, LocalsOK, Busy, Labels, Moving
  <2>2. CacheTypes'
    BY <1>23, LoadedCache DEF Restart, CacheTypes, LogTypes, Files
  <2>3. (LogTypes /\ HistoryTypes)'
    BY <1>23 DEF Restart, LogTypes, HistoryTypes
  <2> QED
    BY <2>1, <2>2, <2>3 DEF TypeInv
<1>24. ASSUME NEW cutoff \in 1 .. clock, Cleanup(cutoff) PROVE TypeInv'
  <2>1. (LocalTypes /\ LocalsOK)'
    BY <1>24 DEF Cleanup, LocalTypes, LocalsOK, Busy
  <2>2. (CacheTypes /\ LogTypes /\ HistoryTypes)'
    BY <1>24, TrimmedCache DEF Cleanup, CacheTypes, LogTypes, HistoryTypes
  <2> QED
    BY <2>1, <2>2 DEF TypeInv
<1>25. CASE UNCHANGED vars
  <2>1. (LocalTypes /\ LocalsOK)'
    BY <1>25 DEF vars, LocalTypes, LocalsOK, Busy
  <2>2. (CacheTypes /\ LogTypes /\ HistoryTypes)'
    BY <1>25 DEF vars, CacheTypes, LogTypes, HistoryTypes
  <2> QED
    BY <2>1, <2>2 DEF TypeInv
<1> QED
  BY <1>1, <1>2, <1>3, <1>4, <1>5, <1>6, <1>7, <1>8, <1>9, <1>10, <1>11, <1>12, <1>13,
     <1>14, <1>15, <1>16, <1>17, <1>18, <1>19, <1>20, <1>21, <1>22, <1>23, <1>24, <1>25
     DEF FaultyNext, Next, Call, Continue

\* The variables keep their types, whatever fails.
THEOREM FaultyTyping == FaultySpec => []TypeOK
<1>1. FaultySpec => []TypeInv
  BY TypeInit, TypeStep, PTL DEF FaultySpec
<1>2. TypeInv => TypeOK
  BY TypeInvIsTypeOK
<1> QED
  BY <1>1, <1>2, PTL

\* Without faults a behaviour is one of those with faults in which none happens.
LEMMA SpecIsFaulty == Spec => FaultySpec
<1>1. [Next]_vars => [FaultyNext]_vars
  BY DEF FaultyNext
<1> QED
  BY <1>1, PTL DEF Spec, FaultySpec

\* The variables keep their types, in the behaviours without faults too.
THEOREM Typing == Spec => []TypeOK
BY FaultyTyping, SpecIsFaulty

(***************************************************************************)
(* Safety with faults: where a decision can be read and which requests can *)
(* still be read as pending.                                               *)
(***************************************************************************)

\* What pending.log and its cache may hold of id i, ...
MayAwait(i, request) ==
    /\ i \in created
    /\ \/ request.status = "Pending" /\ i \notin settled
       \/ request.status = "Expired" /\ Carries(i, request)

\* ... what approved.log ...
MayBeApproved(i, request) == request.status = "Approved" /\ Carries(i, request)

\* ... and what denied.log.
MayBeDenied(i, request) ==
    request.status \notin {"Approved", "Pending"} /\ Carries(i, request)

PendingTokens == {r \in Record : MayAwait(r.id, r.request)} \cup {Newline}
ApprovedTokens == {r \in Record : MayBeApproved(r.id, r.request)} \cup {Newline}
DeniedTokens == {r \in Record : MayBeDenied(r.id, r.request)} \cup {Newline}

CachesOK ==
    \A i \in Ids :
        /\ pending[i] # Absent => MayAwait(i, pending[i])
        /\ approved[i] # Absent => MayBeApproved(i, approved[i])
        /\ denied[i] # Absent => MayBeDenied(i, denied[i])

LogsOK ==
    /\ log["pending"] \in Seq(PendingTokens)
    /\ log["approved"] \in Seq(ApprovedTokens)
    /\ log["denied"] \in Seq(DeniedTokens)

Undecided(i) == pending[i] # Absent /\ pending[i].status = "Pending"

MovesOK ==
    \A t \in Threads :
        /\ clone[t] # Absent =>
              /\ target[t] \in created
              /\ clone[t].status # "Pending" =>
                    Carries(target[t], clone[t]) /\ ~Undecided(target[t])
              /\ clone[t].status = "Pending" /\ pc[t] \in {"append", "newline"} =>
                    target[t] \notin settled
        /\ \A record \in todo[t] :
              /\ record.id \in created
              /\ Carries(record.id, record.request)
              /\ ~Undecided(record.id)

SafeInv == CachesOK /\ LogsOK /\ MovesOK /\ settled \subseteq created
\* Decisions and creations are never taken back.
Grows == created \subseteq created' /\ \A i \in Ids : outcomes[i] \subseteq outcomes'[i]

\* What may await a decision still may after a step that decides nothing about it.
LEMMA KeptPending ==
    ASSUME Grows, settled' = settled
    PROVE  /\ \A i \in Ids, r \in Request : MayAwait(i, r) => MayAwait(i, r)'
           /\ PendingTokens \subseteq PendingTokens'
<1>1. ASSUME NEW i \in Ids, NEW r \in Request, MayAwait(i, r) PROVE MayAwait(i, r)'
  BY <1>1 DEF Grows, MayAwait, Carries
<1>2. ASSUME NEW r \in PendingTokens PROVE r \in PendingTokens'
  BY <1>1, <1>2 DEF PendingTokens, Record
<1> QED
  BY <1>1, <1>2

\* A decision that was taken stays taken.
LEMMA KeptDecisions ==
    ASSUME Grows
    PROVE  /\ \A i \in Ids, r \in Request : MayBeApproved(i, r) => MayBeApproved(i, r)'
           /\ \A i \in Ids, r \in Request : MayBeDenied(i, r) => MayBeDenied(i, r)'
           /\ ApprovedTokens \subseteq ApprovedTokens'
           /\ DeniedTokens \subseteq DeniedTokens'
<1>1. ASSUME NEW i \in Ids, NEW r \in Request, MayBeApproved(i, r) PROVE MayBeApproved(i, r)'
  BY <1>1 DEF Grows, MayBeApproved, Carries
<1>2. ASSUME NEW i \in Ids, NEW r \in Request, MayBeDenied(i, r) PROVE MayBeDenied(i, r)'
  BY <1>2 DEF Grows, MayBeDenied, Carries
<1>3. ASSUME NEW r \in ApprovedTokens PROVE r \in ApprovedTokens'
  BY <1>1, <1>3 DEF ApprovedTokens, Record
<1>4. ASSUME NEW r \in DeniedTokens PROVE r \in DeniedTokens'
  BY <1>2, <1>4 DEF DeniedTokens, Record
<1> QED
  BY <1>1, <1>2, <1>3, <1>4

\* A step that writes to no file.
LEMMA KeptLogs ==
    ASSUME LogsOK, Grows, settled' = settled, UNCHANGED log
    PROVE  LogsOK'
BY KeptPending, KeptDecisions, SeqMonotonic DEF LogsOK

\* What a cache may hold, its file may hold.
LEMMA CachedTokens ==
    ASSUME TypeInv, CachesOK
    PROVE  /\ Lines(pending) \subseteq PendingTokens
           /\ Lines(approved) \subseteq ApprovedTokens
BY DEF TypeInv, CacheTypes, Cache, CachesOK, Lines, Cached, Record, PendingTokens,
       ApprovedTokens

\* What Decided makes of a request is what Note records.
LEMMA NotedDecision ==
    ASSUME TypeInv, NEW S \in SUBSET Ids, NEW outcome \in Outcomes, Note(S, outcome)
    PROVE  /\ \A i \in Ids : outcomes[i] \subseteq outcomes'[i]
           /\ \A i \in S, r \in Request :
                 r.status = outcome /\ r.decidedAt = clock + 1 => Carries(i, r)'
BY DEF TypeInv, HistoryTypes, Note, Carries

\* The request in hand of thread t, or the next one of its list, is dealt with.
LEMMA ReturningMoves ==
    ASSUME LocalTypes, MovesOK, UNCHANGED <<created, outcomes, settled>>,
           \A i \in created : Undecided(i)' => Undecided(i),
           NEW t \in Threads, Return(t)
    PROVE  MovesOK'
BY DEF LocalTypes, MovesOK, Return, Carries, Record

\* A thread goes on with the request in hand.
LEMMA GoingOnMoves ==
    ASSUME LocalTypes, MovesOK, UNCHANGED <<created, outcomes, settled>>,
           \A i \in created : Undecided(i)' => Undecided(i),
           NEW t \in Threads, NEW label, GoTo(t, label),
           label \in {"append", "newline"} =>
               clone[t].status # "Pending" \/ pc[t] \in {"append", "newline"}
    PROVE  MovesOK'
BY DEF LocalTypes, MovesOK, GoTo, Carries, Record

\* A thread takes up a request that it has just created or decided.
LEMMA TakingMoves ==
    ASSUME TypeInv, MovesOK, Grows, settled' = settled,
           \A j \in created : Undecided(j)' => Undecided(j),
           NEW t \in Threads, NEW i \in created', NEW r \in Request, NEW label,
           IF r.status = "Pending" THEN i \notin settled ELSE Carries(i, r)' /\ ~Undecided(i)',
           pc' = [pc EXCEPT ![t] = label],
           target' = [target EXCEPT ![t] = i],
           clone' = [clone EXCEPT ![t] = r],
           \A u \in Threads : todo'[u] \subseteq todo[u]
    PROVE  MovesOK'
<1>1. ASSUME NEW j \in Ids, NEW q \in Request, Carries(j, q) PROVE Carries(j, q)'
  BY <1>1 DEF Grows, Carries
<1> QED
  BY <1>1 DEF TypeInv, LocalTypes, HistoryTypes, MovesOK, Record, Grows

\* FileOf by cases.
LEMMA FileOfCases ==
    ASSUME NEW r
    PROVE  \/ r.status = "Pending" /\ FileOf(r) = "pending"
           \/ r.status = "Approved" /\ FileOf(r) = "approved"
           \/ r.status \notin {"Pending", "Approved"} /\ FileOf(r) = "denied"
BY DEF FileOf

\* Every operation of the store, every fault and a restart preserve SafeInv.
LEMMA SafeStep ==
    ASSUME TypeInv, TypeInv', SafeInv, [FaultyNext]_vars
    PROVE  SafeInv'
<1> USE DEF SafeInv, caches, local, faults, history
<1>1. ASSUME NEW t \in Threads, SkipAuditIds(t) PROVE SafeInv'
  <2>1. (CachesOK /\ LogsOK /\ settled \subseteq created)'
    BY <1>1
       DEF SkipAuditIds, CachesOK, LogsOK, MayAwait, MayBeApproved, MayBeDenied, Carries,
           PendingTokens, ApprovedTokens, DeniedTokens
  <2>2. UNCHANGED <<created, outcomes, settled>>
    BY <1>1 DEF SkipAuditIds
  <2>3. \A i \in created : Undecided(i)' => Undecided(i)
    BY <1>1 DEF SkipAuditIds, Undecided, TypeInv, CacheTypes, Cache
  <2>4. MovesOK'
    BY <1>1, <2>2, <2>3, ReturningMoves DEF SkipAuditIds, TypeInv
  <2> QED
    BY <2>1, <2>4 DEF SafeInv
<1>2. ASSUME NEW t \in Threads, LinkNowhere(t) PROVE SafeInv'
  <2>1. (CachesOK /\ LogsOK /\ settled \subseteq created)'
    BY <1>2
       DEF LinkNowhere, CachesOK, LogsOK, MayAwait, MayBeApproved, MayBeDenied, Carries,
           PendingTokens, ApprovedTokens, DeniedTokens
  <2>2. UNCHANGED <<created, outcomes, settled>>
    BY <1>2 DEF LinkNowhere
  <2>3. \A i \in created : Undecided(i)' => Undecided(i)
    BY <1>2 DEF LinkNowhere, Undecided, TypeInv, CacheTypes, Cache
  <2>4. MovesOK'
    BY <1>2, <2>2, <2>3, ReturningMoves DEF LinkNowhere, TypeInv
  <2> QED
    BY <2>1, <2>4 DEF SafeInv
<1>3. ASSUME NEW t \in Threads, ReturnMoved(t) PROVE SafeInv'
  <2>1. (CachesOK /\ LogsOK /\ settled \subseteq created)'
    BY <1>3
       DEF ReturnMoved, CachesOK, LogsOK, MayAwait, MayBeApproved, MayBeDenied, Carries,
           PendingTokens, ApprovedTokens, DeniedTokens
  <2>2. UNCHANGED <<created, outcomes, settled>>
    BY <1>3 DEF ReturnMoved
  <2>3. \A i \in created : Undecided(i)' => Undecided(i)
    BY <1>3 DEF ReturnMoved, Undecided, TypeInv, CacheTypes, Cache
  <2>4. MovesOK'
    BY <1>3, <2>2, <2>3, ReturningMoves DEF ReturnMoved, TypeInv
  <2> QED
    BY <2>1, <2>4 DEF SafeInv
<1>4. ASSUME NEW t \in Threads, LinkElsewhere(t) PROVE SafeInv'
  <2>1. (CachesOK /\ LogsOK /\ settled \subseteq created)'
    BY <1>4
       DEF LinkElsewhere, CachesOK, LogsOK, MayAwait, MayBeApproved, MayBeDenied, Carries,
           PendingTokens, ApprovedTokens, DeniedTokens
  <2>2. UNCHANGED <<created, outcomes, settled>>
    BY <1>4 DEF LinkElsewhere
  <2>3. \A i \in created : Undecided(i)' => Undecided(i)
    BY <1>4 DEF LinkElsewhere, Undecided, TypeInv, CacheTypes, Cache
  <2>4. MovesOK'
    BY <1>4, <2>2, <2>3, GoingOnMoves DEF LinkElsewhere, TypeInv
  <2> QED
    BY <2>1, <2>4 DEF SafeInv
<1>5. ASSUME NEW t \in Threads, MoveNext(t) PROVE SafeInv'
  <2>1. (CachesOK /\ LogsOK /\ settled \subseteq created)'
    BY <1>5
       DEF MoveNext, CachesOK, LogsOK, MayAwait, MayBeApproved, MayBeDenied, Carries,
           PendingTokens, ApprovedTokens, DeniedTokens
  <2>2. PICK record \in todo[t] : /\ target' = [target EXCEPT ![t] = record.id]
                                  /\ clone' = [clone EXCEPT ![t] = record.request]
                                  /\ todo' = [todo EXCEPT ![t] = @ \ {record}]
    BY <1>5 DEF MoveNext
  <2>3. record.id \in created /\ record.request \in Request /\ record.request.status # "Pending"
    BY DEF TypeInv, LocalTypes, LocalsOK, Record, MovesOK
  <2>4. Carries(record.id, record.request)' /\ ~Undecided(record.id)'
    BY <1>5 DEF MoveNext, MovesOK, Carries, Undecided
  <2>5. Grows /\ settled' = settled /\ created' = created /\ \A j \in created : Undecided(j)' => Undecided(j)
    BY <1>5 DEF MoveNext, Grows, Undecided
  <2>6. \A u \in Threads : todo'[u] \subseteq todo[u]
    BY <2>2 DEF TypeInv, LocalTypes
  <2>7. MovesOK'
    BY <1>5, <2>2, <2>3, <2>4, <2>5, <2>6, TakingMoves DEF MoveNext
  <2> QED
    BY <2>1, <2>7 DEF SafeInv
<1>6. ASSUME NEW t \in Threads, IoError(t) PROVE SafeInv'
  <2>1. (CachesOK /\ LogsOK /\ settled \subseteq created)'
    BY <1>6
       DEF IoError, CachesOK, LogsOK, MayAwait, MayBeApproved, MayBeDenied, Carries,
           PendingTokens, ApprovedTokens, DeniedTokens
  <2>2. UNCHANGED <<created, outcomes, settled>>
    BY <1>6 DEF IoError
  <2>3. \A i \in created : Undecided(i)' => Undecided(i)
    BY <1>6 DEF IoError, Undecided, TypeInv, CacheTypes, Cache
  <2>4. MovesOK'
    BY <1>6, <2>2, <2>3, GoingOnMoves, ReturningMoves DEF IoError, TypeInv
  <2> QED
    BY <2>1, <2>4 DEF SafeInv
<1>7. ASSUME NEW i \in Ids, TimePasses(i) PROVE SafeInv'
  <2>1. (CachesOK /\ LogsOK /\ settled \subseteq created)'
    BY <1>7
       DEF TimePasses, CachesOK, LogsOK, MayAwait, MayBeApproved, MayBeDenied, Carries,
           PendingTokens, ApprovedTokens, DeniedTokens
  <2>2. MovesOK'
    BY <1>7 DEF TimePasses, MovesOK, Undecided, Carries, Return, GoTo
  <2> QED
    BY <2>1, <2>2 DEF SafeInv
<1>8. ASSUME NEW t \in Threads, AppendRecord(t) PROVE SafeInv'
  <2>1. clone[t] \in Request /\ target[t] \in Ids
    BY <1>8 DEF AppendRecord, TypeInv, LocalsOK, Busy
  <2>2. clone[t] # Absent
    BY <2>1, ConstantsAssumption DEF ConstantsAssumption
  <2> DEFINE r == [id |-> target[t], request |-> clone[t]]
  <2>4. r \in Record
    BY <2>1 DEF Record
  <2>5. clone[t].status = "Pending" => r \in PendingTokens
    BY <1>8, <2>2, <2>4 DEF AppendRecord, MovesOK, PendingTokens, MayAwait
  <2>6. clone[t].status = "Approved" => r \in ApprovedTokens
    BY <2>2, <2>4 DEF MovesOK, ApprovedTokens, MayBeApproved
  <2>7. clone[t].status \notin {"Approved", "Pending"} => r \in DeniedTokens
    BY <2>2, <2>4 DEF MovesOK, DeniedTokens, MayBeDenied
  <2>8. UNCHANGED <<created, outcomes, settled>> /\ Grows
    BY <1>8 DEF AppendRecord, Grows
  <2>9. log' = [log EXCEPT ![FileOf(clone[t])] = Append(@, r)]
    BY <1>8 DEF AppendRecord
  <2>10. log' \in [Files -> Seq(Record \cup {Newline})] /\ log \in [Files -> Seq(Record \cup {Newline})]
    BY DEF TypeInv, LogTypes
  <2>11. /\ log'["pending"] \in Seq(PendingTokens)
         /\ log'["approved"] \in Seq(ApprovedTokens)
         /\ log'["denied"] \in Seq(DeniedTokens)
    BY <2>5, <2>6, <2>7, <2>9, <2>10, FileOfCases DEF Files, LogsOK
  <2>12. LogsOK'
    BY <2>8, <2>11, KeptPending, KeptDecisions, SeqMonotonic DEF LogsOK
  <2>13. (CachesOK /\ settled \subseteq created)'
    BY <1>8 DEF AppendRecord, CachesOK, MayAwait, MayBeApproved, MayBeDenied, Carries
  <2>14. UNCHANGED <<created, outcomes, settled>>
    BY <1>8 DEF AppendRecord
  <2>15. \A i \in created : Undecided(i)' => Undecided(i)
    BY <1>8 DEF AppendRecord, Undecided, TypeInv, CacheTypes, Cache
  <2>16. MovesOK'
    BY <1>8, <2>14, <2>15, GoingOnMoves DEF AppendRecord, TypeInv
  <2> QED
    BY <2>12, <2>13, <2>16 DEF SafeInv
<1>9. ASSUME NEW t \in Threads, AppendNewline(t) PROVE SafeInv'
  <2>1. Newline \in PendingTokens \cap ApprovedTokens \cap DeniedTokens
    BY DEF PendingTokens, ApprovedTokens, DeniedTokens
  <2>2. UNCHANGED <<created, outcomes, settled>> /\ Grows
    BY <1>9 DEF AppendNewline, Grows
  <2>3. log' = [log EXCEPT ![FileOf(clone[t])] = Append(@, Newline)]
    BY <1>9 DEF AppendNewline
  <2>4. /\ log'["pending"] \in Seq(PendingTokens)
        /\ log'["approved"] \in Seq(ApprovedTokens)
        /\ log'["denied"] \in Seq(DeniedTokens)
    BY <2>1, <2>3, FileOfCases DEF Files, LogsOK, TypeInv, LogTypes
  <2>5. LogsOK'
    BY <2>2, <2>4, KeptPending, KeptDecisions, SeqMonotonic DEF LogsOK
  <2>6. (CachesOK /\ settled \subseteq created)'
    BY <1>9 DEF AppendNewline, CachesOK, MayAwait, MayBeApproved, MayBeDenied, Carries
  <2>7. UNCHANGED <<created, outcomes, settled>>
    BY <1>9 DEF AppendNewline
  <2>8. \A i \in created : Undecided(i)' => Undecided(i)
    BY <1>9 DEF AppendNewline, Undecided, TypeInv, CacheTypes, Cache
  <2>9. MovesOK'
    BY <1>9, <2>7, <2>8, GoingOnMoves DEF AppendNewline, TypeInv
  <2> QED
    BY <2>5, <2>6, <2>9 DEF SafeInv
<1>10. ASSUME NEW t \in Threads, LinkPending(t) PROVE SafeInv'
  <2>1. target[t] \in Ids
    BY <1>10 DEF LinkPending, TypeInv, LocalsOK, Busy
  <2>2. \A i \in Ids : pending[i] # Absent => pending[i] \in Request
    BY DEF TypeInv, CacheTypes, Cache
  <2>3. \A i \in Ids : /\ pending'[i] # Absent => /\ pending[i] # Absent
                                                  /\ pending'[i].status = pending[i].status
                                                  /\ pending'[i].decidedAt = pending[i].decidedAt
    BY <1>10, <2>1, <2>2, ChangedRequests DEF LinkPending, TypeInv, CacheTypes, Cache
  <2>4. UNCHANGED <<created, outcomes, settled>> /\ Grows
    BY <1>10 DEF LinkPending, Grows
  <2>5. /\ log'["pending"] \in Seq(PendingTokens)
        /\ log'["approved"] \in Seq(ApprovedTokens)
        /\ log'["denied"] \in Seq(DeniedTokens)
    BY <1>10, EmptySeq DEF LinkPending, LogsOK, TypeInv, LogTypes, Files
  <2>6. LogsOK'
    BY <2>4, <2>5, KeptPending, KeptDecisions, SeqMonotonic DEF LogsOK
  <2>7. (CachesOK /\ settled \subseteq created)'
    BY <1>10, <2>3 DEF LinkPending, CachesOK, MayAwait, MayBeApproved, MayBeDenied, Carries
  <2>8. UNCHANGED <<created, outcomes, settled>>
    BY <1>10 DEF LinkPending
  <2>9. \A i \in created : Undecided(i)' => Undecided(i)
    BY <1>10, <2>3 DEF LinkPending, Undecided, TypeInv, CacheTypes, Cache
  <2>10. MovesOK'
    BY <1>10, <2>8, <2>9, GoingOnMoves, ReturningMoves DEF LinkPending, TypeInv
  <2> QED
    BY <2>6, <2>7, <2>10 DEF SafeInv
<1>11. ASSUME NEW t \in Threads, LinkApproved(t) PROVE SafeInv'
  <2>1. target[t] \in Ids
    BY <1>11 DEF LinkApproved, TypeInv, LocalsOK, Busy
  <2>2. \A i \in Ids : approved[i] # Absent => approved[i] \in Request
    BY DEF TypeInv, CacheTypes, Cache
  <2>3. \A i \in Ids : /\ approved'[i] # Absent => /\ approved[i] # Absent
                                                   /\ approved'[i].status = approved[i].status
                                                   /\ approved'[i].decidedAt = approved[i].decidedAt
    BY <1>11, <2>1, <2>2, ChangedRequests DEF LinkApproved, TypeInv, CacheTypes, Cache
  <2>4. UNCHANGED <<created, outcomes, settled>> /\ Grows
    BY <1>11 DEF LinkApproved, Grows
  <2>5. /\ log'["pending"] \in Seq(PendingTokens)
        /\ log'["approved"] \in Seq(ApprovedTokens)
        /\ log'["denied"] \in Seq(DeniedTokens)
    BY <1>11, EmptySeq DEF LinkApproved, LogsOK, TypeInv, LogTypes, Files
  <2>6. LogsOK'
    BY <2>4, <2>5, KeptPending, KeptDecisions, SeqMonotonic DEF LogsOK
  <2>7. (CachesOK /\ settled \subseteq created)'
    BY <1>11, <2>3 DEF LinkApproved, CachesOK, MayAwait, MayBeApproved, MayBeDenied, Carries
  <2>8. UNCHANGED <<created, outcomes, settled>>
    BY <1>11 DEF LinkApproved
  <2>9. \A i \in created : Undecided(i)' => Undecided(i)
    BY <1>11, <2>3 DEF LinkApproved, Undecided, TypeInv, CacheTypes, Cache
  <2>10. MovesOK'
    BY <1>11, <2>8, <2>9, GoingOnMoves, ReturningMoves DEF LinkApproved, TypeInv
  <2> QED
    BY <2>6, <2>7, <2>10 DEF SafeInv
<1>12. ASSUME NEW t \in Threads, UpdateWithResult(t) PROVE SafeInv'
  <2>1. target[t] \in Ids
    BY <1>12 DEF UpdateWithResult, TypeInv, LocalsOK, Busy
  <2>2. \A i \in Ids : approved[i] # Absent => approved[i] \in Request
    BY DEF TypeInv, CacheTypes, Cache
  <2>3. \A i \in Ids : /\ approved'[i] # Absent => /\ approved[i] # Absent
                                                   /\ approved'[i].status = approved[i].status
                                                   /\ approved'[i].decidedAt = approved[i].decidedAt
    BY <1>12, <2>1, <2>2, ChangedRequests DEF UpdateWithResult, TypeInv, CacheTypes, Cache
  <2>4. UNCHANGED <<created, outcomes, settled>> /\ Grows
    BY <1>12 DEF UpdateWithResult, Grows
  <2>5. /\ log'["pending"] \in Seq(PendingTokens)
        /\ log'["approved"] \in Seq(ApprovedTokens)
        /\ log'["denied"] \in Seq(DeniedTokens)
    BY <1>12, EmptySeq DEF UpdateWithResult, LogsOK, TypeInv, LogTypes, Files
  <2>6. LogsOK'
    BY <2>4, <2>5, KeptPending, KeptDecisions, SeqMonotonic DEF LogsOK
  <2>7. (CachesOK /\ settled \subseteq created)'
    BY <1>12, <2>3
       DEF UpdateWithResult, CachesOK, MayAwait, MayBeApproved, MayBeDenied, Carries
  <2>8. UNCHANGED <<created, outcomes, settled>>
    BY <1>12 DEF UpdateWithResult
  <2>9. \A i \in created : Undecided(i)' => Undecided(i)
    BY <1>12, <2>3 DEF UpdateWithResult, Undecided, TypeInv, CacheTypes, Cache
  <2>10. MovesOK'
    BY <1>12, <2>8, <2>9, GoingOnMoves, ReturningMoves DEF UpdateWithResult, TypeInv
  <2> QED
    BY <2>6, <2>7, <2>10 DEF SafeInv
<1>13. ASSUME NEW t \in Threads, FinishLink(t) PROVE SafeInv'
  <2>1. Overlay(log["pending"], Serialized(pending)) \in Seq(PendingTokens)
    BY CachedTokens, RewriteTokens DEF LogsOK, TypeInv, CacheTypes
  <2>2. UNCHANGED <<created, outcomes, settled>> /\ Grows
    BY <1>13 DEF FinishLink, Grows
  <2>3. /\ log'["pending"] \in Seq(PendingTokens)
        /\ log'["approved"] \in Seq(ApprovedTokens)
        /\ log'["denied"] \in Seq(DeniedTokens)
    BY <1>13, <2>1 DEF FinishLink, LogsOK, TypeInv, LogTypes, Files
  <2>4. LogsOK'
    BY <2>2, <2>3, KeptPending, KeptDecisions, SeqMonotonic DEF LogsOK
  <2>5. (CachesOK /\ settled \subseteq created)'
    BY <1>13 DEF FinishLink, CachesOK, MayAwait, MayBeApproved, MayBeDenied, Carries
  <2>6. UNCHANGED <<created, outcomes, settled>>
    BY <1>13 DEF FinishLink
  <2>7. \A i \in created : Undecided(i)' => Undecided(i)
    BY <1>13 DEF FinishLink, Undecided, TypeInv, CacheTypes, Cache
  <2>8. MovesOK'
    BY <1>13, <2>6, <2>7, ReturningMoves DEF FinishLink, TypeInv
  <2> QED
    BY <2>4, <2>5, <2>8 DEF SafeInv
<1>14. ASSUME NEW t \in Threads, RewritePending(t) PROVE SafeInv'
  <2>1. Overlay(log["pending"], Serialized(pending)) \in Seq(PendingTokens)
    BY CachedTokens, RewriteTokens DEF LogsOK, TypeInv, CacheTypes
  <2>2. UNCHANGED <<created, outcomes, settled>> /\ Grows
    BY <1>14 DEF RewritePending, Grows
  <2>3. /\ log'["pending"] \in Seq(PendingTokens)
        /\ log'["approved"] \in Seq(ApprovedTokens)
        /\ log'["denied"] \in Seq(DeniedTokens)
    BY <1>14, <2>1 DEF RewritePending, LogsOK, TypeInv, LogTypes, Files
  <2>4. LogsOK'
    BY <2>2, <2>3, KeptPending, KeptDecisions, SeqMonotonic DEF LogsOK
  <2>5. (CachesOK /\ settled \subseteq created)'
    BY <1>14 DEF RewritePending, CachesOK, MayAwait, MayBeApproved, MayBeDenied, Carries
  <2>6. UNCHANGED <<created, outcomes, settled>>
    BY <1>14 DEF RewritePending
  <2>7. \A i \in created : Undecided(i)' => Undecided(i)
    BY <1>14 DEF RewritePending, Undecided, TypeInv, CacheTypes, Cache
  <2>8. MovesOK'
    BY <1>14, <2>6, <2>7, GoingOnMoves DEF RewritePending, TypeInv
  <2> QED
    BY <2>4, <2>5, <2>8 DEF SafeInv
<1>15. ASSUME NEW t \in Threads, FinishRewriteApproved(t) PROVE SafeInv'
  <2>1. Overlay(log["approved"], Serialized(approved)) \in Seq(ApprovedTokens)
    BY CachedTokens, RewriteTokens DEF LogsOK, TypeInv, CacheTypes
  <2>2. UNCHANGED <<created, outcomes, settled>> /\ Grows
    BY <1>15 DEF FinishRewriteApproved, Grows
  <2>3. /\ log'["pending"] \in Seq(PendingTokens)
        /\ log'["approved"] \in Seq(ApprovedTokens)
        /\ log'["denied"] \in Seq(DeniedTokens)
    BY <1>15, <2>1 DEF FinishRewriteApproved, LogsOK, TypeInv, LogTypes, Files
  <2>4. LogsOK'
    BY <2>2, <2>3, KeptPending, KeptDecisions, SeqMonotonic DEF LogsOK
  <2>5. (CachesOK /\ settled \subseteq created)'
    BY <1>15
       DEF FinishRewriteApproved, CachesOK, MayAwait, MayBeApproved, MayBeDenied, Carries
  <2>6. UNCHANGED <<created, outcomes, settled>>
    BY <1>15 DEF FinishRewriteApproved
  <2>7. \A i \in created : Undecided(i)' => Undecided(i)
    BY <1>15 DEF FinishRewriteApproved, Undecided, TypeInv, CacheTypes, Cache
  <2>8. MovesOK'
    BY <1>15, <2>6, <2>7, ReturningMoves DEF FinishRewriteApproved, TypeInv
  <2> QED
    BY <2>4, <2>5, <2>8 DEF SafeInv
<1>16. ASSUME NEW t \in Threads, InsertDenied(t) PROVE SafeInv'
  <2>1. clone[t] \in Request /\ clone[t] # Absent /\ target[t] \in Ids
    BY <1>16, ConstantsAssumption
       DEF ConstantsAssumption, InsertDenied, TypeInv, LocalsOK, Busy
  <2>2. MayBeDenied(target[t], clone[t])
    BY <1>16, <2>1 DEF InsertDenied, MovesOK, MayBeDenied, TypeInv, LocalsOK, Moving
  <2>3. \A i \in Ids : denied'[i] # Absent =>
               denied'[i] = IF i = target[t] THEN clone[t] ELSE denied[i]
    BY <1>16, <2>1 DEF InsertDenied, Without, TypeInv, CacheTypes, Cache
  <2>4. UNCHANGED <<created, outcomes, settled, log, pending>> /\ Grows
    BY <1>16 DEF InsertDenied, Grows
  <2>5. LogsOK'
    BY <2>4, KeptLogs
  <2>6. (CachesOK /\ settled \subseteq created)'
    BY <1>16, <2>2, <2>3, <2>4
       DEF InsertDenied, CachesOK, MayAwait, MayBeApproved, MayBeDenied, Carries
  <2>7. UNCHANGED <<created, outcomes, settled>>
    BY <1>16 DEF InsertDenied
  <2>8. \A i \in created : Undecided(i)' => Undecided(i)
    BY <1>16 DEF InsertDenied, Undecided, TypeInv, CacheTypes, Cache
  <2>9. MovesOK'
    BY <1>16, <2>7, <2>8, GoingOnMoves DEF InsertDenied, TypeInv, LocalsOK, Moving
  <2> QED
    BY <2>5, <2>6, <2>9 DEF SafeInv
<1>17. ASSUME NEW t \in Threads, InsertApproved(t) PROVE SafeInv'
  <2>1. clone[t] \in Request /\ clone[t] # Absent /\ target[t] \in Ids
    BY <1>17, ConstantsAssumption
       DEF ConstantsAssumption, InsertApproved, TypeInv, LocalsOK, Busy
  <2>2. MayBeApproved(target[t], clone[t])
    BY <1>17, <2>1 DEF InsertApproved, MovesOK, MayBeApproved, TypeInv, LocalsOK, Moving
  <2>3. \A i \in Ids : approved'[i] # Absent =>
               approved'[i] = IF i = target[t] THEN clone[t] ELSE approved[i]
    BY <1>17, <2>1 DEF InsertApproved, Without, TypeInv, CacheTypes, Cache
  <2>4. UNCHANGED <<created, outcomes, settled, log, pending>> /\ Grows
    BY <1>17 DEF InsertApproved, Grows
  <2>5. LogsOK'
    BY <2>4, KeptLogs
  <2>6. (CachesOK /\ settled \subseteq created)'
    BY <1>17, <2>2, <2>3, <2>4
       DEF InsertApproved, CachesOK, MayAwait, MayBeApproved, MayBeDenied, Carries
  <2>7. UNCHANGED <<created, outcomes, settled>>
    BY <1>17 DEF InsertApproved
  <2>8. \A i \in created : Undecided(i)' => Undecided(i)
    BY <1>17 DEF InsertApproved, Undecided, TypeInv, CacheTypes, Cache
  <2>9. MovesOK'
    BY <1>17, <2>7, <2>8, GoingOnMoves DEF InsertApproved, TypeInv, LocalsOK, Moving
  <2> QED
    BY <2>5, <2>6, <2>9 DEF SafeInv
<1>18. ASSUME NEW t \in Threads, Clear(t) PROVE SafeInv'
  <2>1. clone[t] \in Request /\ clone[t] # Absent /\ target[t] \in Ids /\ clone[t].status # "Pending"
    BY <1>18, ConstantsAssumption
       DEF ConstantsAssumption, Clear, TypeInv, LocalsOK, Busy, Moving
  <2>2. target[t] \in created /\ ~Undecided(target[t])
    BY <2>1 DEF MovesOK
  <2>3. (settled \subseteq created)'
    BY <1>18, <2>2 DEF Clear
  <2>4. CachesOK'
    BY <1>18, <2>2
       DEF Clear, CachesOK, MayAwait, MayBeApproved, MayBeDenied, Carries, Undecided
  <2>5. UNCHANGED <<created, outcomes>> /\ Grows
    BY <1>18 DEF Clear, Grows
  <2>6. log'["pending"] = <<>> /\ log'["approved"] = log["approved"] /\ log'["denied"] = log["denied"]
    BY <1>18 DEF Clear, TypeInv, LogTypes, Files
  <2>7. LogsOK'
    BY <2>5, <2>6, KeptDecisions, SeqMonotonic, EmptySeq DEF LogsOK
  <2>8. MovesOK'
    BY <1>18 DEF Clear, MovesOK, Undecided, Carries, StillStoring, Return, GoTo
  <2> QED
    BY <2>3, <2>4, <2>7, <2>8 DEF SafeInv
<1>19. ASSUME NEW t \in Threads, NEW i \in Ids, StorePending(t, i) PROVE SafeInv'
  <2>1. NewRequest \in Request /\ NewRequest.status = "Pending"
    BY DEF NewRequest, Request, Status, Outcomes
  <2>2. UNCHANGED <<outcomes, settled, log>> /\ Grows
    BY <1>19 DEF StorePending, Grows
  <2>3. LogsOK'
    BY <2>2, KeptLogs
  <2>4. i \in created' /\ i \notin settled'
    BY <1>19 DEF StorePending
  <2>5. CachesOK'
    BY <1>19, <2>1, <2>4
       DEF StorePending, CachesOK, MayAwait, MayBeApproved, MayBeDenied, Carries, TypeInv,
           CacheTypes, Cache
  <2>6. (settled \subseteq created)'
    BY <1>19 DEF StorePending
  <2>7. \A j \in created : Undecided(j)' <=> Undecided(j)
    BY <1>19 DEF StorePending, Undecided, TypeInv, CacheTypes, Cache
  <2>8. MovesOK'
    BY <1>19, <2>1, <2>4, <2>7
       DEF StorePending, MovesOK, Carries, TypeInv, LocalTypes, Record
  <2> QED
    BY <2>3, <2>5, <2>6, <2>8 DEF SafeInv
<1>20. ASSUME NEW t \in Threads, NEW i \in Ids, Approve(t, i) \/ Reject(t, i) \/ Cancel(t, i) PROVE SafeInv'
  <2>1. PICK outcome \in Outcomes : TakeOut(t, i, outcome)
    BY <1>20 DEF Approve, Reject, Cancel, Outcomes
  <2>2. pending[i] \in Request /\ pending[i] # Absent
    BY <1>20 DEF Approve, Reject, Cancel, TypeInv, CacheTypes, Cache
  <2> DEFINE decided == Decided(pending[i], outcome)
  <2>4. PICK r \in Request : r = decided /\ r.status = outcome /\ r.decidedAt = clock + 1
    BY <2>2, ChangedRequests DEF TypeInv, HistoryTypes
  <2>5. Carries(i, r)' /\ r.status # "Pending"
    BY <2>1, <2>4, NotedDecision DEF TakeOut, Outcomes
  <2>6. UNCHANGED <<created, settled, log>> /\ Grows
    BY <2>1, NotedDecision DEF TakeOut, Grows
  <2>7. LogsOK'
    BY <2>6, KeptLogs
  <2>8. \A j \in Ids : pending'[j] # Absent => pending'[j] = pending[j]
    BY <2>1 DEF TakeOut, TypeInv, CacheTypes, Cache
  <2>9. CachesOK'
    BY <2>1, <2>6, <2>8, KeptPending, KeptDecisions
       DEF TakeOut, CachesOK, TypeInv, CacheTypes, Cache
  <2>10. i \in created /\ ~Undecided(i)'
    BY <2>1, <2>2 DEF CachesOK, MayAwait, TakeOut, Undecided, TypeInv, CacheTypes, Cache
  <2>11. \A j \in Ids : Undecided(j)' => Undecided(j)
    BY <2>8 DEF Undecided
  <2>12. MovesOK'
    BY <2>1, <2>4, <2>5, <2>6, <2>10, <2>11, TakingMoves DEF TakeOut, TypeInv, HistoryTypes
  <2>13. (settled \subseteq created)'
    BY <2>6
  <2> QED
    BY <2>7, <2>9, <2>12, <2>13 DEF SafeInv
<1>21. ASSUME NEW t \in Threads, NEW i \in Ids, GetOverdue(t, i) PROVE SafeInv'
  <2>1. pending[i] \in Request /\ pending[i] # Absent /\ "Expired" \in Outcomes
    BY <1>21 DEF GetOverdue, TypeInv, CacheTypes, Cache, Outcomes
  <2> DEFINE decided == Decided(pending[i], "Expired")
  <2>3. PICK r \in Request : r = decided /\ r.status = "Expired" /\ r.decidedAt = clock + 1
    BY <2>1, ChangedRequests DEF TypeInv, HistoryTypes
  <2>4. Carries(i, r)'
    BY <1>21, <2>1, <2>3, NotedDecision DEF GetOverdue
  <2>5. UNCHANGED <<created, settled, log>> /\ Grows
    BY <1>21, <2>1, NotedDecision DEF GetOverdue, Grows
  <2>6. LogsOK'
    BY <2>5, KeptLogs
  <2>7. \A j \in Ids : pending'[j] = IF j = i THEN r ELSE pending[j]
    BY <1>21, <2>3 DEF GetOverdue, TypeInv, CacheTypes, Cache
  <2>8. i \in created
    BY <2>1 DEF CachesOK, MayAwait
  <2>9. CachesOK'
    BY <1>21, <2>3, <2>4, <2>5, <2>7, <2>8, KeptPending, KeptDecisions
       DEF GetOverdue, CachesOK, MayAwait, TypeInv, CacheTypes, Cache
  <2>10. \A j \in Ids : Undecided(j)' => Undecided(j) /\ j # i
    BY <2>3, <2>7 DEF Undecided
  <2>11. MovesOK'
    BY <1>21, <2>3, <2>4, <2>5, <2>8, <2>10, TakingMoves
       DEF GetOverdue, TypeInv, HistoryTypes
  <2>12. (settled \subseteq created)'
    BY <2>5
  <2> QED
    BY <2>6, <2>9, <2>11, <2>12 DEF SafeInv
<1>22. ASSUME NEW t \in Threads, ListPending(t) PROVE SafeInv'
  <2> DEFINE overdue == {i \in expired : pending[i] # Absent /\ pending[i].status = "Pending"}
             moves == {[id |-> i, request |-> Decided(pending[i], "Expired")] : i \in overdue}
  <2>2. overdue \subseteq created /\ overdue \subseteq Ids /\ "Expired" \in Outcomes
    BY DEF TypeInv, HistoryTypes, Outcomes
  <2>3. \A i \in overdue : /\ Decided(pending[i], "Expired") \in Request
                           /\ Decided(pending[i], "Expired").status = "Expired"
                           /\ Decided(pending[i], "Expired").decidedAt = clock + 1
    BY <2>2, ChangedRequests DEF TypeInv, HistoryTypes, CacheTypes, Cache
  <2>4. Note(overdue, "Expired") /\ UNCHANGED <<created, settled, log, approved, denied, clone, target>>
    BY <1>22 DEF ListPending
  <2>5. Grows
    BY <2>2, <2>4, NotedDecision DEF Grows
  <2>6. \A record \in moves : /\ record.id \in overdue
                              /\ record.request \in Request
                              /\ record.request.status = "Expired"
                              /\ record.request.decidedAt = clock + 1
    BY <2>3
  <2>7. \A record \in moves : record.id \in overdue /\ Carries(record.id, record.request)'
    BY <2>2, <2>4, <2>6, NotedDecision
  <2>8. LogsOK'
    BY <2>4, <2>5, KeptLogs
  <2>9. \A j \in Ids : pending'[j] = IF j \in overdue THEN Absent ELSE pending[j]
    BY <1>22 DEF ListPending, Without
  <2>10. CachesOK'
    BY <2>4, <2>5, <2>9, KeptPending, KeptDecisions DEF CachesOK, TypeInv, CacheTypes, Cache
  <2>11. \A j \in Ids : Undecided(j)' => Undecided(j) /\ j \notin overdue
    BY <2>9 DEF Undecided
  <2>12. pc' = [pc EXCEPT ![t] = "moved"] /\ todo' = [todo EXCEPT ![t] = moves]
    BY <1>22 DEF ListPending
  <2>13. MovesOK'
    BY <2>2, <2>4, <2>5, <2>7, <2>11, <2>12
       DEF MovesOK, Carries, TypeInv, LocalTypes, HistoryTypes, Record, Grows
  <2>14. (settled \subseteq created)'
    BY <2>4
  <2> QED
    BY <2>8, <2>10, <2>13, <2>14 DEF SafeInv
<1>23. ASSUME Restart PROVE SafeInv'
  <2>1. UNCHANGED <<created, outcomes, settled, log>> /\ Grows
    BY <1>23 DEF Restart, Grows
  <2>2. LogsOK'
    BY <2>1, KeptLogs
  <2>3. \A f \in Files : log[f] \in Seq(Record \cup {Newline})
    BY DEF TypeInv, LogTypes
  <2>4. \A i \in Ids : LoadFromFile(log["pending"])[i] # Absent => MayAwait(i, LoadFromFile(log["pending"])[i])
    BY <2>3, LoadedRequests, ElementOfSeq, LenProperties, ConstantsAssumption
       DEF LogsOK, PendingTokens, Files, ConstantsAssumption
  <2>5. \A i \in Ids : LoadFromFile(log["approved"])[i] # Absent => MayBeApproved(i, LoadFromFile(log["approved"])[i])
    BY <2>3, LoadedRequests, ElementOfSeq, LenProperties, ConstantsAssumption
       DEF LogsOK, ApprovedTokens, Files, ConstantsAssumption
  <2>6. \A i \in Ids : LoadFromFile(log["denied"])[i] # Absent => MayBeDenied(i, LoadFromFile(log["denied"])[i])
    BY <2>3, LoadedRequests, ElementOfSeq, LenProperties, ConstantsAssumption
       DEF LogsOK, DeniedTokens, Files, ConstantsAssumption
  <2>7. CachesOK'
    BY <1>23, <2>1, <2>4, <2>5, <2>6
       DEF Restart, CachesOK, MayAwait, MayBeApproved, MayBeDenied, Carries
  <2>8. MovesOK'
    BY <1>23 DEF Restart, MovesOK
  <2>9. (settled \subseteq created)'
    BY <2>1
  <2> QED
    BY <2>2, <2>7, <2>8, <2>9 DEF SafeInv
<1>24. ASSUME NEW cutoff \in 1 .. clock, Cleanup(cutoff) PROVE SafeInv'
  <2>1. UNCHANGED <<created, outcomes, settled, log, pending>> /\ Grows
    BY <1>24 DEF Cleanup, Grows
  <2>2. LogsOK'
    BY <2>1, KeptLogs
  <2>3. \A i \in Ids : /\ approved'[i] # Absent => approved'[i] = approved[i]
                       /\ denied'[i] # Absent => denied'[i] = denied[i]
    BY <1>24 DEF Cleanup, Without
  <2>4. \A i \in Ids : pending'[i] # Absent => MayAwait(i, pending[i])'
    BY <2>1 DEF CachesOK, MayAwait, Carries
  <2>5. ASSUME NEW i \in Ids, approved'[i] # Absent PROVE MayBeApproved(i, approved[i])'
    <3>1. approved'[i] = approved[i] /\ MayBeApproved(i, approved[i])
      BY <2>3, <2>5 DEF CachesOK
    <3> QED
      BY <2>1, <3>1 DEF MayBeApproved, Carries
  <2>6. ASSUME NEW i \in Ids, denied'[i] # Absent PROVE MayBeDenied(i, denied[i])'
    <3>1. denied'[i] = denied[i] /\ MayBeDenied(i, denied[i])
      BY <2>3, <2>6 DEF CachesOK
    <3> QED
      BY <2>1, <3>1 DEF MayBeDenied, Carries
  <2>7. CachesOK'
    BY <2>4, <2>5, <2>6 DEF CachesOK
  <2>8. MovesOK'
    BY <1>24 DEF Cleanup, MovesOK, Carries, Undecided
  <2>9. (settled \subseteq created)'
    BY <2>1
  <2> QED
    BY <2>2, <2>7, <2>8, <2>9 DEF SafeInv
<1>25. CASE UNCHANGED vars
  <2>1. (CachesOK /\ LogsOK /\ settled \subseteq created)'
    BY <1>25
       DEF vars, CachesOK, LogsOK, MayAwait, MayBeApproved, MayBeDenied, Carries,
           PendingTokens, ApprovedTokens, DeniedTokens
  <2>2. MovesOK'
    BY <1>25 DEF vars, MovesOK, Undecided, Carries, Return, GoTo
  <2> QED
    BY <2>1, <2>2 DEF SafeInv
<1> QED
  BY <1>1, <1>2, <1>3, <1>4, <1>5, <1>6, <1>7, <1>8, <1>9, <1>10, <1>11, <1>12, <1>13,
     <1>14, <1>15, <1>16, <1>17, <1>18, <1>19, <1>20, <1>21, <1>22, <1>23, <1>24, <1>25
     DEF FaultyNext, Next, Call, Continue

\* SafeInv holds of the empty store.
LEMMA SafeInit == Init => SafeInv
BY EmptySeq DEF Init, SafeInv, CachesOK, LogsOK, MovesOK, Files

\* The two invariants together are inductive, faults included.
LEMMA Safety == FaultySpec => [](TypeInv /\ SafeInv)
<1>1. TypeInv /\ SafeInv /\ [FaultyNext]_vars => (TypeInv /\ SafeInv)'
  BY TypeStep, SafeStep
<1> QED
  BY <1>1, TypeInit, SafeInit, PTL DEF FaultySpec

\* Every decision that a cache or a file holds was taken on that request, and
\* approved.log holds approvals only, whatever faults occur.
THEOREM NothingInvented == FaultySpec => []NoInventedDecision
<1>1. TypeInv /\ SafeInv => NoInventedDecision
  <2> SUFFICES ASSUME TypeInv, SafeInv PROVE NoInventedDecision
    OBVIOUS
  <2>1. \A i \in Ids :
           /\ approved[i] # Absent => approved[i].status = "Approved" /\ Carries(i, approved[i])
           /\ denied[i] # Absent => denied[i].status # "Approved" /\ Carries(i, denied[i])
    BY DEF SafeInv, CachesOK, MayBeApproved, MayBeDenied
  <2>2. \A n \in DOMAIN log["pending"] : log["pending"][n] \in PendingTokens
    BY LenProperties, ElementOfSeq DEF SafeInv, LogsOK
  <2>3. \A n \in DOMAIN log["approved"] : log["approved"][n] \in ApprovedTokens
    BY LenProperties, ElementOfSeq DEF SafeInv, LogsOK
  <2>4. \A n \in DOMAIN log["denied"] : log["denied"][n] \in DeniedTokens
    BY LenProperties, ElementOfSeq DEF SafeInv, LogsOK
  <2> QED
    BY <2>1, <2>2, <2>3, <2>4
       DEF NoInventedDecision, PendingTokens, ApprovedTokens, DeniedTokens, MayAwait,
           MayBeApproved, MayBeDenied, Files
<1> QED
  BY <1>1, Safety, PTL

\* A decided request that was cleared from pending.log after its own store had
\* finished never awaits a decision again, through any number of restarts.
THEOREM NothingResurrected == FaultySpec => []NoResurrection
<1>1. TypeInv /\ SafeInv => NoResurrection
  BY DEF TypeInv, HistoryTypes, SafeInv, CachesOK, MayAwait, NoResurrection
<1> QED
  BY <1>1, Safety, PTL
(***************************************************************************)
(* Without faults: one decision per request, and the abstract lifecycle.   *)
(***************************************************************************)

MarkedExpired(i) == pending[i] # Absent /\ pending[i].status = "Expired"

\* What a request that is still in the pending cache says of its history.
OnceInv ==
    /\ DecidedAtMostOnce
    /\ \A i \in Ids :
          /\ Undecided(i) => outcomes[i] = {}
          /\ MarkedExpired(i) => \A d \in outcomes[i] : d.status = "Expired"
          /\ i \notin created => outcomes[i] = {}
\* A step that decides and creates nothing, ...
Quiet ==
    /\ UNCHANGED <<created, outcomes>>
    /\ \A i \in Ids : /\ Undecided(i)' => Undecided(i)
                      /\ MarkedExpired(i)' => MarkedExpired(i)

\* ... one that creates request i, ...
Creates(i) ==
    /\ i \notin created
    /\ created' = created \cup {i}
    /\ UNCHANGED outcomes
    /\ \A j \in Ids : /\ Undecided(j)' => Undecided(j) \/ j = i
                      /\ MarkedExpired(j)' => MarkedExpired(j)

\* ... and one that decides the requests of S.
Decides(S, outcome) ==
    /\ S \subseteq created
    /\ UNCHANGED created
    /\ Note(S, outcome)
    /\ \A i \in S : /\ ~Undecided(i)'
                    /\ MarkedExpired(i)' => outcome = "Expired"
                    /\ Undecided(i) \/ (MarkedExpired(i) /\ outcome = "Expired")
    /\ \A i \in Ids \ S : /\ Undecided(i)' => Undecided(i)
                          /\ MarkedExpired(i)' => MarkedExpired(i)

\* Every step is one of the three, and a decision is taken on one request or is
\* the expiry of several that were undecided.
LEMMA ThreeKinds ==
    ASSUME TypeInv, SafeInv, [Next]_vars
    PROVE  \/ Quiet
           \/ \E i \in Ids : Creates(i)
           \/ \E i \in Ids, outcome \in Outcomes : Decides({i}, outcome)
           \/ \E S \in SUBSET Ids : Decides(S, "Expired") /\ \A i \in S : Undecided(i)
<1> USE DEF caches, local, faults, history
<1> DEFINE Goal == \/ Quiet
                   \/ \E i \in Ids : Creates(i)
                   \/ \E i \in Ids, outcome \in Outcomes : Decides({i}, outcome)
                   \/ \E S \in SUBSET Ids : Decides(S, "Expired") /\ \A i \in S : Undecided(i)
<1>1. \A i \in Ids : pending[i] # Absent => pending[i] \in Request /\ i \in created
  BY DEF TypeInv, CacheTypes, Cache, SafeInv, CachesOK, MayAwait
<1>2. ASSUME NEW t \in Threads, LinkPending(t) PROVE Quiet
  <2>1. target[t] \in Ids
    BY <1>2 DEF LinkPending, TypeInv, LocalsOK, Busy
  <2>2. \A i \in Ids : pending'[i] # Absent => /\ pending[i] # Absent
                                               /\ pending'[i].status = pending[i].status
    BY <1>1, <1>2, <2>1, ChangedRequests DEF LinkPending, TypeInv, CacheTypes, Cache
  <2> QED
    BY <1>2, <2>2 DEF LinkPending, Quiet, Undecided, MarkedExpired
<1>3. ASSUME NEW t \in Threads, AppendRecord(t) PROVE Quiet
  BY <1>3 DEF AppendRecord, Quiet, Undecided, MarkedExpired
<1>4. ASSUME NEW t \in Threads, AppendNewline(t) PROVE Quiet
  BY <1>4 DEF AppendNewline, Quiet, Undecided, MarkedExpired
<1>5. ASSUME NEW t \in Threads, SkipAuditIds(t) PROVE Quiet
  BY <1>5 DEF SkipAuditIds, Quiet, Undecided, MarkedExpired
<1>6. ASSUME NEW t \in Threads, LinkElsewhere(t) PROVE Quiet
  BY <1>6 DEF LinkElsewhere, Quiet, Undecided, MarkedExpired
<1>7. ASSUME NEW t \in Threads, LinkApproved(t) PROVE Quiet
  BY <1>7 DEF LinkApproved, Quiet, Undecided, MarkedExpired
<1>8. ASSUME NEW t \in Threads, LinkNowhere(t) PROVE Quiet
  BY <1>8 DEF LinkNowhere, Quiet, Undecided, MarkedExpired
<1>9. ASSUME NEW t \in Threads, FinishLink(t) PROVE Quiet
  BY <1>9 DEF FinishLink, Quiet, Undecided, MarkedExpired
<1>10. ASSUME NEW t \in Threads, FinishRewriteApproved(t) PROVE Quiet
  BY <1>10 DEF FinishRewriteApproved, Quiet, Undecided, MarkedExpired
<1>11. ASSUME NEW t \in Threads, InsertDenied(t) PROVE Quiet
  BY <1>11 DEF InsertDenied, Quiet, Undecided, MarkedExpired
<1>12. ASSUME NEW t \in Threads, InsertApproved(t) PROVE Quiet
  BY <1>12 DEF InsertApproved, Quiet, Undecided, MarkedExpired
<1>13. ASSUME NEW t \in Threads, Clear(t) PROVE Quiet
  BY <1>13 DEF Clear, Quiet, Undecided, MarkedExpired
<1>14. ASSUME NEW t \in Threads, RewritePending(t) PROVE Quiet
  BY <1>14 DEF RewritePending, Quiet, Undecided, MarkedExpired
<1>15. ASSUME NEW t \in Threads, MoveNext(t) PROVE Quiet
  BY <1>15 DEF MoveNext, Quiet, Undecided, MarkedExpired
<1>16. ASSUME NEW t \in Threads, ReturnMoved(t) PROVE Quiet
  BY <1>16 DEF ReturnMoved, Quiet, Undecided, MarkedExpired
<1>17. ASSUME NEW t \in Threads, UpdateWithResult(t) PROVE Quiet
  BY <1>17 DEF UpdateWithResult, Quiet, Undecided, MarkedExpired
<1>18. ASSUME NEW i \in Ids, TimePasses(i) PROVE Quiet
  BY <1>18 DEF TimePasses, Quiet, Undecided, MarkedExpired
<1>19. CASE UNCHANGED vars
  BY <1>19 DEF vars, Quiet, Undecided, MarkedExpired
<1>20. ASSUME NEW t \in Threads, NEW i \in Ids, StorePending(t, i) PROVE Creates(i)
  <2>1. NewRequest.status = "Pending"
    BY DEF NewRequest
  <2>2. \A j \in Ids : pending'[j] = IF j = i THEN NewRequest ELSE pending[j]
    BY <1>20 DEF StorePending, TypeInv, CacheTypes, Cache
  <2> QED
    BY <1>20, <2>1, <2>2 DEF StorePending, Creates, Undecided, MarkedExpired
<1>21. ASSUME NEW t \in Threads, NEW i \in Ids, Approve(t, i) \/ Reject(t, i) PROVE Goal
  <2>1. PICK outcome \in Outcomes : /\ TakeOut(t, i, outcome)
                                    /\ pending[i].status = "Pending" \/ outcome = "Expired"
    BY <1>21 DEF Approve, Reject, Outcomes
  <2>2. pending[i] # Absent /\ i \in created
    BY <1>1, <1>21 DEF Approve, Reject
  <2>3. Undecided(i) \/ MarkedExpired(i)
    BY <2>2 DEF Undecided, MarkedExpired, SafeInv, CachesOK, MayAwait
  <2>4. \A j \in Ids : pending'[j] = IF j = i THEN Absent ELSE pending[j]
    <3>1. pending' = [pending EXCEPT ![i] = Absent]
      BY <2>1 DEF TakeOut
    <3> QED
      BY <3>1 DEF TypeInv, CacheTypes, Cache
  <2>5. Note({i}, outcome) /\ UNCHANGED created
    BY <2>1 DEF TakeOut
  <2>6. Undecided(i) \/ (MarkedExpired(i) /\ outcome = "Expired")
    BY <2>1, <2>2, <2>3 DEF MarkedExpired, Undecided
  <2>7. Decides({i}, outcome)
    BY <2>2, <2>4, <2>5, <2>6 DEF Decides, Undecided, MarkedExpired
  <2> QED
    BY <2>7
<1>22. ASSUME NEW t \in Threads, NEW i \in Ids, GetOverdue(t, i) PROVE Goal
  <2>1. "Expired" \in Outcomes /\ pending[i] \in Request /\ i \in created /\ Undecided(i)
    BY <1>1, <1>22 DEF Outcomes, GetOverdue, Undecided
  <2>2. Decided(pending[i], "Expired").status = "Expired"
    BY <2>1, ChangedRequests DEF TypeInv, HistoryTypes
  <2>3. \A j \in Ids : pending'[j] = IF j = i THEN Decided(pending[i], "Expired") ELSE pending[j]
    BY <1>22 DEF GetOverdue, TypeInv, CacheTypes, Cache
  <2>4. Decides({i}, "Expired")
    BY <1>22, <2>1, <2>2, <2>3 DEF GetOverdue, Decides, Undecided, MarkedExpired
  <2> QED
    BY <2>1, <2>4
<1>23. ASSUME NEW t \in Threads, ListPending(t) PROVE Goal
  <2> DEFINE S == {i \in expired : pending[i] # Absent /\ pending[i].status = "Pending"}
  <2>1. S \subseteq created /\ S \subseteq Ids /\ \A i \in S : Undecided(i)
    BY DEF Undecided, TypeInv, HistoryTypes
  <2>2. Note(S, "Expired") /\ UNCHANGED created
    BY <1>23 DEF ListPending
  <2>3. \A j \in Ids : pending'[j] = IF j \in S THEN Absent ELSE pending[j]
    BY <1>23 DEF ListPending, Without
  <2>4. Decides(S, "Expired")
    BY <2>1, <2>2, <2>3 DEF Decides, Undecided, MarkedExpired
  <2> QED
    BY <2>1, <2>4
<1> QED
  BY <1>2, <1>3, <1>4, <1>5, <1>6, <1>7, <1>8, <1>9, <1>10, <1>11, <1>12, <1>13, <1>14,
     <1>15, <1>16, <1>17, <1>18, <1>19, <1>20, <1>21, <1>22, <1>23
     DEF Next, Call, Continue

\* No operation decides a request twice.
LEMMA OnceStep ==
    ASSUME TypeInv, TypeInv', OnceInv, SafeInv, [Next]_vars
    PROVE  OnceInv'
<1> USE DEF OnceInv, DecidedAtMostOnce
<1>1. CASE Quiet
  BY <1>1 DEF Quiet
<1>2. ASSUME NEW i \in Ids, Creates(i) PROVE OnceInv'
  BY <1>2 DEF Creates
<1>3. ASSUME NEW S \in SUBSET Ids, NEW outcome \in Outcomes, Decides(S, outcome) PROVE OnceInv'
  <2>1. \A i \in S : /\ outcomes'[i] = outcomes[i] \cup {[status |-> outcome, at |-> clock + 1]}
                     /\ outcomes[i] = {} \/ outcome = "Expired"
                     /\ \A d \in outcomes[i] : d.status = "Expired"
    BY <1>3 DEF Decides, Note
  <2>2. \A i \in Ids \ S : outcomes'[i] = outcomes[i]
    BY <1>3 DEF Decides, Note
  <2>3. \A i \in S : \A d \in outcomes'[i] : d.status = outcome
    BY <2>1
  <2>4. DecidedAtMostOnce'
    BY <2>1, <2>2, <2>3
  <2> QED
    BY <1>3, <2>2, <2>3, <2>4 DEF Decides
<1> QED
  BY <1>1, <1>2, <1>3, ThreeKinds DEF Outcomes

\* The three invariants hold in every behaviour without faults.
LEMMA Once == Spec => [](TypeInv /\ SafeInv /\ OnceInv)
<1>1. Init => OnceInv
  BY DEF Init, OnceInv, DecidedAtMostOnce, Undecided, MarkedExpired
<1>2. [Next]_vars => [FaultyNext]_vars
  BY DEF FaultyNext
<1>3. TypeInv /\ SafeInv /\ OnceInv /\ [Next]_vars => (TypeInv /\ SafeInv /\ OnceInv)'
  BY <1>2, TypeStep, SafeStep, OnceStep
<1> QED
  BY <1>1, <1>3, TypeInit, SafeInit, PTL DEF Spec

\* However the calls interleave, a request receives one decision, except that
\* an overdue request may be expired more than once.
THEOREM OneDecision == Spec => []DecidedAtMostOnce
<1>1. OnceInv => DecidedAtMostOnce
  BY DEF OnceInv
<1> QED
  BY <1>1, Once, PTL

\* The three caches never contradict each other.
THEOREM CachesConsistent == Spec => []CachesAgree
<1>1. TypeInv /\ SafeInv /\ OnceInv => CachesAgree
  <2> SUFFICES ASSUME TypeInv, SafeInv, OnceInv, NEW i \in Ids
               PROVE  /\ pending[i] # Absent =>
                            \/ pending[i].status = "Pending" /\ outcomes[i] = {}
                            \/ pending[i].status = "Expired" /\ Carries(i, pending[i])
                      /\ approved[i] # Absent => approved[i].status = "Approved" /\ Carries(i, approved[i])
                      /\ denied[i] # Absent => denied[i].status # "Approved" /\ Carries(i, denied[i])
                      /\ approved[i] = Absent \/ denied[i] = Absent
    BY DEF CachesAgree
  <2>1. pending[i] # Absent => MayAwait(i, pending[i])
    BY DEF SafeInv, CachesOK
  <2>2. approved[i] # Absent => MayBeApproved(i, approved[i])
    BY DEF SafeInv, CachesOK
  <2>3. denied[i] # Absent => MayBeDenied(i, denied[i])
    BY DEF SafeInv, CachesOK
  <2>4. approved[i] = Absent \/ denied[i] = Absent
    BY <2>2, <2>3 DEF MayBeApproved, MayBeDenied, Carries, OnceInv, DecidedAtMostOnce
  <2> QED
    BY <2>1, <2>2, <2>3, <2>4 DEF MayAwait, MayBeApproved, MayBeDenied, OnceInv, Undecided
<1> QED
  BY <1>1, Once, PTL

\* The store with its locks, caches and files implements the lifecycle of one
\* status per request.
THEOREM Implementation == Spec => ImplementsLifecycle
<1>1. Init => Lifecycle!Init
  BY DEF Init, StatusOf, Lifecycle!Init
<1>2. TypeInv /\ SafeInv /\ OnceInv /\ OnceInv' /\ [Next]_vars => [Lifecycle!Next]_StatusOf
  <2> SUFFICES ASSUME TypeInv, SafeInv, OnceInv, OnceInv', [Next]_vars
               PROVE  [Lifecycle!Next]_StatusOf
    OBVIOUS
  <2>0. StatusOf = [i \in Ids |-> StatusOf[i]] /\ StatusOf' = [i \in Ids |-> StatusOf'[i]]
    BY DEF StatusOf
  <2>1. CASE Quiet
    BY <2>1 DEF Quiet, StatusOf
  <2>2. ASSUME NEW i \in Ids, Creates(i) PROVE Lifecycle!Create(i)
    <3>1. StatusOf[i] = "Unknown"
      BY <2>2 DEF Creates, StatusOf
    <3>2. outcomes[i] = {}
      BY <2>2 DEF Creates, OnceInv
    <3>3. \A j \in Ids : StatusOf'[j] = IF j = i THEN "Pending" ELSE StatusOf[j]
      BY <2>2, <3>2 DEF Creates, StatusOf
    <3>4. StatusOf' = [StatusOf EXCEPT ![i] = "Pending"]
      BY <2>0, <3>3
    <3> QED
      BY <3>1, <3>4 DEF Lifecycle!Create
  <2>3. ASSUME NEW S \in SUBSET Ids, NEW outcome \in Outcomes, Decides(S, outcome)
        PROVE  StatusOf' = [i \in Ids |-> IF i \in S THEN outcome ELSE StatusOf[i]]
    <3>1. \A i \in S : [status |-> outcome, at |-> clock + 1] \in outcomes'[i]
      BY <2>3 DEF Decides, Note
    <3>2. \A i \in S : \A d \in outcomes'[i] : d.status = outcome
      BY <2>3 DEF Decides, Note, OnceInv
    <3>3. \A i \in S : StatusOf'[i] = outcome
      BY <2>3, <3>1, <3>2 DEF Decides, StatusOf
    <3>4. \A i \in Ids \ S : StatusOf'[i] = StatusOf[i]
      BY <2>3 DEF Decides, Note, StatusOf
    <3> QED
      BY <2>0, <3>3, <3>4
  <2>4. \A i \in created : Undecided(i) => StatusOf[i] = "Pending"
    BY DEF StatusOf, OnceInv, TypeInv, HistoryTypes
  <2>5. ASSUME NEW i \in Ids, NEW outcome \in Outcomes, Decides({i}, outcome)
        PROVE  [Lifecycle!Next]_StatusOf
    <3>1. CASE Undecided(i)
      <4>1. StatusOf[i] = "Pending"
        BY <2>4, <2>5, <3>1 DEF Decides
      <4>2. StatusOf' = [StatusOf EXCEPT ![i] = outcome]
        BY <2>0, <2>3, <2>5
      <4> QED
        BY <4>1, <4>2 DEF Lifecycle!Next, Lifecycle!Decide, Lifecycle!Outcomes, Outcomes
    <3>2. CASE MarkedExpired(i) /\ outcome = "Expired"
      <4>1. StatusOf[i] = "Expired"
        BY <2>5, <3>2
           DEF Decides, MarkedExpired, StatusOf, OnceInv, SafeInv, CachesOK, MayAwait,
               Carries
      <4>2. StatusOf' = StatusOf
        BY <2>0, <2>3, <2>5, <3>2, <4>1
      <4> QED
        BY <4>2
    <3> QED
      BY <2>5, <3>1, <3>2 DEF Decides
  <2>6. ASSUME NEW S \in SUBSET Ids, Decides(S, "Expired"), \A i \in S : Undecided(i)
        PROVE  Lifecycle!ExpireAll(S)
    BY <2>3, <2>4, <2>6 DEF Lifecycle!ExpireAll, Decides, Outcomes
  <2> QED
    BY <2>1, <2>2, <2>5, <2>6, ThreeKinds DEF Lifecycle!Next
<1> QED
  BY <1>1, <1>2, Once, PTL DEF Spec, ImplementsLifecycle, Lifecycle!Spec

(***************************************************************************)
(* Without faults: no request falls between the locks.                     *)
(***************************************************************************)

\* A thread has requests of a listing left to move only while it moves one.
TodoOK ==
    \A t \in Threads : todo[t] # {} =>
        /\ pc[t] \in {"insert", "append", "newline", "clear", "rewritePending", "moved"}
        /\ pc[t] \in {"append", "newline"} => clone[t].status # "Pending"

\* Decisions are never taken back, so neither is a displacement.
LEMMA DisplacedStays ==
    ASSUME TypeInv, TypeInv', \A k \in Ids : outcomes[k] \subseteq outcomes'[k],
           NEW i \in Ids, Displaced(i)
    PROVE  Displaced(i)'
<1>1. PICK d \in outcomes[i] : Cardinality(DecidedSince(i, d)) >= MaxCacheSize
  BY DEF Displaced
<1>2. DecidedSince(i, d) \subseteq DecidedSince(i, d)'
  BY DEF DecidedSince
<1>3. IsFiniteSet(DecidedSince(i, d)') /\ DecidedSince(i, d)' \subseteq Ids
  BY FS_Subset, ConstantsAssumption DEF ConstantsAssumption, DecidedSince
<1>4. /\ Cardinality(DecidedSince(i, d)) <= Cardinality(DecidedSince(i, d)')
      /\ Cardinality(DecidedSince(i, d)) \in Nat /\ Cardinality(DecidedSince(i, d)') \in Nat
  BY <1>2, <1>3, FS_Subset, FS_CardinalityType
<1>5. Cardinality(DecidedSince(i, d)') >= MaxCacheSize
  BY <1>1, <1>4, ConstantsAssumption DEF ConstantsAssumption
<1> QED
  BY <1>1, <1>5 DEF Displaced

\* What the trimming of a cache removes was displaced by what it keeps.
LEMMA EvictedDisplaced ==
    ASSUME TypeInv, NEW grown \in Cache,
           \A k \in Cached(grown) : Carries(k, grown[k]),
           \A j, k \in Cached(grown) :
              (grown[j].status = "Approved") = (grown[k].status = "Approved"),
           NEW R \in Evictions(grown), NEW i \in R
    PROVE  Displaced(i)
<1> DEFINE K == Cached(grown) \ R
           d == [status |-> grown[i].status, at |-> grown[i].decidedAt]
<1>1. IsFiniteSet(Cached(grown)) /\ Cached(grown) \subseteq Ids
  BY FS_Subset, ConstantsAssumption DEF Cached, ConstantsAssumption
<1>2. /\ R \subseteq Cached(grown) /\ Cardinality(R) = Excess(grown)
      /\ \A k \in K : grown[i].decidedAt <= grown[k].decidedAt
  BY DEF Evictions
<1>3. IsFiniteSet(R) /\ Cardinality(R) # 0
  BY <1>1, <1>2, FS_Subset, FS_EmptySet
<1>4. Cardinality(Cached(grown)) \in Nat /\ Cardinality(R) \in Nat /\ MaxCacheSize \in Nat
  BY <1>1, <1>3, FS_CardinalityType, ConstantsAssumption DEF ConstantsAssumption
<1>5. Cardinality(R) = Cardinality(Cached(grown)) - MaxCacheSize
  BY <1>2, <1>3 DEF Excess
<1>6. Cardinality(K) = Cardinality(Cached(grown)) - Cardinality(Cached(grown) \cap R)
  BY <1>1, <1>3, FS_Difference
<1>7. Cached(grown) \cap R = R
  BY <1>2
<1>8. Cardinality(K) = MaxCacheSize
  <2>1. Cardinality(K) = Cardinality(Cached(grown)) - Cardinality(R)
    BY <1>6, <1>7
  <2> HIDE DEF K
  <2> QED
    BY <1>4, <1>5, <2>1
<1>9. d \in outcomes[i]
  BY <1>2 DEF Carries
<1>10. ASSUME NEW k \in K PROVE k \in DecidedSince(i, d)
  <2>1. k \in Ids \ {i}
    BY <1>1
  <2> DEFINE e == [status |-> grown[k].status, at |-> grown[k].decidedAt]
  <2>2. e \in outcomes[k] /\ (e.status = "Approved") = (d.status = "Approved")
    BY <1>2 DEF Carries
  <2>3. grown[k] \in Request /\ grown[i] \in Request
    BY <1>1, <1>2 DEF Cache, Cached
  <2>4. e.at >= d.at
    BY <1>2, <2>3 DEF Request
  <2> QED
    BY <1>9, <2>1, <2>2, <2>4 DEF DecidedSince
<1>11. IsFiniteSet(DecidedSince(i, d))
  BY FS_Subset, ConstantsAssumption DEF ConstantsAssumption, DecidedSince
<1>12. Cardinality(K) <= Cardinality(DecidedSince(i, d)) /\ Cardinality(DecidedSince(i, d)) \in Nat
  BY <1>10, <1>11, FS_Subset, FS_CardinalityType
<1> QED
  BY <1>4, <1>8, <1>9, <1>12 DEF Displaced

\* A step that decides and creates nothing and takes nothing out of a cache.
Keeps ==
    /\ UNCHANGED <<created, outcomes>>
    /\ \A i \in Ids : /\ pending[i] # Absent => pending'[i] # Absent
                      /\ approved[i] # Absent => approved'[i] # Absent
                      /\ denied[i] # Absent => denied'[i] # Absent

\* Thread t leaves to the others what they have in hand, ...
OthersKeep(t) ==
    \A u \in Threads \ {t} : pc'[u] = pc[u] /\ target'[u] = target[u] /\ todo'[u] = todo[u]

\* ... and if it inserts nothing, no request is lost on its way.
LEMMA TransitKept ==
    ASSUME NEW t \in Threads, OthersKeep(t), pc[t] # "insert", todo[t] \subseteq todo'[t]
    PROVE  \A i \in Ids : InTransit(i) => InTransit(i)'
BY DEF OthersKeep, InTransit

\* What a step of this kind has to show.
LEMMA KeepsAll ==
    ASSUME TypeInv, TypeInv', Keeps, NothingVanishes, \A i \in Ids : InTransit(i) => InTransit(i)'
    PROVE  NothingVanishes'
<1>1. \A i \in Ids : Displaced(i) => Displaced(i)'
  BY DisplacedStays DEF Keeps
<1>2. created \subseteq Ids
  BY DEF TypeInv, HistoryTypes
<1> QED
  BY <1>1, <1>2 DEF Keeps, NothingVanishes

\* Return and GoTo leave the other threads alone.
LEMMA LocalStep ==
    ASSUME LocalTypes, NEW t \in Threads
    PROVE  /\ Return(t) => OthersKeep(t) /\ todo'[t] = {} /\ pc'[t] = "idle"
           /\ \A label : GoTo(t, label) => OthersKeep(t) /\ todo' = todo /\ clone' = clone
                                                         /\ pc'[t] = label
BY DEF LocalTypes, Return, GoTo, OthersKeep

\* An insertion takes the request in hand of t out of transit and leaves it in the
\* cache, or it trims that request or others, which are displaced.
LEMMA InsertKeeps ==
    ASSUME TypeInv, TypeInv', NothingVanishes, NEW t \in Threads,
           NEW cache \in Cache, target[t] \in Ids, clone[t] \in Request,
           NEW grown, grown = [cache EXCEPT ![target[t]] = clone[t]],
           \A k \in Cached(grown) : Carries(k, grown[k]),
           \A j, k \in Cached(grown) :
              (grown[j].status = "Approved") = (grown[k].status = "Approved"),
           NEW R \in Evictions(grown),
           NEW cacheAfter, cacheAfter = Without(grown, R),
           GoTo(t, "append"), UNCHANGED <<created, outcomes, pending>>,
           \A i \in Ids : cache[i] # Absent \/ approved'[i] # Absent \/ denied'[i] # Absent
                             \/ (approved[i] = Absent /\ denied[i] = Absent),
           \A i \in Ids : cacheAfter[i] # Absent => approved'[i] # Absent \/ denied'[i] # Absent
    PROVE  NothingVanishes'
<1>1. grown \in Cache
  BY TrimmedCache
<1>2. \A i \in R : Displaced(i)
  BY <1>1, EvictedDisplaced
<1>3. \A i \in Ids : Displaced(i) => Displaced(i)'
  BY DisplacedStays
<1>4. clone[t] # Absent
  BY ConstantsAssumption DEF ConstantsAssumption
<1>5. \A i \in Ids : /\ grown[i] = IF i = target[t] THEN clone[t] ELSE cache[i]
                     /\ cacheAfter[i] = IF i \in R THEN Absent ELSE grown[i]
  BY DEF Without, Cache
<1>6. ASSUME NEW i \in Ids, cache[i] # Absent \/ i = target[t]
      PROVE  approved'[i] # Absent \/ denied'[i] # Absent \/ Displaced(i)'
  <2>1. CASE i \in R
    BY <1>2, <1>3, <2>1
  <2>2. CASE i \notin R
    <3>1. cacheAfter[i] = grown[i]
      BY <1>5, <2>2
    <3>2. grown[i] # Absent
      BY <1>4, <1>5, <1>6
    <3> QED
      BY <3>1, <3>2
  <2> QED
    BY <2>1, <2>2
<1>7. ASSUME NEW i \in Ids, InTransit(i), i # target[t] PROVE InTransit(i)'
  BY <1>7, LocalStep DEF TypeInv, LocalTypes, OthersKeep, InTransit
<1>8. created \subseteq Ids
  BY DEF TypeInv, HistoryTypes
<1> QED
  BY <1>3, <1>6, <1>7, <1>8 DEF NothingVanishes

\* No operation loses a request between the locks.
LEMMA VanishStep ==
    ASSUME TypeInv, TypeInv', SafeInv, OnceInv, TodoOK, NothingVanishes, [Next]_vars
    PROVE  (TodoOK /\ NothingVanishes)'
<1> USE DEF caches, local, faults, history
<1> DEFINE Changed == \A r \in Request : Linked(r) # Absent /\ WithResult(r) # Absent
<1>0. Changed
  BY ChangedRequests, ConstantsAssumption DEF ConstantsAssumption
<1>1. ASSUME NEW t \in Threads, SkipAuditIds(t) PROVE (TodoOK /\ NothingVanishes)'
  <2>1. Keeps
    BY <1>1 DEF SkipAuditIds, Keeps
  <2>2. pc[t] # "insert" /\ todo[t] = {} /\ Return(t)
    BY <1>1 DEF SkipAuditIds, TodoOK
  <2>3. OthersKeep(t) /\ todo[t] \subseteq todo'[t]
    BY <2>2, LocalStep DEF TypeInv
  <2>4. NothingVanishes'
    BY <2>1, <2>2, <2>3, TransitKept, KeepsAll
  <2>5. TodoOK'
    BY <1>1, <2>2 DEF SkipAuditIds, TodoOK, Return, GoTo, TypeInv, LocalTypes
  <2> QED
    BY <2>4, <2>5
<1>2. ASSUME NEW t \in Threads, LinkNowhere(t) PROVE (TodoOK /\ NothingVanishes)'
  <2>1. Keeps
    BY <1>2 DEF LinkNowhere, Keeps
  <2>2. pc[t] # "insert" /\ todo[t] = {} /\ Return(t)
    BY <1>2 DEF LinkNowhere, TodoOK
  <2>3. OthersKeep(t) /\ todo[t] \subseteq todo'[t]
    BY <2>2, LocalStep DEF TypeInv
  <2>4. NothingVanishes'
    BY <2>1, <2>2, <2>3, TransitKept, KeepsAll
  <2>5. TodoOK'
    BY <1>2, <2>2 DEF LinkNowhere, TodoOK, Return, GoTo, TypeInv, LocalTypes
  <2> QED
    BY <2>4, <2>5
<1>3. ASSUME NEW t \in Threads, ReturnMoved(t) PROVE (TodoOK /\ NothingVanishes)'
  <2>1. Keeps
    BY <1>3 DEF ReturnMoved, Keeps
  <2>2. pc[t] # "insert" /\ todo[t] = {} /\ Return(t)
    BY <1>3 DEF ReturnMoved, TodoOK
  <2>3. OthersKeep(t) /\ todo[t] \subseteq todo'[t]
    BY <2>2, LocalStep DEF TypeInv
  <2>4. NothingVanishes'
    BY <2>1, <2>2, <2>3, TransitKept, KeepsAll
  <2>5. TodoOK'
    BY <1>3, <2>2 DEF ReturnMoved, TodoOK, Return, GoTo, TypeInv, LocalTypes
  <2> QED
    BY <2>4, <2>5
<1>4. ASSUME NEW t \in Threads, LinkElsewhere(t) PROVE (TodoOK /\ NothingVanishes)'
  <2>1. Keeps
    BY <1>4 DEF LinkElsewhere, Keeps
  <2>2. PICK label : GoTo(t, label) /\ pc[t] # "insert"
    BY <1>4 DEF LinkElsewhere
  <2>3. OthersKeep(t) /\ todo[t] \subseteq todo'[t]
    BY <2>2, LocalStep DEF TypeInv
  <2>4. NothingVanishes'
    BY <2>1, <2>2, <2>3, TransitKept, KeepsAll
  <2>5. TodoOK'
    BY <1>4, <2>2 DEF LinkElsewhere, TodoOK, Return, GoTo, TypeInv, LocalTypes
  <2> QED
    BY <2>4, <2>5
<1>5. ASSUME NEW t \in Threads, AppendRecord(t) PROVE (TodoOK /\ NothingVanishes)'
  <2>1. Keeps
    BY <1>5 DEF AppendRecord, Keeps
  <2>2. PICK label : GoTo(t, label) /\ pc[t] # "insert"
    BY <1>5 DEF AppendRecord
  <2>3. OthersKeep(t) /\ todo[t] \subseteq todo'[t]
    BY <2>2, LocalStep DEF TypeInv
  <2>4. NothingVanishes'
    BY <2>1, <2>2, <2>3, TransitKept, KeepsAll
  <2>5. TodoOK'
    BY <1>5, <2>2 DEF AppendRecord, TodoOK, Return, GoTo, TypeInv, LocalTypes
  <2> QED
    BY <2>4, <2>5
<1>6. ASSUME NEW t \in Threads, AppendNewline(t) PROVE (TodoOK /\ NothingVanishes)'
  <2>1. Keeps
    BY <1>6 DEF AppendNewline, Keeps
  <2>2. PICK label : GoTo(t, label) /\ pc[t] # "insert"
    BY <1>6 DEF AppendNewline
  <2>3. OthersKeep(t) /\ todo[t] \subseteq todo'[t]
    BY <2>2, LocalStep DEF TypeInv
  <2>4. NothingVanishes'
    BY <2>1, <2>2, <2>3, TransitKept, KeepsAll
  <2>5. TodoOK'
    BY <1>6, <2>2 DEF AppendNewline, TodoOK, Return, GoTo, TypeInv, LocalTypes
  <2> QED
    BY <2>4, <2>5
<1>7. ASSUME NEW t \in Threads, LinkPending(t) PROVE (TodoOK /\ NothingVanishes)'
  <2>1. Keeps
    BY <1>7, <1>0 DEF LinkPending, Keeps, TypeInv, CacheTypes, Cache, LocalsOK, Busy
  <2>2. PICK label : GoTo(t, label) /\ pc[t] # "insert"
    BY <1>7 DEF LinkPending
  <2>3. OthersKeep(t) /\ todo[t] \subseteq todo'[t]
    BY <2>2, LocalStep DEF TypeInv
  <2>4. NothingVanishes'
    BY <2>1, <2>2, <2>3, TransitKept, KeepsAll
  <2>5. TodoOK'
    BY <1>7, <2>2 DEF LinkPending, TodoOK, Return, GoTo, TypeInv, LocalTypes
  <2> QED
    BY <2>4, <2>5
<1>8. ASSUME NEW t \in Threads, LinkApproved(t) PROVE (TodoOK /\ NothingVanishes)'
  <2>1. Keeps
    BY <1>8, <1>0 DEF LinkApproved, Keeps, TypeInv, CacheTypes, Cache, LocalsOK, Busy
  <2>2. PICK label : GoTo(t, label) /\ pc[t] # "insert"
    BY <1>8 DEF LinkApproved
  <2>3. OthersKeep(t) /\ todo[t] \subseteq todo'[t]
    BY <2>2, LocalStep DEF TypeInv
  <2>4. NothingVanishes'
    BY <2>1, <2>2, <2>3, TransitKept, KeepsAll
  <2>5. TodoOK'
    BY <1>8, <2>2 DEF LinkApproved, TodoOK, Return, GoTo, TypeInv, LocalTypes
  <2> QED
    BY <2>4, <2>5
<1>9. ASSUME NEW t \in Threads, FinishLink(t) PROVE (TodoOK /\ NothingVanishes)'
  <2>1. Keeps
    BY <1>9 DEF FinishLink, Keeps
  <2>2. pc[t] # "insert" /\ todo[t] = {} /\ Return(t)
    BY <1>9 DEF FinishLink, TodoOK
  <2>3. OthersKeep(t) /\ todo[t] \subseteq todo'[t]
    BY <2>2, LocalStep DEF TypeInv
  <2>4. NothingVanishes'
    BY <2>1, <2>2, <2>3, TransitKept, KeepsAll
  <2>5. TodoOK'
    BY <1>9, <2>2 DEF FinishLink, TodoOK, Return, GoTo, TypeInv, LocalTypes
  <2> QED
    BY <2>4, <2>5
<1>10. ASSUME NEW t \in Threads, FinishRewriteApproved(t) PROVE (TodoOK /\ NothingVanishes)'
  <2>1. Keeps
    BY <1>10 DEF FinishRewriteApproved, Keeps
  <2>2. pc[t] # "insert" /\ todo[t] = {} /\ Return(t)
    BY <1>10 DEF FinishRewriteApproved, TodoOK
  <2>3. OthersKeep(t) /\ todo[t] \subseteq todo'[t]
    BY <2>2, LocalStep DEF TypeInv
  <2>4. NothingVanishes'
    BY <2>1, <2>2, <2>3, TransitKept, KeepsAll
  <2>5. TodoOK'
    BY <1>10, <2>2 DEF FinishRewriteApproved, TodoOK, Return, GoTo, TypeInv, LocalTypes
  <2> QED
    BY <2>4, <2>5
<1>11. ASSUME NEW t \in Threads, RewritePending(t) PROVE (TodoOK /\ NothingVanishes)'
  <2>1. Keeps
    BY <1>11 DEF RewritePending, Keeps
  <2>2. PICK label : GoTo(t, label) /\ pc[t] # "insert"
    BY <1>11 DEF RewritePending
  <2>3. OthersKeep(t) /\ todo[t] \subseteq todo'[t]
    BY <2>2, LocalStep DEF TypeInv
  <2>4. NothingVanishes'
    BY <2>1, <2>2, <2>3, TransitKept, KeepsAll
  <2>5. TodoOK'
    BY <1>11, <2>2 DEF RewritePending, TodoOK, Return, GoTo, TypeInv, LocalTypes
  <2> QED
    BY <2>4, <2>5
<1>12. ASSUME NEW t \in Threads, Clear(t) PROVE (TodoOK /\ NothingVanishes)'
  <2>1. Keeps
    BY <1>12 DEF Clear, Keeps
  <2>2. PICK label : GoTo(t, label) /\ pc[t] # "insert"
    BY <1>12 DEF Clear
  <2>3. OthersKeep(t) /\ todo[t] \subseteq todo'[t]
    BY <2>2, LocalStep DEF TypeInv
  <2>4. NothingVanishes'
    BY <2>1, <2>2, <2>3, TransitKept, KeepsAll
  <2>5. TodoOK'
    BY <1>12, <2>2 DEF Clear, TodoOK, Return, GoTo, TypeInv, LocalTypes
  <2> QED
    BY <2>4, <2>5
<1>13. ASSUME NEW t \in Threads, UpdateWithResult(t) PROVE (TodoOK /\ NothingVanishes)'
  <2>1. Keeps
    BY <1>13, <1>0 DEF UpdateWithResult, Keeps, TypeInv, CacheTypes, Cache, LocalsOK, Busy
  <2>2. pc[t] # "insert" /\ todo[t] = {} /\ (Return(t) \/ GoTo(t, "rewriteApproved"))
    BY <1>13 DEF UpdateWithResult, TodoOK
  <2>3. OthersKeep(t) /\ todo[t] \subseteq todo'[t]
    BY <2>2, LocalStep DEF TypeInv
  <2>4. NothingVanishes'
    BY <2>1, <2>2, <2>3, TransitKept, KeepsAll
  <2>5. TodoOK'
    BY <1>13, <2>2 DEF UpdateWithResult, TodoOK, Return, GoTo, TypeInv, LocalTypes
  <2> QED
    BY <2>4, <2>5
<1>14. ASSUME NEW t \in Threads, MoveNext(t) PROVE (TodoOK /\ NothingVanishes)'
  <2>1. PICK record \in todo[t] : /\ target' = [target EXCEPT ![t] = record.id]
                                  /\ clone' = [clone EXCEPT ![t] = record.request]
                                  /\ todo' = [todo EXCEPT ![t] = @ \ {record}]
    BY <1>14 DEF MoveNext
  <2>2. pc' = [pc EXCEPT ![t] = "insert"] /\ pc[t] = "moved"
    BY <1>14 DEF MoveNext
  <2>3. \A i \in Ids : InTransit(i) => InTransit(i)'
    BY <2>1, <2>2 DEF InTransit, TypeInv, LocalTypes
  <2>4. Keeps
    BY <1>14 DEF MoveNext, Keeps
  <2>5. NothingVanishes'
    BY <2>3, <2>4, KeepsAll
  <2>6. TodoOK'
    BY <2>1, <2>2 DEF TodoOK, TypeInv, LocalTypes
  <2> QED
    BY <2>5, <2>6
<1>15. ASSUME NEW t \in Threads, InsertDenied(t) PROVE (TodoOK /\ NothingVanishes)'
  <2> DEFINE grown == [denied EXCEPT ![target[t]] = clone[t]]
  <2>1. clone[t] \in Request /\ clone[t] # Absent /\ target[t] \in Ids
    BY <1>15, ConstantsAssumption
       DEF ConstantsAssumption, InsertDenied, TypeInv, LocalsOK, Busy
  <2>2. MayBeDenied(target[t], clone[t])
    BY <1>15, <2>1 DEF InsertDenied, SafeInv, MovesOK, MayBeDenied, TypeInv, LocalsOK, Moving
  <2>3. \A k \in Cached(grown) : grown[k].status # "Approved" /\ Carries(k, grown[k])
    BY <2>1, <2>2 DEF Cached, SafeInv, CachesOK, MayBeDenied, TypeInv, CacheTypes, Cache
  <2>4. PICK R \in Evictions(grown) : denied' = Without(grown, R)
    BY <1>15 DEF InsertDenied
  <2>5. GoTo(t, "append") /\ UNCHANGED <<created, outcomes, pending, approved>>
    BY <1>15 DEF InsertDenied
  <2>6. denied \in Cache
    BY DEF TypeInv, CacheTypes
  <2>7. NothingVanishes'
    BY <2>1, <2>3, <2>4, <2>5, <2>6, InsertKeeps
  <2>8. TodoOK'
    BY <1>15 DEF InsertDenied, TodoOK, GoTo, TypeInv, LocalTypes, LocalsOK, Moving
  <2> QED
    BY <2>7, <2>8
<1>16. ASSUME NEW t \in Threads, InsertApproved(t) PROVE (TodoOK /\ NothingVanishes)'
  <2> DEFINE grown == [approved EXCEPT ![target[t]] = clone[t]]
  <2>1. clone[t] \in Request /\ clone[t] # Absent /\ target[t] \in Ids
    BY <1>16, ConstantsAssumption
       DEF ConstantsAssumption, InsertApproved, TypeInv, LocalsOK, Busy
  <2>2. MayBeApproved(target[t], clone[t])
    BY <1>16, <2>1 DEF InsertApproved, SafeInv, MovesOK, MayBeApproved
  <2>3. \A k \in Cached(grown) : grown[k].status = "Approved" /\ Carries(k, grown[k])
    BY <2>1, <2>2 DEF Cached, SafeInv, CachesOK, MayBeApproved, TypeInv, CacheTypes, Cache
  <2>4. PICK R \in Evictions(grown) : approved' = Without(grown, R)
    BY <1>16 DEF InsertApproved
  <2>5. GoTo(t, "append") /\ UNCHANGED <<created, outcomes, pending, denied>>
    BY <1>16 DEF InsertApproved
  <2>6. approved \in Cache
    BY DEF TypeInv, CacheTypes
  <2>7. NothingVanishes'
    BY <2>1, <2>3, <2>4, <2>5, <2>6, InsertKeeps
  <2>8. TodoOK'
    BY <1>16 DEF InsertApproved, TodoOK, GoTo, TypeInv, LocalTypes, LocalsOK, Moving
  <2> QED
    BY <2>7, <2>8
<1>17. ASSUME NEW t \in Threads, NEW i \in Ids, StorePending(t, i) PROVE (TodoOK /\ NothingVanishes)'
  <2>0. NewRequest \in Request
    BY DEF NewRequest, Request, Status, Outcomes
  <2>1. NewRequest # Absent
    BY <2>0, ConstantsAssumption DEF ConstantsAssumption
  <2>2. \A j \in Ids : pending'[j] = IF j = i THEN NewRequest ELSE pending[j]
    BY <1>17 DEF StorePending, TypeInv, CacheTypes, Cache
  <2>3. UNCHANGED <<outcomes, approved, denied>> /\ created' = created \cup {i} /\ outcomes[i] = {}
    BY <1>17 DEF StorePending, OnceInv
  <2>4. OthersKeep(t) /\ pc[t] # "insert" /\ todo' = todo
    BY <1>17 DEF StorePending, OthersKeep, TypeInv, LocalTypes
  <2>5. \A j \in Ids : InTransit(j) => InTransit(j)'
    BY <2>4, TransitKept
  <2>6. \A j \in Ids : Displaced(j) => Displaced(j)'
    BY <2>3, DisplacedStays
  <2>7. NothingVanishes'
    BY <2>1, <2>2, <2>3, <2>5, <2>6 DEF NothingVanishes, TypeInv, HistoryTypes
  <2>8. TodoOK'
    BY <1>17 DEF StorePending, TodoOK, TypeInv, LocalTypes
  <2> QED
    BY <2>7, <2>8
<1>18. ASSUME NEW t \in Threads, NEW i \in Ids, Approve(t, i) \/ Reject(t, i) \/ GetOverdue(t, i)
       PROVE (TodoOK /\ NothingVanishes)'
  <2>1. PICK outcome \in Outcomes : Note({i}, outcome)
    BY <1>18 DEF Approve, Reject, GetOverdue, TakeOut, Outcomes
  <2>2. /\ pc[t] = "idle" /\ pc' = [pc EXCEPT ![t] = "insert"]
        /\ target' = [target EXCEPT ![t] = i]
        /\ \A u \in Threads \ {t} : clone'[u] = clone[u]
        /\ todo' = todo /\ UNCHANGED <<created, approved, denied>>
    BY <1>18 DEF TypeInv, LocalTypes, Approve, Reject, GetOverdue, TakeOut
  <2>3. \A j \in Ids \ {i} : pending'[j] = pending[j]
    BY <1>18 DEF Approve, Reject, GetOverdue, TakeOut, TypeInv, CacheTypes, Cache
  <2>4. OthersKeep(t)
    BY <2>2 DEF OthersKeep, TypeInv, LocalTypes
  <2>5. \A j \in Ids : InTransit(j) => InTransit(j)'
    BY <2>2, <2>4, TransitKept
  <2>6. InTransit(i)'
    BY <2>2 DEF InTransit, TypeInv, LocalTypes
  <2>7. \A j \in Ids : outcomes[j] \subseteq outcomes'[j] /\ (j # i => outcomes'[j] = outcomes[j])
    BY <2>1 DEF Note
  <2>8. \A j \in Ids : Displaced(j) => Displaced(j)'
    BY <2>7, DisplacedStays
  <2>9. outcomes'[i] # {}
    BY <2>1 DEF Note
  <2>10. NothingVanishes'
    BY <2>2, <2>3, <2>5, <2>6, <2>7, <2>8, <2>9 DEF NothingVanishes, TypeInv, HistoryTypes
  <2>11. TodoOK'
    BY <2>2 DEF TodoOK, TypeInv, LocalTypes
  <2> QED
    BY <2>10, <2>11
<1>19. ASSUME NEW t \in Threads, ListPending(t) PROVE (TodoOK /\ NothingVanishes)'
  <2> DEFINE overdue == {i \in expired : pending[i] # Absent /\ pending[i].status = "Pending"}
             moves == {[id |-> i, request |-> Decided(pending[i], "Expired")] : i \in overdue}
  <2>1. /\ pc[t] = "idle" /\ pc' = [pc EXCEPT ![t] = "moved"]
        /\ todo' = [todo EXCEPT ![t] = moves]
        /\ UNCHANGED <<created, approved, denied, target, clone>>
    BY <1>19 DEF ListPending
  <2>2. Note(overdue, "Expired") /\ overdue \subseteq Ids
    BY <1>19 DEF ListPending, TypeInv, HistoryTypes
  <2>3. \A j \in Ids \ overdue : pending'[j] = pending[j]
    BY <1>19 DEF ListPending, Without
  <2>4. todo[t] = {} /\ OthersKeep(t)
    BY <2>1 DEF OthersKeep, TodoOK, TypeInv, LocalTypes
  <2>5. \A j \in Ids : InTransit(j) => InTransit(j)'
    BY <2>1, <2>4, TransitKept
  <2>6. ASSUME NEW j \in overdue PROVE InTransit(j)'
    <3>1. [id |-> j, request |-> Decided(pending[j], "Expired")] \in todo'[t]
      BY <2>1 DEF TypeInv, LocalTypes
    <3> QED
      BY <3>1 DEF InTransit
  <2>7. \A j \in Ids : /\ outcomes[j] \subseteq outcomes'[j]
                       /\ j \notin overdue => outcomes'[j] = outcomes[j]
                       /\ j \in overdue => outcomes'[j] # {}
    BY <2>2 DEF Note
  <2>8. \A j \in Ids : Displaced(j) => Displaced(j)'
    BY <2>7, DisplacedStays
  <2>9. NothingVanishes'
    BY <2>1, <2>3, <2>5, <2>6, <2>7, <2>8 DEF NothingVanishes, TypeInv, HistoryTypes
  <2>10. TodoOK'
    BY <2>1 DEF TodoOK, TypeInv, LocalTypes
  <2> QED
    BY <2>9, <2>10
<1>20. CASE (\E i \in Ids : TimePasses(i)) \/ UNCHANGED vars
  <2>1. Keeps /\ UNCHANGED <<pc, target, clone, todo>>
    BY <1>20 DEF TimePasses, vars, Keeps
  <2>2. NothingVanishes'
    BY <2>1, KeepsAll DEF InTransit
  <2>3. TodoOK'
    BY <2>1 DEF TodoOK
  <2> QED
    BY <2>2, <2>3
<1> QED
  BY <1>1, <1>2, <1>3, <1>4, <1>5, <1>6, <1>7, <1>8, <1>9, <1>10, <1>11, <1>12, <1>13,
     <1>14, <1>15, <1>16, <1>17, <1>18, <1>19, <1>20
     DEF Next, Call, Continue

\* An undecided request is cached as pending; a decided one is being moved, cached
\* as what it is, or displaced by as many later decisions as the cache holds.
THEOREM NothingIsLost == Spec => []NothingVanishes
<1>1. Init => TodoOK /\ NothingVanishes
  BY DEF Init, TodoOK, NothingVanishes
<1>2. TypeInv /\ TypeInv' /\ SafeInv /\ OnceInv /\ TodoOK /\ NothingVanishes /\ [Next]_vars
         => (TodoOK /\ NothingVanishes)'
  BY VanishStep
<1> QED
  BY <1>1, <1>2, Once, PTL DEF Spec

(***************************************************************************)
(* What can be read in a file: positions of records, appends and rewrites. *)
(***************************************************************************)

File == Seq(Record \cup {Newline})

IsRecord(file, n, i) == file[n] # Newline /\ file[n].id = i

\* The last record of id i in a file holds that request.
Newest(file, i, request) ==
    \E n \in DOMAIN file :
        /\ IsRecord(file, n, i) /\ file[n].request = request
        /\ \A m \in DOMAIN file : m > n => ~IsRecord(file, m, i)

\* No object shares its line with another.
Separated(file) ==
    \A n \in DOMAIN file : n + 1 \in DOMAIN file => file[n] = Newline \/ file[n + 1] = Newline

\* Nothing is left of a line that was begun.
Finished(file) == file = <<>> \/ file[Len(file)] = Newline

\* A non-empty set of positions has a last one.
LEMMA LastExists ==
    ASSUME NEW N \in Nat, NEW T \in SUBSET (1 .. N), T # {}
    PROVE  \E n \in T : IsLast(T, n)
<1> DEFINE D == {N - n : n \in T}
           R == OpToRel(<, Nat)
<1>1. D \subseteq Nat /\ D # {}
  <2>1. \A n \in T : n \in 1 .. N
    OBVIOUS
  <2>2. \A n \in T : N - n \in Nat
    BY <2>1
  <2> QED
    BY <2>2
<1>2. \E x \in D : \A y \in D : ~ (<<y, x>> \in R)
  BY <1>1, NatLessThanWellFounded, WFMin
<1>3. PICK x \in D : \A y \in D : ~ (<<y, x>> \in R)
  BY <1>2
<1>4. ASSUME NEW y \in D PROVE x <= y
  <2>1. x \in Nat /\ y \in Nat
    BY <1>1
  <2>2. y < x => <<y, x>> \in R
    BY <2>1 DEF OpToRel
  <2>3. ~ (<<y, x>> \in R)
    BY <1>3
  <2> HIDE DEF R
  <2> QED
    BY <2>1, <2>2, <2>3
<1>5. PICK n \in T : x = N - n
  OBVIOUS
<1>6. ASSUME NEW m \in T PROVE m <= n
  <2>1. N - m \in D
    OBVIOUS
  <2>2. x <= N - m
    BY <1>4, <2>1
  <2> QED
    BY <1>5, <2>2
<1> QED
  BY <1>6 DEF IsLast

\* What rewrite_file writes: one line per cached request, each of them up to date.
LEMMA SerializedLines ==
    ASSUME NEW cache \in Cache
    PROVE  /\ Serialized(cache) \in File
           /\ Separated(Serialized(cache)) /\ Finished(Serialized(cache))
           /\ \A n \in DOMAIN Serialized(cache) : \A i \in Ids :
                 IsRecord(Serialized(cache), n, i) =>
                    i \in Cached(cache) /\ Serialized(cache)[n].request = cache[i]
           /\ \A i \in Cached(cache) : \E n \in DOMAIN Serialized(cache) :
                 IsRecord(Serialized(cache), n, i)
<1> DEFINE S == Cached(cache)
           ids == SetToSeq(S)
           c == Cardinality(S)
           text == Serialized(cache)
<1>1. IsFiniteSet(S) /\ S \subseteq Ids
  BY FS_Subset, ConstantsAssumption DEF Cached, ConstantsAssumption
<1>2. c \in Nat /\ \E f \in [1 .. c -> S] : IsInjective(f)
  BY <1>1, FS_CardinalityType DEF ExistsBijection, Bijection, Injection
<1>3. ids \in [1 .. c -> S] /\ IsInjective(ids)
  BY <1>2 DEF SetToSeq
<1>4. ids \in Injection(1 .. c, S)
  BY <1>3 DEF Injection, IsInjective
<1>5. IsFiniteSet(1 .. c) /\ Cardinality(1 .. c) = c
  BY <1>2, FS_Interval
<1>6. ids \in Surjection(1 .. c, S)
  BY <1>1, <1>4, <1>5, FS_Injection
<1>7. \A i \in S : \E k \in 1 .. c : ids[k] = i
  BY <1>6 DEF Surjection
<1>8. text \in Seq(Lines(cache)) /\ text \in File
  BY SerializedTokens, LoggedRecords, SeqMonotonic DEF File
<1>9. /\ DOMAIN text = 1 .. 2 * c
      /\ \A n \in 1 .. 2 * c :
            /\ n % 2 = 1 => text[n] = [id |-> ids[(n + 1) \div 2], request |-> cache[ids[(n + 1) \div 2]]]
            /\ n % 2 # 1 => text[n] = Newline
  BY DEF Serialized
<1>10. Len(text) = 2 * c
  BY <1>2, <1>8, <1>9, LenProperties
<1>11. Separated(text)
  <2>1. \A n \in 1 .. 2 * c : n % 2 # 1 \/ (n + 1) % 2 # 1
    BY <1>2
  <2> QED
    BY <1>9, <2>1 DEF Separated
<1>12. Finished(text)
  <2>1. CASE c = 0
    BY <1>8, <1>10, <2>1, EmptySeq DEF File, Finished
  <2>2. CASE c # 0
    <3>1. 2 * c \in 1 .. 2 * c /\ (2 * c) % 2 # 1
      BY <1>2, <2>2
    <3> QED
      BY <1>9, <1>10, <3>1 DEF Finished
  <2> QED
    BY <2>1, <2>2
<1>13. ASSUME NEW n \in DOMAIN text, NEW i \in Ids, IsRecord(text, n, i)
       PROVE  i \in S /\ text[n].request = cache[i]
  <2>1. n \in 1 .. 2 * c /\ n % 2 = 1
    BY <1>9, <1>13 DEF IsRecord
  <2>2. (n + 1) \div 2 \in 1 .. c
    BY <1>2, <2>1
  <2> QED
    BY <1>3, <1>9, <1>13, <2>1, <2>2 DEF IsRecord
<1>14. ASSUME NEW i \in S PROVE \E n \in DOMAIN text : IsRecord(text, n, i)
  <2>1. PICK k \in 1 .. c : ids[k] = i
    BY <1>7
  <2> DEFINE n == 2 * k - 1
  <2>2. n \in 1 .. 2 * c /\ n % 2 = 1 /\ (n + 1) \div 2 = k
    BY <1>2
  <2>3. text[n] = [id |-> i, request |-> cache[i]]
    BY <1>9, <2>1, <2>2
  <2>4. [id |-> i, request |-> cache[i]] \in Record
    BY <1>1 DEF Record, Cache, Cached
  <2> QED
    BY <1>9, <2>2, <2>3, <2>4, ConstantsAssumption DEF ConstantsAssumption, IsRecord
<1> QED
  BY <1>8, <1>11, <1>12, <1>13, <1>14

\* Where the tokens of a file come from after a text was laid over it.
LEMMA OverlayAt ==
    ASSUME NEW file \in File, NEW text \in File
    PROVE  /\ Overlay(file, text) \in File
           /\ DOMAIN text \subseteq DOMAIN Overlay(file, text)
           /\ \A n \in DOMAIN text : Overlay(file, text)[n] = text[n]
           /\ \A n \in DOMAIN Overlay(file, text) \ DOMAIN text :
                 n \in DOMAIN file /\ Overlay(file, text)[n] = file[n]
           /\ Len(Overlay(file, text)) = IF Len(text) >= Len(file) THEN Len(text) ELSE Len(file)
<1> DEFINE a == Len(text)
           b == Len(file)
           rest == SubSeq(file, a + 1, b)
           o == Overlay(file, text)
<1>1. a \in Nat /\ b \in Nat /\ DOMAIN text = 1 .. a /\ DOMAIN file = 1 .. b
  BY LenProperties DEF File
<1>2. \A n \in a + 1 .. b : file[n] \in Record \cup {Newline}
  BY <1>1, ElementOfSeq DEF File
<1>3. /\ rest \in File
      /\ Len(rest) = IF a + 1 <= b THEN b - (a + 1) + 1 ELSE 0
      /\ \A n \in 1 .. b - (a + 1) + 1 : rest[n] = file[a + 1 + n - 1]
  BY <1>1, <1>2, SubSeqProperties DEF File
<1>4. /\ o \in File
      /\ Len(o) = a + Len(rest)
      /\ \A n \in 1 .. a + Len(rest) : o[n] = IF n <= a THEN text[n] ELSE rest[n - a]
  BY <1>3, ConcatProperties DEF Overlay, File
<1>5. DOMAIN o = 1 .. a + Len(rest)
  BY <1>4, LenProperties DEF File
<1> HIDE DEF o, rest, a, b
<1>6. Len(o) = IF a >= b THEN a ELSE b
  BY <1>1, <1>3, <1>4
<1>7. DOMAIN text \subseteq DOMAIN o /\ \A n \in DOMAIN text : o[n] = text[n]
  BY <1>1, <1>3, <1>4, <1>5
<1>8. ASSUME NEW n \in DOMAIN o \ DOMAIN text PROVE n \in DOMAIN file /\ o[n] = file[n]
  <2>1. n \in a + 1 .. b /\ n \in 1 .. a + Len(rest)
    BY <1>1, <1>3, <1>5
  <2>2. n - a \in 1 .. b - (a + 1) + 1 /\ a + 1 + (n - a) - 1 = n
    BY <1>1, <2>1
  <2>3. rest[n - a] = file[n]
    BY <1>3, <2>2
  <2> QED
    BY <1>1, <1>4, <2>1, <2>3
<1> QED
  BY <1>4, <1>6, <1>7, <1>8 DEF o, a, b

\* A rewrite leaves every object on a line of its own, and the last line finished
\* if it was.
LEMMA OverlayLines ==
    ASSUME NEW file \in File, NEW text \in File, Separated(file), Separated(text), Finished(text)
    PROVE  /\ Separated(Overlay(file, text))
           /\ Finished(file) => Finished(Overlay(file, text))
<1> DEFINE a == Len(text)
           b == Len(file)
           o == Overlay(file, text)
<1>1. a \in Nat /\ b \in Nat /\ DOMAIN text = 1 .. a /\ DOMAIN file = 1 .. b
  BY LenProperties DEF File
<1>2. /\ o \in File /\ Len(o) = IF a >= b THEN a ELSE b
      /\ \A n \in 1 .. a : o[n] = text[n]
      /\ \A n \in DOMAIN o \ (1 .. a) : n \in 1 .. b /\ o[n] = file[n]
  BY <1>1, OverlayAt
<1>3. DOMAIN o = 1 .. Len(o)
  BY <1>2, LenProperties DEF File
<1>4. a = 0 \/ text[a] = Newline
  BY <1>1, EmptySeq DEF Finished, File
<1> HIDE DEF o, a, b
<1>5. ASSUME NEW n \in DOMAIN o, n + 1 \in DOMAIN o PROVE o[n] = Newline \/ o[n + 1] = Newline
  <2>1. n \in Nat /\ n >= 1
    BY <1>1, <1>2, <1>3
  <2>2. CASE n + 1 <= a
    <3>1. n \in 1 .. a /\ n + 1 \in 1 .. a
      BY <1>1, <2>1, <2>2
    <3>2. text[n] = Newline \/ text[n + 1] = Newline
      BY <1>1, <3>1 DEF Separated
    <3> QED
      BY <1>2, <3>1, <3>2
  <2>3. CASE n = a
    BY <1>1, <1>2, <1>4, <2>1, <2>3
  <2>4. CASE n > a
    <3>1. n \notin 1 .. a /\ n + 1 \notin 1 .. a
      BY <1>1, <2>1, <2>4
    <3>2. n \in 1 .. b /\ n + 1 \in 1 .. b /\ o[n] = file[n] /\ o[n + 1] = file[n + 1]
      BY <1>2, <1>5, <3>1
    <3> QED
      BY <1>1, <3>2 DEF Separated
  <2> QED
    BY <1>1, <2>1, <2>2, <2>3, <2>4
<1>6. ASSUME Finished(file) PROVE Finished(o)
  <2>1. b = 0 \/ file[b] = Newline
    BY <1>1, <1>6, EmptySeq DEF Finished, File, b
  <2>2. CASE Len(o) = 0
    BY <1>2, <2>2, EmptySeq DEF Finished, File
  <2>3. CASE Len(o) = a /\ a > 0
    BY <1>1, <1>2, <1>4, <2>3 DEF Finished
  <2>4. CASE Len(o) = b /\ b > a
    <3>1. b \in DOMAIN o \ (1 .. a)
      BY <1>1, <1>3, <2>4
    <3> QED
      BY <1>1, <1>2, <2>1, <2>4, <3>1 DEF Finished
  <2> QED
    BY <1>1, <1>2, <2>2, <2>3, <2>4
<1> QED
  BY <1>5, <1>6 DEF Separated, o

\* A record that is appended after a finished line is the newest of its id.
LEMMA AppendedRecord ==
    ASSUME NEW file \in File, NEW r \in Record
    PROVE  /\ Append(file, r) \in File
           /\ Separated(file) /\ Finished(file) => Separated(Append(file, r))
           /\ \A n \in DOMAIN Append(file, r), i \in Ids : IsRecord(Append(file, r), n, i) =>
                 \/ n \in DOMAIN file /\ IsRecord(file, n, i) /\ Append(file, r)[n] = file[n]
                 \/ i = r.id /\ Append(file, r)[n] = r
           /\ Newest(Append(file, r), r.id, r.request)
           /\ \A i \in Ids : \A q : i # r.id /\ Newest(file, i, q) => Newest(Append(file, r), i, q)
<1> DEFINE b == Len(file)
           o == Append(file, r)
<1>1. b \in Nat /\ DOMAIN file = 1 .. b
  BY LenProperties DEF File
<1>2. /\ o \in File /\ Len(o) = b + 1 /\ o[b + 1] = r
      /\ \A n \in 1 .. b : o[n] = file[n]
  BY AppendProperties DEF File
<1>3. DOMAIN o = 1 .. b + 1
  BY <1>1, <1>2, LenProperties DEF File
<1>4. r # Newline
  BY ConstantsAssumption DEF ConstantsAssumption
<1> HIDE DEF o
<1>5. ASSUME Separated(file), Finished(file) PROVE Separated(o)
  <2>1. b = 0 \/ file[b] = Newline
    BY <1>1, <1>5, EmptySeq DEF Finished, File
  <2> SUFFICES ASSUME NEW n \in DOMAIN o, n + 1 \in DOMAIN o
               PROVE  o[n] = Newline \/ o[n + 1] = Newline
    BY DEF Separated
  <2>2. CASE n + 1 <= b
    <3>1. n \in 1 .. b /\ n + 1 \in 1 .. b
      BY <1>1, <1>3, <2>2
    <3> QED
      BY <1>1, <1>2, <1>5, <3>1 DEF Separated
  <2>3. CASE n = b
    BY <1>1, <1>2, <1>3, <2>1, <2>3
  <2> QED
    BY <1>1, <1>3, <2>2, <2>3
<1>6. ASSUME NEW n \in DOMAIN o, NEW i \in Ids, IsRecord(o, n, i)
      PROVE  \/ n \in DOMAIN file /\ IsRecord(file, n, i) /\ o[n] = file[n]
             \/ i = r.id /\ o[n] = r
  BY <1>1, <1>2, <1>3, <1>6 DEF IsRecord
<1>7. Newest(o, r.id, r.request)
  BY <1>1, <1>2, <1>3, <1>4 DEF Newest, IsRecord
<1>8. ASSUME NEW i \in Ids, NEW q, i # r.id, Newest(file, i, q) PROVE Newest(o, i, q)
  <2>1. PICK n \in DOMAIN file : /\ IsRecord(file, n, i) /\ file[n].request = q
                                 /\ \A m \in DOMAIN file : m > n => ~IsRecord(file, m, i)
    BY <1>8 DEF Newest
  <2>2. n \in DOMAIN o /\ IsRecord(o, n, i) /\ o[n].request = q
    BY <1>1, <1>2, <1>3, <2>1 DEF IsRecord
  <2>3. ASSUME NEW m \in DOMAIN o, m > n PROVE ~IsRecord(o, m, i)
    BY <1>6, <1>8, <2>1, <2>3
  <2> QED
    BY <2>2, <2>3 DEF Newest
<1> QED
  BY <1>2, <1>5, <1>6, <1>7, <1>8 DEF o

\* A newline finishes the line and changes no record.
LEMMA AppendedNewline ==
    ASSUME NEW file \in File
    PROVE  /\ Append(file, Newline) \in File
           /\ Separated(file) => Separated(Append(file, Newline))
           /\ Finished(Append(file, Newline))
           /\ \A n \in DOMAIN Append(file, Newline), i \in Ids : IsRecord(Append(file, Newline), n, i) =>
                 n \in DOMAIN file /\ IsRecord(file, n, i) /\ Append(file, Newline)[n] = file[n]
           /\ \A i \in Ids : \A q : Newest(file, i, q) => Newest(Append(file, Newline), i, q)
<1> DEFINE b == Len(file)
           o == Append(file, Newline)
<1>1. b \in Nat /\ DOMAIN file = 1 .. b
  BY LenProperties DEF File
<1>2. /\ o \in File /\ Len(o) = b + 1 /\ o[b + 1] = Newline
      /\ \A n \in 1 .. b : o[n] = file[n]
  BY AppendProperties DEF File
<1>3. DOMAIN o = 1 .. b + 1
  BY <1>1, <1>2, LenProperties DEF File
<1> HIDE DEF o
<1>4. ASSUME Separated(file) PROVE Separated(o)
  <2> SUFFICES ASSUME NEW n \in DOMAIN o, n + 1 \in DOMAIN o
               PROVE  o[n] = Newline \/ o[n + 1] = Newline
    BY DEF Separated
  <2>1. CASE n + 1 <= b
    <3>1. n \in 1 .. b /\ n + 1 \in 1 .. b
      BY <1>1, <1>3, <2>1
    <3> QED
      BY <1>1, <1>2, <1>4, <3>1 DEF Separated
  <2>2. CASE n = b
    BY <1>1, <1>2, <2>2
  <2> QED
    BY <1>1, <1>3, <2>1, <2>2
<1>5. Finished(o)
  BY <1>1, <1>2 DEF Finished
<1>6. ASSUME NEW n \in DOMAIN o, NEW i \in Ids, IsRecord(o, n, i)
      PROVE  n \in DOMAIN file /\ IsRecord(file, n, i) /\ o[n] = file[n]
  BY <1>1, <1>2, <1>3, <1>6 DEF IsRecord
<1>7. ASSUME NEW i \in Ids, NEW q, Newest(file, i, q) PROVE Newest(o, i, q)
  <2>1. PICK n \in DOMAIN file : /\ IsRecord(file, n, i) /\ file[n].request = q
                                 /\ \A m \in DOMAIN file : m > n => ~IsRecord(file, m, i)
    BY <1>7 DEF Newest
  <2>2. n \in DOMAIN o /\ IsRecord(o, n, i) /\ o[n].request = q
    BY <1>1, <1>2, <1>3, <2>1 DEF IsRecord
  <2>3. ASSUME NEW m \in DOMAIN o, m > n PROVE ~IsRecord(o, m, i)
    BY <1>6, <2>1, <2>3
  <2> QED
    BY <2>2, <2>3 DEF Newest
<1> QED
  BY <1>2, <1>4, <1>5, <1>6, <1>7 DEF o

\* If all records of an id hold one request, and there is one, it is the newest.
LEMMA AllNewest ==
    ASSUME NEW file \in File, NEW i \in Ids, NEW q,
           \A n \in DOMAIN file : IsRecord(file, n, i) => file[n].request = q,
           \E n \in DOMAIN file : IsRecord(file, n, i)
    PROVE  Newest(file, i, q)
<1> DEFINE T == {n \in DOMAIN file : IsRecord(file, n, i)}
<1>1. Len(file) \in Nat /\ DOMAIN file = 1 .. Len(file)
  BY LenProperties DEF File
<1>2. PICK n \in T : IsLast(T, n)
  BY <1>1, LastExists
<1> QED
  BY <1>1, <1>2 DEF IsLast, Newest

\* load_from_file finds the newest record of every id when no object shares a line.
LEMMA LoadedNewest ==
    ASSUME NEW file \in File, Separated(file), NEW i \in Ids
    PROVE  /\ \A q : Newest(file, i, q) => LoadFromFile(file)[i] = q
           /\ LoadFromFile(file)[i] # Absent => Newest(file, i, LoadFromFile(file)[i])
<1> DEFINE lines == {n \in DOMAIN file : IsLine(file, n) /\ file[n].id = i}
           last == CHOOSE n \in lines : IsLast(lines, n)
<1>1. Len(file) \in Nat /\ DOMAIN file = 1 .. Len(file)
  BY LenProperties DEF File
<1>2. ASSUME NEW n \in DOMAIN file, file[n] # Newline PROVE IsLine(file, n)
  <2>1. n = 1 \/ (n - 1 \in DOMAIN file /\ (n - 1) + 1 = n)
    BY <1>1
  <2>2. n = 1 \/ file[n - 1] = Newline
    BY <1>2, <2>1 DEF Separated
  <2>3. n = Len(file) \/ n + 1 \in DOMAIN file
    BY <1>1
  <2>4. n = Len(file) \/ file[n + 1] = Newline
    BY <1>2, <2>3 DEF Separated
  <2> QED
    BY <1>2, <2>2, <2>4 DEF IsLine
<1>3. lines = {n \in DOMAIN file : IsRecord(file, n, i)}
  BY <1>2 DEF IsLine, IsRecord
<1>4. LoadFromFile(file)[i] = IF \E n \in lines : IsLast(lines, n)
                              THEN file[last].request ELSE Absent
  BY DEF LoadFromFile
<1> HIDE DEF lines
<1>5. ASSUME NEW q, Newest(file, i, q) PROVE LoadFromFile(file)[i] = q
  <2>1. PICK n \in DOMAIN file : /\ IsRecord(file, n, i) /\ file[n].request = q
                                 /\ \A m \in DOMAIN file : m > n => ~IsRecord(file, m, i)
    BY <1>5 DEF Newest
  <2>2. n \in lines /\ IsLast(lines, n)
    BY <1>1, <1>3, <2>1 DEF IsLast
  <2>3. last \in lines /\ IsLast(lines, last)
    BY <2>2
  <2>4. last = n
    BY <1>1, <1>3, <2>2, <2>3 DEF IsLast
  <2> QED
    BY <1>4, <2>1, <2>2, <2>4
<1>6. ASSUME LoadFromFile(file)[i] # Absent PROVE Newest(file, i, LoadFromFile(file)[i])
  <2>1. last \in lines /\ IsLast(lines, last) /\ LoadFromFile(file)[i] = file[last].request
    BY <1>4, <1>6
  <2> QED
    BY <1>1, <1>3, <2>1 DEF IsLast, Newest
<1> QED
  BY <1>5, <1>6

(***************************************************************************)
(* pending.log, with faults: as long as no write failed or was cut in two, *)
(* it holds every request that awaits a decision.                          *)
(***************************************************************************)

\* One task stores requests: the MCP server's.
OneStorer == \A t, u \in Storers : t = u

\* Thread t is appending the line of a request that it has just created.
Storing(t) == pc[t] \in {"append", "newline"} /\ clone[t].status = "Pending"

\* Who stores and who rewrites.
StoreInv ==
    /\ \A t \in Threads :
          pc[t] \in {"audit", "auditPending", "auditApproved"} \/ Storing(t) => t \in Storers
    /\ \A t, u \in Threads :
          pc[t] = "auditPending" /\ pc[u] \in {"auditPending", "rewritePending"} => t = u
    /\ \A t \in Threads : Storing(t) /\ Undecided(target[t]) => pending[target[t]] = clone[t]
    /\ stored \subseteq created
    /\ \A i \in stored : ~StillStoring(i)

\* Every line of pending.log is one object, but for the line being appended.
LinesOK ==
    /\ Separated(log["pending"])
    /\ Finished(log["pending"]) \/ \E t \in Threads : Storing(t) /\ pc[t] = "newline"

\* Of a request that awaits a decision the file has an up-to-date record and no
\* later one; while the file is being rewritten, none that is out of date.
OnDisk(i) ==
    IF PendingWritable
    THEN \/ Newest(log["pending"], i, pending[i])
         \/ \E t \in Threads : Storing(t) /\ pc[t] = "append" /\ target[t] = i
    ELSE \A n \in DOMAIN log["pending"] :
            IsRecord(log["pending"], n, i) => log["pending"][n].request = pending[i]

DiskOK == \A i \in Ids : Undecided(i) => OnDisk(i)

\* A stored request on which nothing was decided is cached as pending.
StaysUndecided ==
    \A i \in Ids : outcomes[i] = {} /\ (i \in stored \/ StillStoring(i)) => Undecided(i)

Intact == errors = 0 /\ ~torn

DiskInv == StoreInv /\ (Intact => LinesOK /\ DiskOK /\ StaysUndecided)

\* A step that neither writes pending.log nor stores, and after which nothing
\* awaits a decision that did not before.
Aside ==
    /\ UNCHANGED <<created, stored, errors, torn>>
    /\ log'["pending"] = log["pending"]
    /\ \A i \in Ids :
          /\ Undecided(i)' => Undecided(i) /\ pending'[i] = pending[i]
          /\ outcomes'[i] = {} => outcomes[i] = {} /\ (Undecided(i) => Undecided(i)')
    /\ \A u \in Threads :
          /\ Storing(u)' <=> Storing(u)
          /\ Storing(u) => UNCHANGED <<pc[u], target[u], clone[u]>>
          /\ pc'[u] = "auditPending" <=> pc[u] = "auditPending"
          /\ pc'[u] = "rewritePending" <=> pc[u] = "rewritePending"
          /\ pc'[u] \in {"audit", "auditApproved"} => pc[u] \in {"audit", "auditApproved"}

\* In terms of Storing.
LEMMA StillStoringIs == \A i : StillStoring(i) <=> \E t \in Threads : Storing(t) /\ target[t] = i
BY DEF StillStoring, Storing

\* Such a step keeps DiskInv.
LEMMA AsideKeeps ==
    ASSUME TypeInv, TypeInv', SafeInv, DiskInv, Aside
    PROVE  DiskInv'
<1>1. \A i : StillStoring(i)' <=> StillStoring(i)
  BY DEF Aside, StillStoring, Storing
<1>2. PendingWritable' <=> PendingWritable
  BY DEF Aside, PendingWritable
<1>3. \A t \in Threads : Storing(t) => target[t] \in Ids
  BY DEF Storing, TypeInv, LocalsOK, Busy
<1>4. StoreInv'
  <2>1. \A t \in Threads :
           pc'[t] \in {"audit", "auditPending", "auditApproved"} \/ Storing(t)' => t \in Storers
    BY DEF Aside, DiskInv, StoreInv
  <2>2. \A t, u \in Threads :
           pc'[t] = "auditPending" /\ pc'[u] \in {"auditPending", "rewritePending"} => t = u
    BY DEF Aside, DiskInv, StoreInv
  <2>3. ASSUME NEW t \in Threads, Storing(t)', Undecided(target[t])' PROVE pending'[target'[t]] = clone'[t]
    BY <1>3, <2>3 DEF Aside, DiskInv, StoreInv
  <2>4. stored' \subseteq created' /\ \A i \in stored' : ~StillStoring(i)'
    BY <1>1 DEF Aside, DiskInv, StoreInv
  <2> QED
    BY <2>1, <2>2, <2>3, <2>4 DEF StoreInv
<1>5. ASSUME Intact' PROVE (LinesOK /\ DiskOK /\ StaysUndecided)'
  <2>1. LinesOK /\ DiskOK /\ StaysUndecided
    BY <1>5 DEF Aside, DiskInv, Intact
  <2>2. LinesOK'
    BY <2>1 DEF Aside, LinesOK
  <2>3. ASSUME NEW i \in Ids, Undecided(i)' PROVE OnDisk(i)'
    <3>1. OnDisk(i) /\ pending'[i] = pending[i]
      BY <2>1, <2>3 DEF Aside, DiskOK
    <3> QED
      BY <1>2, <3>1 DEF Aside, OnDisk
  <2>4. StaysUndecided'
    BY <1>1, <2>1 DEF Aside, StaysUndecided
  <2> QED
    BY <2>2, <2>3, <2>4 DEF DiskOK
<1> QED
  BY <1>4, <1>5 DEF DiskInv

\* The part of it that is about the threads, ...
ThreadsAside ==
    \A u \in Threads :
        /\ Storing(u)' <=> Storing(u)
        /\ Storing(u) => UNCHANGED <<pc[u], target[u], clone[u]>>
        /\ pc'[u] = "auditPending" <=> pc[u] = "auditPending"
        /\ pc'[u] = "rewritePending" <=> pc[u] = "rewritePending"
        /\ pc'[u] \in {"audit", "auditApproved"} => pc[u] \in {"audit", "auditApproved"}

\* ... which holds when thread t, the only one that moves, is elsewhere.
LEMMA LocalsAside ==
    ASSUME NEW t \in Threads,
           \A u \in Threads \ {t} : UNCHANGED <<pc[u], target[u], clone[u]>>,
           ~Storing(t), ~Storing(t)',
           pc[t] \notin {"auditPending", "rewritePending"},
           pc'[t] \notin {"auditPending", "rewritePending"},
           pc'[t] \in {"audit", "auditApproved"} => pc[t] \in {"audit", "auditApproved"}
    PROVE  ThreadsAside
BY DEF ThreadsAside, Storing

\* Most operations are such steps: a decision, the moving of a request to the cache
\* and the file of its decision, an expiry, and the forgetting of old decisions.
LEMMA AsideSteps ==
    ASSUME TypeInv, TypeInv'
    PROVE  /\ \A t \in Threads :
                 \/ SkipAuditIds(t) \/ LinkNowhere(t) \/ ReturnMoved(t) \/ LinkElsewhere(t)
                 \/ LinkApproved(t) \/ FinishRewriteApproved(t) \/ InsertDenied(t)
                 \/ InsertApproved(t) \/ UpdateWithResult(t) \/ MoveNext(t) \/ ListPending(t)
                 \/ (AppendRecord(t) \/ AppendNewline(t)) /\ ~Storing(t)
                 \/ \E i \in Ids : Approve(t, i) \/ Reject(t, i) \/ Cancel(t, i) \/ GetOverdue(t, i)
                 => Aside
           /\ \A i \in Ids : TimePasses(i) => Aside
           /\ \A cutoff \in 1 .. clock : Cleanup(cutoff) => Aside
           /\ UNCHANGED vars => Aside
<1> USE DEF caches, local, faults, history
<1>1. ASSUME NEW t \in Threads, SkipAuditIds(t) PROVE Aside
  <2>1. UNCHANGED <<created, stored, errors, torn, outcomes, pending>> /\ log'["pending"] = log["pending"]
    BY <1>1 DEF SkipAuditIds, TypeInv, LogTypes, Files
  <2>2. ThreadsAside
    BY <1>1, LocalsAside DEF SkipAuditIds, Return, GoTo, Storing, TypeInv, LocalTypes, LocalsOK, Moving
  <2> QED
    BY <2>1, <2>2 DEF Aside, ThreadsAside, Undecided
<1>2. ASSUME NEW t \in Threads, LinkNowhere(t) PROVE Aside
  <2>1. UNCHANGED <<created, stored, errors, torn, outcomes, pending>> /\ log'["pending"] = log["pending"]
    BY <1>2 DEF LinkNowhere, TypeInv, LogTypes, Files
  <2>2. ThreadsAside
    BY <1>2, LocalsAside DEF LinkNowhere, Return, GoTo, Storing, TypeInv, LocalTypes, LocalsOK, Moving
  <2> QED
    BY <2>1, <2>2 DEF Aside, ThreadsAside, Undecided
<1>3. ASSUME NEW t \in Threads, ReturnMoved(t) PROVE Aside
  <2>1. UNCHANGED <<created, stored, errors, torn, outcomes, pending>> /\ log'["pending"] = log["pending"]
    BY <1>3 DEF ReturnMoved, TypeInv, LogTypes, Files
  <2>2. ThreadsAside
    BY <1>3, LocalsAside DEF ReturnMoved, Return, GoTo, Storing, TypeInv, LocalTypes, LocalsOK, Moving
  <2> QED
    BY <2>1, <2>2 DEF Aside, ThreadsAside, Undecided
<1>4. ASSUME NEW t \in Threads, LinkElsewhere(t) PROVE Aside
  <2>1. UNCHANGED <<created, stored, errors, torn, outcomes, pending>> /\ log'["pending"] = log["pending"]
    BY <1>4 DEF LinkElsewhere, TypeInv, LogTypes, Files
  <2>2. ThreadsAside
    BY <1>4, LocalsAside DEF LinkElsewhere, Return, GoTo, Storing, TypeInv, LocalTypes, LocalsOK, Moving
  <2> QED
    BY <2>1, <2>2 DEF Aside, ThreadsAside, Undecided
<1>5. ASSUME NEW t \in Threads, LinkApproved(t) PROVE Aside
  <2>1. UNCHANGED <<created, stored, errors, torn, outcomes, pending>> /\ log'["pending"] = log["pending"]
    BY <1>5 DEF LinkApproved, TypeInv, LogTypes, Files
  <2>2. ThreadsAside
    BY <1>5, LocalsAside DEF LinkApproved, Return, GoTo, Storing, TypeInv, LocalTypes, LocalsOK, Moving
  <2> QED
    BY <2>1, <2>2 DEF Aside, ThreadsAside, Undecided
<1>6. ASSUME NEW t \in Threads, FinishRewriteApproved(t) PROVE Aside
  <2>1. UNCHANGED <<created, stored, errors, torn, outcomes, pending>> /\ log'["pending"] = log["pending"]
    BY <1>6 DEF FinishRewriteApproved, TypeInv, LogTypes, Files
  <2>2. ThreadsAside
    BY <1>6, LocalsAside DEF FinishRewriteApproved, Return, GoTo, Storing, TypeInv, LocalTypes, LocalsOK, Moving
  <2> QED
    BY <2>1, <2>2 DEF Aside, ThreadsAside, Undecided
<1>7. ASSUME NEW t \in Threads, InsertDenied(t) PROVE Aside
  <2>1. UNCHANGED <<created, stored, errors, torn, outcomes, pending>> /\ log'["pending"] = log["pending"]
    BY <1>7 DEF InsertDenied, TypeInv, LogTypes, Files
  <2>2. ThreadsAside
    BY <1>7, LocalsAside DEF InsertDenied, Return, GoTo, Storing, TypeInv, LocalTypes, LocalsOK, Moving
  <2> QED
    BY <2>1, <2>2 DEF Aside, ThreadsAside, Undecided
<1>8. ASSUME NEW t \in Threads, InsertApproved(t) PROVE Aside
  <2>1. UNCHANGED <<created, stored, errors, torn, outcomes, pending>> /\ log'["pending"] = log["pending"]
    BY <1>8 DEF InsertApproved, TypeInv, LogTypes, Files
  <2>2. ThreadsAside
    BY <1>8, LocalsAside DEF InsertApproved, Return, GoTo, Storing, TypeInv, LocalTypes, LocalsOK, Moving
  <2> QED
    BY <2>1, <2>2 DEF Aside, ThreadsAside, Undecided
<1>9. ASSUME NEW t \in Threads, UpdateWithResult(t) PROVE Aside
  <2>1. UNCHANGED <<created, stored, errors, torn, outcomes, pending>> /\ log'["pending"] = log["pending"]
    BY <1>9 DEF UpdateWithResult, TypeInv, LogTypes, Files
  <2>2. ThreadsAside
    BY <1>9, LocalsAside DEF UpdateWithResult, Return, GoTo, Storing, TypeInv, LocalTypes, LocalsOK, Moving
  <2> QED
    BY <2>1, <2>2 DEF Aside, ThreadsAside, Undecided
<1>10. ASSUME NEW t \in Threads, MoveNext(t) PROVE Aside
  <2>1. UNCHANGED <<created, stored, errors, torn, outcomes, pending, log>>
    BY <1>10 DEF MoveNext
  <2>2. /\ pc' = [pc EXCEPT ![t] = "insert"] /\ pc[t] = "moved"
        /\ \E i, r : target' = [target EXCEPT ![t] = i] /\ clone' = [clone EXCEPT ![t] = r]
    BY <1>10 DEF MoveNext
  <2>3. ThreadsAside
    BY <2>2, LocalsAside DEF Storing, TypeInv, LocalTypes
  <2> QED
    BY <2>1, <2>3 DEF Aside, ThreadsAside, Undecided
<1>11. ASSUME NEW t \in Threads, ListPending(t) PROVE Aside
  <2> DEFINE overdue == {i \in expired : pending[i] # Absent /\ pending[i].status = "Pending"}
  <2>1. UNCHANGED <<created, stored, errors, torn, log>> /\ Note(overdue, "Expired")
    BY <1>11 DEF ListPending
  <2>2. \A i \in Ids : pending'[i] = IF i \in overdue THEN Absent ELSE pending[i]
    BY <1>11 DEF ListPending, Without
  <2>3. \A i \in Ids : outcomes'[i] = {} => outcomes[i] = {} /\ i \notin overdue
    BY <2>1 DEF Note
  <2>4. ThreadsAside
    BY <1>11, LocalsAside DEF ListPending, Storing, TypeInv, LocalTypes
  <2> QED
    BY <2>1, <2>2, <2>3, <2>4 DEF Aside, ThreadsAside, Undecided
<1>12. ASSUME NEW t \in Threads, (AppendRecord(t) \/ AppendNewline(t)) /\ ~Storing(t) PROVE Aside
  <2>1. clone[t].status # "Pending" /\ pc[t] \in {"append", "newline"}
    BY <1>12 DEF AppendRecord, AppendNewline, Storing
  <2>2. log'["pending"] = log["pending"]
    BY <1>12, <2>1, FileOfCases DEF AppendRecord, AppendNewline, TypeInv, LogTypes, Files
  <2>3. UNCHANGED <<created, stored, errors, torn, outcomes, pending>>
    BY <1>12, <2>1 DEF AppendRecord, AppendNewline
  <2>4. ThreadsAside
    BY <1>12, <2>1, LocalsAside DEF AppendRecord, AppendNewline, GoTo, Storing, TypeInv, LocalTypes
  <2> QED
    BY <2>2, <2>3, <2>4 DEF Aside, ThreadsAside, Undecided
<1>13. ASSUME NEW t \in Threads, NEW i \in Ids,
              Approve(t, i) \/ Reject(t, i) \/ Cancel(t, i) \/ GetOverdue(t, i)
       PROVE  Aside
  <2>1. /\ pc[t] = "idle" /\ pc' = [pc EXCEPT ![t] = "insert"]
        /\ target' = [target EXCEPT ![t] = i]
        /\ \E r : clone' = [clone EXCEPT ![t] = r]
        /\ UNCHANGED <<created, stored, errors, torn, log>>
        /\ \E outcome \in Outcomes : Note({i}, outcome)
    BY <1>13 DEF Approve, Reject, Cancel, GetOverdue, TakeOut, Outcomes
  <2>2. ThreadsAside
    BY <2>1, LocalsAside DEF Storing, TypeInv, LocalTypes
  <2>3. ~Undecided(i)'
    <3>1. CASE Approve(t, i) \/ Reject(t, i) \/ Cancel(t, i)
      BY <3>1 DEF Approve, Reject, Cancel, TakeOut, Undecided, TypeInv, CacheTypes, Cache
    <3>2. CASE GetOverdue(t, i)
      <4>1. pending[i] \in Request /\ "Expired" \in Outcomes
        BY <3>2 DEF GetOverdue, TypeInv, CacheTypes, Cache, Outcomes
      <4>2. Decided(pending[i], "Expired").status = "Expired"
        BY <4>1, ChangedRequests DEF TypeInv, HistoryTypes
      <4>3. pending'[i] = Decided(pending[i], "Expired")
        BY <3>2 DEF GetOverdue, TypeInv, CacheTypes, Cache
      <4> QED
        BY <4>2, <4>3 DEF Undecided
    <3> QED
      BY <1>13, <3>1, <3>2
  <2>4. \A j \in Ids \ {i} : pending'[j] = pending[j]
    BY <1>13 DEF Approve, Reject, Cancel, GetOverdue, TakeOut, TypeInv, CacheTypes, Cache
  <2>5. \A j \in Ids : outcomes'[j] = {} => outcomes[j] = {} /\ j # i
    BY <2>1 DEF Note
  <2> QED
    BY <2>1, <2>2, <2>3, <2>4, <2>5 DEF Aside, ThreadsAside, Undecided
<1>14. ASSUME \/ \E i \in Ids : TimePasses(i)
              \/ \E cutoff \in 1 .. clock : Cleanup(cutoff)
              \/ UNCHANGED vars
       PROVE  Aside
  <2>1. UNCHANGED <<created, stored, errors, torn, outcomes, pending, log, pc, target, clone>>
    BY <1>14 DEF TimePasses, Cleanup, vars
  <2> QED
    BY <2>1 DEF Aside, Undecided, Storing
<1> QED
  BY <1>1, <1>2, <1>3, <1>4, <1>5, <1>6, <1>7, <1>8, <1>9, <1>10, <1>11, <1>12, <1>13, <1>14

\* The steps that write pending.log: with one task that stores, ...
LEMMA StoreSteps ==
    ASSUME OneStorer, TypeInv, TypeInv', SafeInv, DiskInv, NEW t \in Threads
    PROVE  /\ \A i \in Ids : StorePending(t, i) => DiskInv'
           /\ (AppendRecord(t) \/ AppendNewline(t)) /\ Storing(t) => DiskInv'
<1> USE DEF caches, local, faults, history
<1>0. log["pending"] \in File
  BY DEF TypeInv, LogTypes, Files, File
<1>1. \A u \in Threads : Storing(u) => u \in Storers
  BY DEF DiskInv, StoreInv
<1>2. ASSUME NEW i \in Ids, StorePending(t, i) PROVE DiskInv'
  <2>1. t \in Storers /\ ~Storing(t) /\ \A u \in Threads : ~Storing(u)
    BY <1>1, <1>2 DEF StorePending, Storing, OneStorer
  <2>2. NewRequest.status = "Pending"
    BY DEF NewRequest
  <2>3. /\ UNCHANGED <<log, outcomes, stored, errors, torn>> /\ i \notin created
        /\ created' = created \cup {i}
        /\ PendingWritable
        /\ \A j \in Ids : pending'[j] = IF j = i THEN NewRequest ELSE pending[j]
    BY <1>2 DEF StorePending, TypeInv, CacheTypes, Cache
  <2>4. /\ pc'[t] = "append" /\ target'[t] = i /\ clone'[t] = NewRequest
        /\ \A u \in Threads \ {t} : UNCHANGED <<pc[u], target[u], clone[u]>>
    BY <1>2 DEF StorePending, TypeInv, LocalTypes
  <2>5. Storing(t)' /\ \A u \in Threads \ {t} : ~Storing(u)'
    BY <2>1, <2>2, <2>4 DEF Storing
  <2>6. \A j : StillStoring(j)' <=> j = i
    BY <2>4, <2>5 DEF StillStoring, Storing
  <2>7. Undecided(i)' /\ \A j \in Ids \ {i} : Undecided(j)' <=> Undecided(j)
    <3>1. NewRequest \in Request
      BY DEF NewRequest, Request, Status, Outcomes
    <3> QED
      BY <2>2, <2>3, <3>1, ConstantsAssumption DEF Undecided, ConstantsAssumption
  <2>8. PendingWritable'
    BY <2>3, <2>4 DEF PendingWritable
  <2>9. StoreInv'
    <3>1. stored' \subseteq created' /\ \A j \in stored' : ~StillStoring(j)'
      BY <2>3, <2>6 DEF DiskInv, StoreInv
    <3>2. \A u \in Threads :
             pc'[u] \in {"audit", "auditPending", "auditApproved"} \/ Storing(u)' => u \in Storers
      BY <2>1, <2>4, <2>5 DEF DiskInv, StoreInv
    <3>3. \A u \in Threads : Storing(u)' => pending'[target'[u]] = clone'[u]
      BY <2>3, <2>4, <2>5
    <3> QED
      BY <2>8, <3>1, <3>2, <3>3 DEF StoreInv, PendingWritable
  <2>10. ASSUME Intact' PROVE (LinesOK /\ DiskOK /\ StaysUndecided)'
    <3>1. LinesOK /\ DiskOK /\ StaysUndecided
      BY <2>3, <2>10 DEF DiskInv, Intact
    <3>2. LinesOK'
      BY <2>1, <2>3, <3>1 DEF LinesOK
    <3>3. ASSUME NEW j \in Ids, Undecided(j)', j # i PROVE OnDisk(j)'
      <4>1. Newest(log["pending"], j, pending[j])
        BY <2>1, <2>3, <2>7, <3>1, <3>3 DEF DiskOK, OnDisk
      <4>2. Newest(log'["pending"], j, pending'[j])
        BY <2>3, <3>3, <4>1
      <4> QED
        BY <2>8, <4>2 DEF OnDisk
    <3>4. OnDisk(i)'
      BY <2>4, <2>5, <2>8 DEF OnDisk
    <3>5. StaysUndecided'
      BY <2>3, <2>6, <2>7, <3>1 DEF StaysUndecided, DiskInv, StoreInv
    <3> QED
      BY <3>2, <3>3, <3>4, <3>5 DEF DiskOK
  <2> QED
    BY <2>9, <2>10 DEF DiskInv
<1>3. ASSUME AppendRecord(t) \/ AppendNewline(t), Storing(t) PROVE DiskInv'
  <2> DEFINE i == target[t]
             file == log["pending"]
             after == log'["pending"]
  <2>1. /\ clone[t] \in Request /\ i \in Ids /\ clone[t].status = "Pending"
        /\ FileOf(clone[t]) = "pending"
    BY <1>3 DEF Storing, TypeInv, LocalsOK, Busy, FileOf
  <2>2. clone[t] # Absent /\ i \in created
    BY <2>1, ConstantsAssumption DEF ConstantsAssumption, SafeInv, MovesOK
  <2>3. \A u \in Threads \ {t} : ~Storing(u)
    BY <1>1, <1>3 DEF OneStorer
  <2>4. /\ UNCHANGED <<pending, created, outcomes, errors, torn, target, clone>>
        /\ \A u \in Threads \ {t} : pc'[u] = pc[u]
        /\ \A j : Undecided(j)' <=> Undecided(j)
    BY <1>3 DEF AppendRecord, AppendNewline, GoTo, Undecided, TypeInv, LocalTypes
  <2>5. pc'[t] \in {"newline", "audit"} /\ pc[t] \in {"append", "newline"}
    BY <1>3, <2>1 DEF AppendRecord, AppendNewline, GoTo, TypeInv, LocalTypes
  <2>6. PendingWritable' <=> PendingWritable
    BY <2>4, <2>5 DEF PendingWritable
  <2>7. \A j : StillStoring(j) <=> j = i
    BY <1>3, <2>3 DEF StillStoring, Storing
  <2>8. Undecided(i) => pending[i] = clone[t]
    BY <1>3 DEF DiskInv, StoreInv
  <2>9. t \in Storers
    BY <1>1, <1>3
  <2>10. CASE AppendRecord(t)
    <3> DEFINE r == [id |-> i, request |-> clone[t]]
    <3>1. pc[t] = "append" /\ pc'[t] = "newline" /\ after = Append(file, r) /\ UNCHANGED stored
      BY <2>1, <2>10 DEF AppendRecord, GoTo, TypeInv, LogTypes, LocalTypes, Files
    <3>2. r \in Record
      BY <2>1 DEF Record
    <3>3. Storing(t)' /\ \A u \in Threads \ {t} : ~Storing(u)'
      BY <2>1, <2>3, <2>4, <3>1 DEF Storing
    <3>4. \A j : StillStoring(j)' <=> StillStoring(j)
      BY <2>4, <2>7, <3>3 DEF StillStoring, Storing
    <3>5. StoreInv'
      <4>1. \A u \in Threads :
               pc'[u] \in {"audit", "auditPending", "auditApproved"} \/ Storing(u)' => u \in Storers
        BY <2>4, <2>9, <3>1, <3>3 DEF DiskInv, StoreInv
      <4>2. \A u, v \in Threads :
               pc'[u] = "auditPending" /\ pc'[v] \in {"auditPending", "rewritePending"} => u = v
        BY <2>4, <3>1 DEF DiskInv, StoreInv
      <4>3. \A u \in Threads : Storing(u)' /\ Undecided(target[u])' => pending'[target'[u]] = clone'[u]
        BY <2>4, <2>8, <3>3
      <4> QED
        BY <2>4, <3>1, <3>4, <4>1, <4>2, <4>3 DEF StoreInv, DiskInv
    <3>6. ASSUME Intact' PROVE (LinesOK /\ DiskOK /\ StaysUndecided)'
      <4>1. LinesOK /\ DiskOK /\ StaysUndecided
        BY <2>4, <3>6 DEF DiskInv, Intact
      <4>2. Finished(file)
        BY <2>3, <3>1, <4>1 DEF LinesOK
      <4>3. LinesOK'
        BY <1>0, <3>1, <3>2, <3>3, <4>1, <4>2, AppendedRecord DEF LinesOK
      <4>4. ASSUME NEW j \in Ids, Undecided(j), ~PendingWritable PROVE OnDisk(j)'
        <5>1. \A n \in DOMAIN file : IsRecord(file, n, j) => file[n].request = pending[j]
          BY <4>1, <4>4 DEF DiskOK, OnDisk
        <5>2. ASSUME NEW n \in DOMAIN after, IsRecord(after, n, j) PROVE after[n].request = pending[j]
          <6>1. \/ n \in DOMAIN file /\ IsRecord(file, n, j) /\ after[n] = file[n]
                \/ j = i /\ after[n] = r
            BY <1>0, <3>1, <3>2, <5>2, AppendedRecord
          <6> QED
            BY <2>8, <4>4, <5>1, <6>1
        <5> QED
          BY <2>4, <2>6, <4>4, <5>2 DEF OnDisk
      <4>5. ASSUME NEW j \in Ids, Undecided(j), PendingWritable PROVE OnDisk(j)'
        <5>1. CASE j = i
          <6>1. Newest(after, i, clone[t])
            BY <1>0, <3>1, <3>2, AppendedRecord
          <6> QED
            BY <2>4, <2>6, <2>8, <4>5, <5>1, <6>1 DEF OnDisk
        <5>2. CASE j # i
          <6>1. Newest(file, j, pending[j])
            BY <2>3, <4>1, <4>5, <5>2 DEF DiskOK, OnDisk
          <6>2. Newest(after, j, pending[j])
            BY <1>0, <3>1, <3>2, <5>2, <6>1, AppendedRecord
          <6> QED
            BY <2>4, <2>6, <4>5, <6>2 DEF OnDisk
        <5> QED
          BY <5>1, <5>2
      <4>6. StaysUndecided'
        BY <2>4, <3>1, <3>4, <4>1 DEF StaysUndecided
      <4> QED
        BY <2>4, <4>3, <4>4, <4>5, <4>6 DEF DiskOK
    <3> QED
      BY <3>5, <3>6 DEF DiskInv
  <2>11. CASE AppendNewline(t)
    <3>1. /\ pc[t] = "newline" /\ pc'[t] = "audit" /\ after = Append(file, Newline)
          /\ stored' = stored \cup {i}
      BY <2>1, <2>11 DEF AppendNewline, GoTo, TypeInv, LogTypes, LocalTypes, Files
    <3>2. \A u \in Threads : ~Storing(u)'
      BY <2>3, <2>4, <3>1 DEF Storing
    <3>3. \A j : ~StillStoring(j)'
      BY <3>2 DEF StillStoring, Storing
    <3>4. StoreInv'
      <4>1. \A u \in Threads :
               pc'[u] \in {"audit", "auditPending", "auditApproved"} \/ Storing(u)' => u \in Storers
        BY <2>4, <2>9, <3>1, <3>2 DEF DiskInv, StoreInv
      <4>2. \A u, v \in Threads :
               pc'[u] = "auditPending" /\ pc'[v] \in {"auditPending", "rewritePending"} => u = v
        BY <2>4, <3>1 DEF DiskInv, StoreInv
      <4> QED
        BY <2>2, <2>4, <3>1, <3>2, <3>3, <4>1, <4>2 DEF StoreInv, DiskInv
    <3>5. ASSUME Intact' PROVE (LinesOK /\ DiskOK /\ StaysUndecided)'
      <4>1. LinesOK /\ DiskOK /\ StaysUndecided
        BY <2>4, <3>5 DEF DiskInv, Intact
      <4>2. LinesOK'
        BY <1>0, <3>1, <4>1, AppendedNewline DEF LinesOK
      <4>3. ASSUME NEW j \in Ids, Undecided(j), ~PendingWritable PROVE OnDisk(j)'
        <5>1. \A n \in DOMAIN file : IsRecord(file, n, j) => file[n].request = pending[j]
          BY <4>1, <4>3 DEF DiskOK, OnDisk
        <5>2. ASSUME NEW n \in DOMAIN after, IsRecord(after, n, j) PROVE after[n].request = pending[j]
          BY <1>0, <3>1, <5>1, <5>2, AppendedNewline
        <5> QED
          BY <2>4, <2>6, <4>3, <5>2 DEF OnDisk
      <4>4. ASSUME NEW j \in Ids, Undecided(j), PendingWritable PROVE OnDisk(j)'
        <5>1. Newest(file, j, pending[j])
          BY <2>3, <3>1, <4>1, <4>4 DEF DiskOK, OnDisk
        <5>2. Newest(after, j, pending[j])
          BY <1>0, <3>1, <5>1, AppendedNewline
        <5> QED
          BY <2>4, <2>6, <4>4, <5>2 DEF OnDisk
      <4>5. StaysUndecided'
        BY <2>4, <2>7, <3>1, <3>3, <4>1 DEF StaysUndecided
      <4> QED
        BY <2>4, <4>2, <4>3, <4>4, <4>5 DEF DiskOK
    <3> QED
      BY <3>4, <3>5 DEF DiskInv
  <2> QED
    BY <1>3, <2>10, <2>11
<1> QED
  BY <1>2, <1>3

\* The text of a rewrite of pending.log laid over what was appended meanwhile holds
\* every request that awaits a decision, up to date.
LEMMA RewrittenPending ==
    ASSUME TypeInv, LinesOK, DiskOK, ~PendingWritable
    PROVE  LET after == Overlay(log["pending"], Serialized(pending))
           IN  /\ after \in File
               /\ Separated(after)
               /\ Finished(log["pending"]) => Finished(after)
               /\ \A i \in Ids : Undecided(i) =>
                     /\ \A n \in DOMAIN after : IsRecord(after, n, i) => after[n].request = pending[i]
                     /\ Newest(after, i, pending[i])
<1> DEFINE file == log["pending"]
           text == Serialized(pending)
           after == Overlay(file, text)
<1>1. file \in File /\ pending \in Cache
  BY DEF TypeInv, LogTypes, Files, File, CacheTypes
<1>2. /\ text \in File /\ Separated(text) /\ Finished(text)
      /\ \A n \in DOMAIN text : \A i \in Ids :
            IsRecord(text, n, i) => text[n].request = pending[i]
      /\ \A i \in Cached(pending) : \E n \in DOMAIN text : IsRecord(text, n, i)
  BY <1>1, SerializedLines
<1>3. after \in File /\ Separated(after) /\ (Finished(file) => Finished(after))
  BY <1>1, <1>2, OverlayAt, OverlayLines DEF LinesOK
<1>4. /\ DOMAIN text \subseteq DOMAIN after
      /\ \A n \in DOMAIN text : after[n] = text[n]
      /\ \A n \in DOMAIN after \ DOMAIN text : n \in DOMAIN file /\ after[n] = file[n]
  BY <1>1, <1>2, OverlayAt
<1> HIDE DEF text, after
<1>5. ASSUME NEW i \in Ids, Undecided(i)
      PROVE  /\ \A n \in DOMAIN after : IsRecord(after, n, i) => after[n].request = pending[i]
             /\ Newest(after, i, pending[i])
  <2>1. \A n \in DOMAIN file : IsRecord(file, n, i) => file[n].request = pending[i]
    BY <1>5 DEF DiskOK, OnDisk
  <2>2. ASSUME NEW n \in DOMAIN after, IsRecord(after, n, i) PROVE after[n].request = pending[i]
    BY <1>2, <1>4, <2>1, <2>2 DEF IsRecord
  <2>3. PICK n \in DOMAIN text : IsRecord(text, n, i)
    BY <1>2, <1>5 DEF Undecided, Cached
  <2>4. n \in DOMAIN after /\ IsRecord(after, n, i)
    BY <1>4, <2>3 DEF IsRecord
  <2>5. Newest(after, i, pending[i])
    BY <1>3, <2>2, <2>4, AllNewest
  <2> QED
    BY <2>2, <2>5
<1> QED
  BY <1>3, <1>5 DEF text, after

\* ... the steps that rewrite it, ...
LEMMA RewriteSteps ==
    ASSUME OneStorer, TypeInv, TypeInv', SafeInv, DiskInv, NEW t \in Threads
    PROVE  /\ LinkPending(t) => DiskInv'
           /\ Clear(t) => DiskInv'
           /\ FinishLink(t) \/ RewritePending(t) => DiskInv'
<1> USE DEF caches, local, faults, history
<1>1. \A u \in Threads : Storing(u) => u \in Storers
  BY DEF DiskInv, StoreInv
<1>2. Separated(<<>>) /\ Finished(<<>>) /\ DOMAIN <<>> = {}
  BY DEF Separated, Finished
<1>3. ASSUME LinkPending(t) PROVE DiskInv'
  <2>1. t \in Storers /\ target[t] \in Ids /\ PendingWritable
    BY <1>3 DEF LinkPending, DiskInv, StoreInv, TypeInv, LocalsOK, Busy
  <2>2. \A u \in Threads : ~Storing(u)
    BY <1>1, <1>3, <2>1 DEF OneStorer, LinkPending, Storing
  <2>3. /\ UNCHANGED <<created, outcomes, stored, errors, torn, target, clone>>
        /\ pc'[t] = "auditPending" /\ \A u \in Threads \ {t} : pc'[u] = pc[u]
        /\ log'["pending"] = <<>>
    BY <1>3 DEF LinkPending, GoTo, TypeInv, LocalTypes, LogTypes, Files
  <2>4. \A j \in Ids : Undecided(j)' <=> Undecided(j)
    <3>1. pending[target[t]] \in Request
      BY <1>3, <2>1 DEF LinkPending, TypeInv, CacheTypes, Cache
    <3>2. Linked(pending[target[t]]) \in Request /\ Linked(pending[target[t]]).status = pending[target[t]].status
      BY <3>1, ChangedRequests
    <3>3. \A j \in Ids : pending'[j] = IF j = target[t] THEN Linked(pending[target[t]]) ELSE pending[j]
      BY <1>3, <2>1 DEF LinkPending, TypeInv, CacheTypes, Cache
    <3> QED
      BY <3>1, <3>2, <3>3, ConstantsAssumption DEF Undecided, ConstantsAssumption
  <2>5. \A u \in Threads : ~Storing(u)'
    BY <2>2, <2>3 DEF Storing
  <2>6. \A j : ~StillStoring(j)' /\ ~StillStoring(j)
    BY <2>2, <2>5 DEF StillStoring, Storing
  <2>7. StoreInv'
    <3>1. \A u, v \in Threads :
             pc'[u] = "auditPending" /\ pc'[v] \in {"auditPending", "rewritePending"} => u = v
      BY <2>1, <2>3 DEF PendingWritable
    <3>2. \A u \in Threads :
             pc'[u] \in {"audit", "auditPending", "auditApproved"} \/ Storing(u)' => u \in Storers
      BY <2>1, <2>3, <2>5 DEF DiskInv, StoreInv
    <3> QED
      BY <2>3, <2>5, <2>6, <3>1, <3>2 DEF DiskInv, StoreInv
  <2>8. ASSUME Intact' PROVE (LinesOK /\ DiskOK /\ StaysUndecided)'
    <3>1. StaysUndecided
      BY <2>3, <2>8 DEF DiskInv, Intact
    <3>2. ~PendingWritable'
      BY <2>3 DEF PendingWritable
    <3>3. \A j \in Ids : OnDisk(j)'
      BY <1>2, <2>3, <3>2 DEF OnDisk
    <3>4. LinesOK'
      BY <1>2, <2>3 DEF LinesOK
    <3>5. StaysUndecided'
      BY <2>3, <2>4, <2>6, <3>1 DEF StaysUndecided
    <3> QED
      BY <3>3, <3>4, <3>5 DEF DiskOK
  <2> QED
    BY <2>7, <2>8 DEF DiskInv
<1>4. ASSUME Clear(t) PROVE DiskInv'
  <2>1. /\ UNCHANGED <<pending, created, outcomes, stored, errors, torn, target, clone>>
        /\ pc[t] = "clear" /\ pc'[t] = "rewritePending"
        /\ \A u \in Threads \ {t} : pc'[u] = pc[u]
        /\ log'["pending"] = <<>>
    BY <1>4 DEF Clear, GoTo, TypeInv, LocalTypes, LogTypes, Files
  <2>2. \A u \in Threads : pc[u] # "auditPending"
    BY <1>4 DEF Clear, PendingReadable
  <2>3. \A u \in Threads : Storing(u)' <=> Storing(u)
    BY <2>1 DEF Storing
  <2>4. \A j : StillStoring(j)' <=> StillStoring(j)
    BY <2>1, <2>3, StillStoringIs DEF StillStoring, Storing
  <2>5. \A j : Undecided(j)' <=> Undecided(j)
    BY <2>1 DEF Undecided
  <2>6. StoreInv'
    <3>1. \A u \in Threads :
             pc'[u] \in {"audit", "auditPending", "auditApproved"} \/ Storing(u)' => u \in Storers
      BY <2>1, <2>3 DEF DiskInv, StoreInv
    <3>2. \A u \in Threads : Storing(u)' /\ Undecided(target[u])' => pending'[target'[u]] = clone'[u]
      BY <2>1, <2>3, <2>5 DEF DiskInv, StoreInv
    <3> QED
      BY <2>1, <2>2, <2>4, <3>1, <3>2 DEF DiskInv, StoreInv
  <2>7. ASSUME Intact' PROVE (LinesOK /\ DiskOK /\ StaysUndecided)'
    <3>1. StaysUndecided
      BY <2>1, <2>7 DEF DiskInv, Intact
    <3>2. ~PendingWritable'
      BY <2>1 DEF PendingWritable
    <3>3. \A j \in Ids : OnDisk(j)'
      BY <1>2, <2>1, <3>2 DEF OnDisk
    <3>4. LinesOK'
      BY <1>2, <2>1 DEF LinesOK
    <3>5. StaysUndecided'
      BY <2>1, <2>4, <2>5, <3>1 DEF StaysUndecided
    <3> QED
      BY <3>3, <3>4, <3>5 DEF DiskOK
  <2> QED
    BY <2>6, <2>7 DEF DiskInv
<1>5. ASSUME FinishLink(t) \/ RewritePending(t) PROVE DiskInv'
  <2> DEFINE after == Overlay(log["pending"], Serialized(pending))
  <2>1. /\ UNCHANGED <<pending, created, outcomes, stored, errors, torn>>
        /\ pc[t] \in {"auditPending", "rewritePending"} /\ pc'[t] \in {"idle", "moved"}
        /\ \A u \in Threads \ {t} : UNCHANGED <<pc[u], target[u], clone[u]>>
        /\ log'["pending"] = after
    BY <1>5 DEF FinishLink, RewritePending, GoTo, Return, TypeInv, LocalTypes, LogTypes, Files
  <2>2. \A u \in Threads : /\ Storing(u)' <=> Storing(u)
                           /\ Storing(u) => u # t /\ UNCHANGED <<pc[u], target[u], clone[u]>>
    BY <2>1 DEF Storing
  <2>3. \A j : StillStoring(j)' <=> StillStoring(j)
    BY <2>2, StillStoringIs DEF StillStoring, Storing
  <2>4. \A j : Undecided(j)' <=> Undecided(j)
    BY <2>1 DEF Undecided
  <2>5. StoreInv'
    <3>1. \A u \in Threads :
             pc'[u] \in {"audit", "auditPending", "auditApproved"} \/ Storing(u)' => u \in Storers
      BY <2>1, <2>2 DEF DiskInv, StoreInv
    <3>2. ASSUME NEW u \in Threads, Storing(u)', Undecided(target[u])' PROVE pending'[target'[u]] = clone'[u]
      BY <2>1, <2>2, <2>4, <3>2 DEF DiskInv, StoreInv, Undecided
    <3>3. \A u, v \in Threads :
             pc'[u] = "auditPending" /\ pc'[v] \in {"auditPending", "rewritePending"} => u = v
      BY <2>1 DEF DiskInv, StoreInv
    <3>4. stored' \subseteq created' /\ \A i \in stored' : ~StillStoring(i)'
      BY <2>1, <2>3 DEF DiskInv, StoreInv
    <3> QED
      BY <3>1, <3>2, <3>3, <3>4 DEF StoreInv
  <2>6. ASSUME Intact' PROVE (LinesOK /\ DiskOK /\ StaysUndecided)'
    <3>1. LinesOK /\ DiskOK /\ StaysUndecided
      BY <2>1, <2>6 DEF DiskInv, Intact
    <3>2. ~PendingWritable
      BY <2>1 DEF PendingWritable
    <3>3. /\ Separated(after)
          /\ Finished(log["pending"]) => Finished(after)
          /\ \A i \in Ids : Undecided(i) =>
                /\ \A n \in DOMAIN after : IsRecord(after, n, i) => after[n].request = pending[i]
                /\ Newest(after, i, pending[i])
      BY <3>1, <3>2, RewrittenPending
    <3> HIDE DEF after
    <3>4. ASSUME NEW i \in Ids, Undecided(i)' PROVE OnDisk(i)'
      BY <2>1, <2>4, <3>3, <3>4 DEF OnDisk
    <3>5. LinesOK'
      BY <2>1, <2>2, <3>1, <3>3 DEF LinesOK
    <3>6. StaysUndecided'
      BY <2>1, <2>3, <2>4, <3>1 DEF StaysUndecided
    <3> QED
      BY <3>4, <3>5, <3>6 DEF DiskOK
  <2> QED
    BY <2>5, <2>6 DEF DiskInv
<1> QED
  BY <1>3, <1>4, <1>5

\* ... a restart, which loads it, and an I/O error.
LEMMA FaultSteps ==
    ASSUME TypeInv, TypeInv', SafeInv, DiskInv
    PROVE  /\ Restart => DiskInv'
           /\ \A t \in Threads : IoError(t) => DiskInv'
<1> USE DEF caches, local, faults, history
<1>1. ASSUME Restart PROVE DiskInv'
  <2>1. /\ UNCHANGED <<log, created, outcomes, stored, errors>>
        /\ pending' = LoadFromFile(log["pending"])
        /\ \A t \in Threads : pc'[t] = "idle"
        /\ torn' = (torn \/ \E t \in Threads : pc[t] \in MidWrite)
    BY <1>1 DEF Restart
  <2>2. (\A t \in Threads : ~Storing(t)') /\ (\A i : ~StillStoring(i)') /\ PendingWritable'
    BY <2>1 DEF Storing, StillStoring, PendingWritable
  <2>3. StoreInv'
    BY <2>1, <2>2 DEF StoreInv, DiskInv
  <2>4. ASSUME Intact' PROVE (LinesOK /\ DiskOK /\ StaysUndecided)'
    <3>1. Intact /\ \A t \in Threads : pc[t] \notin MidWrite
      BY <2>1, <2>4 DEF Intact
    <3>2. LinesOK /\ DiskOK /\ StaysUndecided /\ StoreInv
      BY <3>1 DEF DiskInv
    <3>3. PendingWritable /\ log["pending"] \in File
      BY <3>1 DEF MidWrite, PendingWritable, TypeInv, LogTypes, Files, File
    <3>4. Separated(log["pending"]) /\ Finished(log["pending"])
      BY <3>1, <3>2 DEF LinesOK, MidWrite
    <3>5. LinesOK'
      BY <2>1, <3>4 DEF LinesOK
    <3>6. ASSUME NEW i \in Ids, Undecided(i)' PROVE OnDisk(i)'
      <4>1. Newest(log["pending"], i, pending'[i])
        BY <2>1, <3>3, <3>4, <3>6, LoadedNewest DEF Undecided
      <4> QED
        BY <2>1, <2>2, <4>1 DEF OnDisk
    <3>7. ASSUME NEW i \in Ids, outcomes'[i] = {}, i \in stored' PROVE Undecided(i)'
      <4>1. Undecided(i) /\ ~StillStoring(i)
        BY <2>1, <3>2, <3>7 DEF StaysUndecided, StoreInv
      <4>2. Newest(log["pending"], i, pending[i])
        BY <3>2, <3>3, <4>1, StillStoringIs DEF DiskOK, OnDisk
      <4>3. pending'[i] = pending[i]
        BY <2>1, <3>3, <3>4, <4>2, LoadedNewest
      <4> QED
        BY <4>1, <4>3 DEF Undecided
    <3> QED
      BY <2>2, <3>5, <3>6, <3>7 DEF DiskOK, StaysUndecided
  <2> QED
    BY <2>3, <2>4 DEF DiskInv
<1>2. ASSUME NEW t \in Threads, IoError(t) PROVE DiskInv'
  <2>1. ~Intact'
    BY <1>2 DEF IoError, Intact, TypeInv, HistoryTypes
  <2>2. UNCHANGED <<pending, created, stored>>
    BY <1>2 DEF IoError
  <2>3. \A u \in Threads \ {t} : UNCHANGED <<pc[u], target[u], clone[u]>>
    BY <1>2 DEF IoError, GoTo, Return, TypeInv, LocalTypes
  <2>4. pc'[t] \in {"audit", "idle"} /\ (pc'[t] = "audit" => t \in Storers)
    BY <1>2 DEF IoError, GoTo, Return, TypeInv, LocalTypes, DiskInv, StoreInv, Storing
  <2>5. \A u \in Threads : Storing(u)' => u # t /\ Storing(u)
    BY <2>3, <2>4 DEF Storing
  <2>6. \A i : StillStoring(i)' => StillStoring(i)
    BY <2>3, <2>5, StillStoringIs DEF StillStoring, Storing
  <2>7. StoreInv'
    <3>1. \A u \in Threads :
             pc'[u] \in {"audit", "auditPending", "auditApproved"} \/ Storing(u)' => u \in Storers
      BY <2>3, <2>4, <2>5 DEF DiskInv, StoreInv
    <3>2. ASSUME NEW u \in Threads, Storing(u)', Undecided(target[u])' PROVE pending'[target'[u]] = clone'[u]
      BY <2>2, <2>3, <2>5, <3>2 DEF DiskInv, StoreInv, Undecided
    <3>3. \A u, v \in Threads :
             pc'[u] = "auditPending" /\ pc'[v] \in {"auditPending", "rewritePending"} => u = v
      BY <2>3, <2>4 DEF DiskInv, StoreInv
    <3>4. stored' \subseteq created' /\ \A i \in stored' : ~StillStoring(i)'
      BY <2>2, <2>6 DEF DiskInv, StoreInv
    <3> QED
      BY <3>1, <3>2, <3>3, <3>4 DEF StoreInv
  <2> QED
    BY <2>1, <2>7 DEF DiskInv
<1> QED
  BY <1>1, <1>2

\* So every step keeps DiskInv, faults included.
LEMMA DiskStep ==
    ASSUME OneStorer, TypeInv, TypeInv', SafeInv, DiskInv, [FaultyNext]_vars
    PROVE  DiskInv'
<1>1. Aside => DiskInv'
  BY AsideKeeps
<1>2. ASSUME NEW t \in Threads, AppendRecord(t) \/ AppendNewline(t) PROVE DiskInv'
  BY <1>1, <1>2, AsideSteps, StoreSteps
<1> QED
  BY <1>1, <1>2, AsideSteps, StoreSteps, RewriteSteps, FaultSteps
     DEF FaultyNext, Next, Call, Continue

LEMMA DiskInit == Init => DiskInv
<1> SUFFICES ASSUME Init PROVE DiskInv
  OBVIOUS
<1>1. (\A t \in Threads : pc[t] = "idle") /\ stored = {} /\ log["pending"] = <<>> /\ \A i \in Ids : ~Undecided(i)
  BY DEF Init, Files, Undecided
<1>2. Separated(<<>>) /\ Finished(<<>>)
  BY DEF Separated, Finished
<1>3. (\A t \in Threads : ~Storing(t)) /\ (\A i : ~StillStoring(i))
  BY <1>1 DEF Storing, StillStoring
<1> QED
  BY <1>1, <1>2, <1>3 DEF DiskInv, StoreInv, LinesOK, DiskOK, StaysUndecided

LEMMA OnDiskAlways ==
    ASSUME OneStorer
    PROVE  FaultySpec => [](TypeInv /\ SafeInv /\ DiskInv)
<1>1. TypeInv /\ SafeInv /\ DiskInv /\ [FaultyNext]_vars => (TypeInv /\ SafeInv /\ DiskInv)'
  BY TypeStep, SafeStep, DiskStep
<1> QED
  BY <1>1, TypeInit, SafeInit, DiskInit, PTL DEF FaultySpec

\* With one storing task, pending.log holds an up-to-date line of every request
\* that awaits a decision, except while it is being rewritten or stored.
THEOREM PendingIsOnDisk ==
    ASSUME OneStorer
    PROVE  Spec => []PendingOnDisk
<1>1. TypeInv /\ DiskInv /\ Intact => PendingOnDisk
  <2> SUFFICES ASSUME TypeInv, DiskInv, Intact, PendingWritable,
                      NEW i \in Ids, Undecided(i), ~StillStoring(i)
               PROVE  LoadFromFile(log["pending"])[i] = pending[i]
    BY DEF PendingOnDisk, Undecided
  <2>1. log["pending"] \in File /\ Separated(log["pending"])
    BY DEF TypeInv, LogTypes, Files, File, DiskInv, LinesOK
  <2>2. Newest(log["pending"], i, pending[i])
    BY StillStoringIs DEF DiskInv, DiskOK, OnDisk
  <2> QED
    BY <2>1, <2>2, LoadedNewest
<1>2. Init => Intact
  BY DEF Init, Intact
<1>3. Intact /\ [Next]_vars => Intact'
  <2> SUFFICES ASSUME Intact, [Next]_vars PROVE UNCHANGED <<errors, torn>>
    BY DEF Intact
  <2> USE DEF caches, local, faults, history
  <2>1. ASSUME NEW t \in Threads, ListPending(t) PROVE UNCHANGED <<errors, torn>>
    BY <2>1 DEF ListPending, Note
  <2>2. ASSUME NEW t \in Threads, \E i \in Ids : StorePending(t, i) PROVE UNCHANGED <<errors, torn>>
    BY <2>2 DEF StorePending
  <2>3. ASSUME NEW t \in Threads, \E i \in Ids : Approve(t, i) \/ Reject(t, i) \/ GetOverdue(t, i) PROVE UNCHANGED <<errors, torn>>
    BY <2>3 DEF Approve, Reject, GetOverdue, TakeOut
  <2>4. ASSUME NEW t \in Threads, AppendRecord(t) \/ AppendNewline(t) \/ SkipAuditIds(t) PROVE UNCHANGED <<errors, torn>>
    BY <2>4 DEF AppendRecord, AppendNewline, SkipAuditIds
  <2>5. ASSUME NEW t \in Threads, LinkPending(t) \/ LinkElsewhere(t) \/ LinkApproved(t) \/ LinkNowhere(t) PROVE UNCHANGED <<errors, torn>>
    BY <2>5 DEF LinkPending, LinkElsewhere, LinkApproved, LinkNowhere
  <2>6. ASSUME NEW t \in Threads, FinishLink(t) \/ FinishRewriteApproved(t) PROVE UNCHANGED <<errors, torn>>
    BY <2>6 DEF FinishLink, FinishRewriteApproved
  <2>7. ASSUME NEW t \in Threads, InsertDenied(t) \/ InsertApproved(t) PROVE UNCHANGED <<errors, torn>>
    BY <2>7 DEF InsertDenied, InsertApproved
  <2>8. ASSUME NEW t \in Threads, Clear(t) \/ RewritePending(t) \/ MoveNext(t) PROVE UNCHANGED <<errors, torn>>
    BY <2>8 DEF Clear, RewritePending, MoveNext
  <2>9. ASSUME NEW t \in Threads, ReturnMoved(t) \/ UpdateWithResult(t) PROVE UNCHANGED <<errors, torn>>
    BY <2>9 DEF ReturnMoved, UpdateWithResult
  <2>10. ASSUME NEW i \in Ids, TimePasses(i) PROVE UNCHANGED <<errors, torn>>
    BY <2>10 DEF TimePasses
  <2> QED
    BY <2>1, <2>2, <2>3, <2>4, <2>5, <2>6, <2>7, <2>8, <2>9, <2>10 DEF Next, Call, Continue, vars
<1>4. Spec => []Intact
  BY <1>2, <1>3, PTL DEF Spec
<1> QED
  BY <1>1, <1>4, OnDiskAlways, SpecIsFaulty, PTL

\* Neither a restart between two writes nor anything else but a decision ends the
\* wait of a stored request, as long as no write failed or was cut in two.
THEOREM UndecidedRequestsSurvive ==
    ASSUME OneStorer
    PROVE  FaultySpec => []UndecidedSurvive
<1>1. TypeInv /\ DiskInv => UndecidedSurvive
  BY DEF TypeInv, HistoryTypes, DiskInv, Intact, StaysUndecided, Undecided, UndecidedSurvive
<1> QED
  BY <1>1, OnDiskAlways, PTL

(***************************************************************************)
(* Without faults: the files of the decisions.                             *)
(***************************************************************************)

\* Thread t moves, or has moved, an approval or another decision.
Approving(t) == clone[t] # Absent /\ clone[t].status = "Approved"
Denying(t) == clone[t] # Absent /\ clone[t].status \notin {"Approved", "Pending"}

\* The action was not executed yet.
NoResult(request) == request.result = FALSE

\* Only what is or was cached as approved has a result.
NoResults ==
    /\ \A i \in Ids : /\ pending[i] # Absent => NoResult(pending[i])
                      /\ denied[i] # Absent => NoResult(denied[i])
    /\ \A t \in Threads : /\ clone[t] # Absent => NoResult(clone[t])
                          /\ \A record \in todo[t] : NoResult(record.request)

\* One thread at a time has an approval of a request in hand.
OneApprover ==
    \A t, u \in Threads : Approving(t) /\ Approving(u) /\ target[t] = target[u] => t = u

HandsInv == NoResults /\ OneApprover

\* The approval still has to be written to the file of i.
ApprovalDue(i) == \E t \in Threads : Approving(t) /\ pc[t] = "append" /\ target[t] = i
DenialDue(i) == \E t \in Threads : Denying(t) /\ pc[t] = "append" /\ target[t] = i

\* denied.log grows only.
DenialsOnFile ==
    /\ \A n \in DOMAIN log["denied"] :
          log["denied"][n] # Newline => NoResult(log["denied"][n].request)
    /\ \A i \in Ids : denied[i] # Absent =>
          DenialDue(i) \/ \E n \in DOMAIN log["denied"] : IsRecord(log["denied"], n, i)

\* The newest record of a cached approval has its result; while approved.log is
\* being rewritten, none has another.
ApprovalOnFile(i) ==
    IF ApprovedWritable
    THEN \/ ApprovalDue(i)
         \/ \E q \in Request : Newest(log["approved"], i, q) /\ q.result = approved[i].result
    ELSE \A n \in DOMAIN log["approved"] :
            IsRecord(log["approved"], n, i) => log["approved"][n].request.result = approved[i].result

\* The result comes after the approval was written.
ResultsLast ==
    \A t \in Threads :
        Approving(t) /\ pc[t] \in {"insert", "append"} /\ approved[target[t]] # Absent
            => NoResult(approved[target[t]])

OneRewriter == \A t, u \in Threads : pc[t] = "rewriteApproved" /\ pc[u] = "rewriteApproved" => t = u

DecisionInv ==
    /\ DenialsOnFile
    /\ \A i \in Ids : approved[i] # Absent => ApprovalOnFile(i)
    /\ ResultsLast
    /\ OneRewriter

\* A step that hands no thread a request and gives no cached one a result.
HandsKept ==
    /\ \A t \in Threads : /\ clone'[t] = Absent \/ UNCHANGED <<clone[t], target[t]>>
                          /\ todo'[t] \subseteq todo[t]
    /\ \A i \in Ids : /\ pending'[i] # Absent => NoResult(pending'[i])
                      /\ denied'[i] # Absent => NoResult(denied'[i])

LEMMA KeptHands ==
    ASSUME HandsInv, HandsKept
    PROVE  HandsInv'
BY DEF HandsInv, NoResults, OneApprover, Approving, HandsKept

\* A step that hands thread t the request i, which nobody holds as approved.
LEMMA HandedOver ==
    ASSUME TypeInv, HandsInv, NEW t \in Threads, NEW i \in Ids, NEW r \in Request, NoResult(r),
           r.status = "Approved" => \A u \in Threads : ~(Approving(u) /\ target[u] = i),
           target' = [target EXCEPT ![t] = i], clone' = [clone EXCEPT ![t] = r],
           \A u \in Threads : todo'[u] \subseteq todo[u],
           \A j \in Ids : pending'[j] # Absent => NoResult(pending'[j]),
           UNCHANGED denied
    PROVE  HandsInv'
<1>1. \A u \in Threads : /\ target'[u] = IF u = t THEN i ELSE target[u]
                        /\ clone'[u] = IF u = t THEN r ELSE clone[u]
  BY DEF TypeInv, LocalTypes
<1>2. NoResults'
  BY <1>1 DEF HandsInv, NoResults
<1>3. OneApprover'
  BY <1>1 DEF HandsInv, OneApprover, Approving
<1> QED
  BY <1>2, <1>3 DEF HandsInv

\* A decision and a link leave the result alone.
LEMMA SameResults ==
    /\ NoResult(NewRequest)
    /\ \A r \in Request :
          /\ \A outcome : Decided(r, outcome).result = r.result
          /\ Linked(r).result = r.result
          /\ NoResult(r) => NoResult(Linked(r)) /\ \A outcome : NoResult(Decided(r, outcome))
<1>1. NoResult(NewRequest)
  BY DEF NoResult, NewRequest
<1>2. ASSUME NEW r \in Request
      PROVE  (\A outcome : Decided(r, outcome).result = r.result) /\ Linked(r).result = r.result
  BY DEF Request, Decided, Linked
<1>3. ASSUME NEW r \in Request, NoResult(r)
      PROVE  NoResult(Linked(r)) /\ \A outcome : NoResult(Decided(r, outcome))
  BY <1>2, <1>3, Zenon DEF NoResult
<1> QED
  BY <1>1, <1>2, <1>3, Zenon

\* Every operation keeps HandsInv.
LEMMA HandsStep ==
    ASSUME TypeInv, TypeInv', SafeInv, OnceInv, HandsInv, [Next]_vars
    PROVE  HandsInv'
<1> USE DEF caches, local, faults, history
<1>0. \A i \in Ids : /\ pending[i] # Absent => NoResult(pending[i]) /\ pending[i] \in Request
                     /\ denied[i] # Absent => NoResult(denied[i]) /\ denied[i] \in Request
  BY DEF HandsInv, NoResults, TypeInv, CacheTypes, Cache
<1>1. ASSUME NEW t \in Threads, SkipAuditIds(t) PROVE HandsKept
  BY <1>0, <1>1 DEF SkipAuditIds, Return, GoTo, HandsKept, TypeInv, LocalTypes
<1>2. ASSUME NEW t \in Threads, LinkElsewhere(t) PROVE HandsKept
  BY <1>0, <1>2 DEF LinkElsewhere, Return, GoTo, HandsKept, TypeInv, LocalTypes
<1>3. ASSUME NEW t \in Threads, LinkApproved(t) PROVE HandsKept
  BY <1>0, <1>3 DEF LinkApproved, Return, GoTo, HandsKept, TypeInv, LocalTypes
<1>4. ASSUME NEW t \in Threads, LinkNowhere(t) PROVE HandsKept
  BY <1>0, <1>4 DEF LinkNowhere, Return, GoTo, HandsKept, TypeInv, LocalTypes
<1>5. ASSUME NEW t \in Threads, FinishLink(t) PROVE HandsKept
  BY <1>0, <1>5 DEF FinishLink, Return, GoTo, HandsKept, TypeInv, LocalTypes
<1>6. ASSUME NEW t \in Threads, FinishRewriteApproved(t) PROVE HandsKept
  BY <1>0, <1>6 DEF FinishRewriteApproved, Return, GoTo, HandsKept, TypeInv, LocalTypes
<1>7. ASSUME NEW t \in Threads, Clear(t) PROVE HandsKept
  BY <1>0, <1>7 DEF Clear, Return, GoTo, HandsKept, TypeInv, LocalTypes
<1>8. ASSUME NEW t \in Threads, RewritePending(t) PROVE HandsKept
  BY <1>0, <1>8 DEF RewritePending, Return, GoTo, HandsKept, TypeInv, LocalTypes
<1>9. ASSUME NEW t \in Threads, ReturnMoved(t) PROVE HandsKept
  BY <1>0, <1>9 DEF ReturnMoved, Return, GoTo, HandsKept, TypeInv, LocalTypes
<1>10. ASSUME NEW t \in Threads, UpdateWithResult(t) PROVE HandsKept
  BY <1>0, <1>10 DEF UpdateWithResult, Return, GoTo, HandsKept, TypeInv, LocalTypes
<1>11. ASSUME NEW t \in Threads, AppendRecord(t) PROVE HandsKept
  BY <1>0, <1>11 DEF AppendRecord, Return, GoTo, HandsKept, TypeInv, LocalTypes
<1>12. ASSUME NEW t \in Threads, AppendNewline(t) PROVE HandsKept
  BY <1>0, <1>12 DEF AppendNewline, Return, GoTo, HandsKept, TypeInv, LocalTypes
<1>13. ASSUME NEW t \in Threads, InsertApproved(t) PROVE HandsKept
  BY <1>0, <1>13 DEF InsertApproved, Return, GoTo, HandsKept, TypeInv, LocalTypes
<1>14. ASSUME NEW i \in Ids, TimePasses(i) PROVE HandsKept
  BY <1>0, <1>14 DEF TimePasses, HandsKept
<1>15. CASE UNCHANGED vars
  BY <1>0, <1>15, KeptHands DEF vars, HandsKept
<1>16. ASSUME NEW t \in Threads, LinkPending(t) PROVE HandsKept
  <2>1. target[t] \in Ids
    BY <1>16 DEF LinkPending, TypeInv, LocalsOK, Busy
  <2>2. \A i \in Ids : pending'[i] = IF i = target[t] THEN Linked(pending[i]) ELSE pending[i]
    BY <1>16, <2>1 DEF LinkPending, TypeInv, CacheTypes, Cache
  <2>3. \A i \in Ids : pending'[i] # Absent => NoResult(pending'[i])
    BY <1>0, <1>16, <2>2, SameResults DEF LinkPending
  <2> QED
    BY <1>0, <1>16, <2>3 DEF LinkPending, GoTo, HandsKept
<1>17. ASSUME NEW t \in Threads, InsertDenied(t) PROVE HandsKept
  <2>1. target[t] \in Ids /\ clone[t] \in Request
    BY <1>17 DEF InsertDenied, TypeInv, LocalsOK, Busy
  <2>2. NoResult(clone[t])
    BY <2>1, ConstantsAssumption DEF HandsInv, NoResults, ConstantsAssumption
  <2> DEFINE grown == [denied EXCEPT ![target[t]] = clone[t]]
  <2>3. \A i \in Ids : grown[i] = IF i = target[t] THEN clone[t] ELSE denied[i]
    BY <2>1 DEF TypeInv, CacheTypes, Cache
  <2>4. \A i \in Ids : denied'[i] = Absent \/ denied'[i] = grown[i]
    BY <1>17 DEF InsertDenied, Without
  <2>5. \A i \in Ids : denied'[i] # Absent => NoResult(denied'[i])
    BY <1>0, <2>2, <2>3, <2>4
  <2> QED
    BY <1>0, <1>17, <2>5 DEF InsertDenied, GoTo, HandsKept
<1>18. ASSUME NEW t \in Threads, NEW i \in Ids, StorePending(t, i) PROVE HandsInv'
  <2>1. NewRequest \in Request /\ NoResult(NewRequest) /\ NewRequest.status = "Pending"
    BY SameResults DEF NewRequest, Request, Status
  <2>2. \A j \in Ids : pending'[j] = IF j = i THEN NewRequest ELSE pending[j]
    BY <1>18 DEF StorePending, TypeInv, CacheTypes, Cache
  <2> QED
    BY <1>0, <1>18, <2>1, <2>2, HandedOver DEF StorePending
<1>19. ASSUME NEW t \in Threads, NEW i \in Ids, Approve(t, i) \/ Reject(t, i) \/ GetOverdue(t, i)
      PROVE  HandsInv'
  <2>1. PICK outcome \in Outcomes :
            /\ target' = [target EXCEPT ![t] = i]
            /\ clone' = [clone EXCEPT ![t] = Decided(pending[i], outcome)]
            /\ outcome = "Approved" => pending[i].status = "Pending"
    BY <1>19 DEF Approve, Reject, GetOverdue, TakeOut, Outcomes
  <2>2. pending[i] # Absent /\ UNCHANGED <<denied, todo>>
    BY <1>19 DEF Approve, Reject, GetOverdue, TakeOut
  <2>3. /\ Decided(pending[i], outcome) \in Request
        /\ Decided(pending[i], outcome).status = outcome
        /\ \A o : NoResult(Decided(pending[i], o))
    BY <1>0, <2>2, ChangedRequests, SameResults DEF TypeInv, HistoryTypes
  <2>4. ASSUME outcome = "Approved", NEW u \in Threads, Approving(u), target[u] = i PROVE FALSE
    BY <2>1, <2>2, <2>4 DEF Approving, SafeInv, MovesOK, Undecided
  <2>5. \A j \in Ids : pending'[j] = pending[j] \/ (j = i /\ (pending'[j] = Absent \/ \E o : pending'[j] = Decided(pending[i], o)))
    BY <1>19 DEF Approve, Reject, GetOverdue, TakeOut, TypeInv, CacheTypes, Cache
  <2>6. \A j \in Ids : pending'[j] # Absent => NoResult(pending'[j])
    BY <1>0, <2>3, <2>5
  <2> QED
    BY <2>1, <2>2, <2>3, <2>4, <2>6, HandedOver
<1>20. ASSUME NEW t \in Threads, ListPending(t) PROVE HandsInv'
  <2> DEFINE overdue == {i \in expired : pending[i] # Absent /\ pending[i].status = "Pending"}
             taken == {[id |-> i, request |-> Decided(pending[i], "Expired")] : i \in overdue}
  <2>1. overdue \subseteq Ids
    BY DEF TypeInv, HistoryTypes
  <2>2. \A record \in taken : NoResult(record.request)
    BY <1>0, <2>1, SameResults
  <2>3. /\ \A i \in Ids : pending'[i] = Absent \/ pending'[i] = pending[i]
        /\ \A u \in Threads : todo'[u] = IF u = t THEN taken ELSE todo[u]
        /\ UNCHANGED <<denied, target, clone>>
    BY <1>20 DEF ListPending, Without, TypeInv, LocalTypes
  <2> HIDE DEF taken
  <2> QED
    BY <1>0, <2>2, <2>3 DEF HandsInv, NoResults, OneApprover, Approving
<1>21. ASSUME NEW t \in Threads, MoveNext(t) PROVE HandsInv'
  <2>1. PICK record \in todo[t] :
            /\ target' = [target EXCEPT ![t] = record.id]
            /\ clone' = [clone EXCEPT ![t] = record.request]
            /\ todo' = [todo EXCEPT ![t] = @ \ {record}]
    BY <1>21 DEF MoveNext
  <2>2. /\ record.id \in Ids /\ record.request \in Request
        /\ record.request.status = "Expired" /\ NoResult(record.request)
    BY DEF TypeInv, LocalTypes, LocalsOK, Record, HandsInv, NoResults
  <2>3. UNCHANGED <<pending, denied>> /\ \A u \in Threads : todo'[u] \subseteq todo[u]
    BY <1>21, <2>1 DEF MoveNext, TypeInv, LocalTypes
  <2> QED
    BY <1>0, <2>1, <2>2, <2>3, HandedOver
<1> QED
  BY <1>1, <1>2, <1>3, <1>4, <1>5, <1>6, <1>7, <1>8, <1>9, <1>10, <1>11, <1>12, <1>13, <1>14, <1>15, <1>16, <1>17, <1>18, <1>19, <1>20, <1>21, KeptHands
     DEF Next, Call, Continue

\* A step that changes neither the caches nor the files of the decisions, and after
\* which a thread has an approval to insert only if it is not cached.
Beside ==
    /\ UNCHANGED <<approved, denied>>
    /\ log'["approved"] = log["approved"] /\ log'["denied"] = log["denied"]
    /\ \A u \in Threads :
          /\ pc'[u] = "rewriteApproved" <=> pc[u] = "rewriteApproved"
          /\ pc[u] = "append" /\ clone[u].status # "Pending" =>
                UNCHANGED <<pc[u], target[u], clone[u]>>
          /\ Approving(u)' /\ pc'[u] \in {"insert", "append"} =>
                \/ UNCHANGED <<target[u], clone[u]>> /\ pc[u] \in {"insert", "append"}
                \/ approved[target'[u]] = Absent

\* Such a step keeps DecisionInv.
LEMMA BesideKeeps ==
    ASSUME TypeInv, DecisionInv, Beside
    PROVE  DecisionInv'
<1>1. ApprovedWritable' <=> ApprovedWritable
  BY DEF Beside, ApprovedWritable
<1>2. \A i \in Ids : (DenialDue(i) => DenialDue(i)') /\ (ApprovalDue(i) => ApprovalDue(i)')
  BY DEF Beside, DenialDue, ApprovalDue, Denying, Approving
<1>3. DenialsOnFile'
  BY <1>2 DEF Beside, DecisionInv, DenialsOnFile
<1>4. ASSUME NEW i \in Ids, approved'[i] # Absent PROVE ApprovalOnFile(i)'
  <2>1. ApprovalOnFile(i)
    BY <1>4 DEF Beside, DecisionInv
  <2>2. CASE ~ApprovedWritable
    BY <1>1, <2>1, <2>2 DEF Beside, ApprovalOnFile
  <2>3. CASE ApprovedWritable /\ ApprovalDue(i)
    BY <1>1, <1>2, <2>3 DEF ApprovalOnFile
  <2>4. CASE \E q \in Request : Newest(log["approved"], i, q) /\ q.result = approved[i].result
    BY <1>1, <2>1, <2>4 DEF Beside, ApprovalOnFile
  <2> QED
    BY <2>1, <2>2, <2>3, <2>4 DEF ApprovalOnFile
<1>5. ResultsLast'
  BY DEF Beside, DecisionInv, ResultsLast, Approving
<1>6. OneRewriter'
  BY DEF Beside, DecisionInv, OneRewriter
<1> QED
  BY <1>3, <1>4, <1>5, <1>6 DEF DecisionInv

\* The part of it that is about the threads.
ThreadsBeside ==
    \A u \in Threads :
        /\ pc'[u] = "rewriteApproved" <=> pc[u] = "rewriteApproved"
        /\ pc[u] = "append" /\ clone[u].status # "Pending" =>
              UNCHANGED <<pc[u], target[u], clone[u]>>
        /\ Approving(u)' /\ pc'[u] \in {"insert", "append"} =>
              \/ UNCHANGED <<target[u], clone[u]>> /\ pc[u] \in {"insert", "append"}
              \/ approved[target'[u]] = Absent

\* Only thread t moves, it is not writing a decision, and it takes up no approval
\* that is cached.
LEMMA LocalsBeside ==
    ASSUME NEW t \in Threads,
           \A u \in Threads \ {t} : UNCHANGED <<pc[u], target[u], clone[u]>>,
           pc[t] # "rewriteApproved", pc'[t] # "rewriteApproved",
           pc[t] = "append" => clone[t].status = "Pending",
           Approving(t)' /\ pc'[t] \in {"insert", "append"} => approved[target'[t]] = Absent
    PROVE  ThreadsBeside
BY DEF ThreadsBeside, Approving

LEMMA BesideSteps ==
    ASSUME TypeInv, TypeInv', SafeInv, OnceInv, HandsInv
    PROVE  /\ \A t \in Threads :
                 \/ SkipAuditIds(t) \/ LinkNowhere(t) \/ ReturnMoved(t) \/ LinkElsewhere(t)
                 \/ LinkPending(t) \/ FinishLink(t) \/ Clear(t) \/ RewritePending(t)
                 \/ (AppendRecord(t) \/ AppendNewline(t)) /\ clone[t].status = "Pending"
                 \/ MoveNext(t) \/ ListPending(t)
                 \/ \E i \in Ids : \/ StorePending(t, i) \/ Approve(t, i)
                                   \/ Reject(t, i) \/ GetOverdue(t, i)
                 => Beside
           /\ \A i \in Ids : TimePasses(i) => Beside
           /\ UNCHANGED vars => Beside
<1> USE DEF caches, local, faults, history
<1>1. ASSUME NEW t \in Threads, SkipAuditIds(t) PROVE Beside
  <2>1. /\ UNCHANGED <<approved, denied>>
        /\ log'["approved"] = log["approved"] /\ log'["denied"] = log["denied"]
    BY <1>1 DEF SkipAuditIds, TypeInv, LogTypes, Files
  <2>2. ThreadsBeside
    BY <1>1, LocalsBeside DEF SkipAuditIds, Return, GoTo, TypeInv, LocalTypes
  <2> QED
    BY <2>1, <2>2 DEF Beside, ThreadsBeside
<1>2. ASSUME NEW t \in Threads, LinkNowhere(t) PROVE Beside
  <2>1. /\ UNCHANGED <<approved, denied>>
        /\ log'["approved"] = log["approved"] /\ log'["denied"] = log["denied"]
    BY <1>2 DEF LinkNowhere, TypeInv, LogTypes, Files
  <2>2. ThreadsBeside
    BY <1>2, LocalsBeside DEF LinkNowhere, Return, GoTo, TypeInv, LocalTypes
  <2> QED
    BY <2>1, <2>2 DEF Beside, ThreadsBeside
<1>3. ASSUME NEW t \in Threads, ReturnMoved(t) PROVE Beside
  <2>1. /\ UNCHANGED <<approved, denied>>
        /\ log'["approved"] = log["approved"] /\ log'["denied"] = log["denied"]
    BY <1>3 DEF ReturnMoved, TypeInv, LogTypes, Files
  <2>2. ThreadsBeside
    BY <1>3, LocalsBeside DEF ReturnMoved, Return, GoTo, TypeInv, LocalTypes
  <2> QED
    BY <2>1, <2>2 DEF Beside, ThreadsBeside
<1>4. ASSUME NEW t \in Threads, LinkElsewhere(t) PROVE Beside
  <2>1. /\ UNCHANGED <<approved, denied>>
        /\ log'["approved"] = log["approved"] /\ log'["denied"] = log["denied"]
    BY <1>4 DEF LinkElsewhere, TypeInv, LogTypes, Files
  <2>2. ThreadsBeside
    BY <1>4, LocalsBeside DEF LinkElsewhere, Return, GoTo, TypeInv, LocalTypes
  <2> QED
    BY <2>1, <2>2 DEF Beside, ThreadsBeside
<1>5. ASSUME NEW t \in Threads, LinkPending(t) PROVE Beside
  <2>1. /\ UNCHANGED <<approved, denied>>
        /\ log'["approved"] = log["approved"] /\ log'["denied"] = log["denied"]
    BY <1>5 DEF LinkPending, TypeInv, LogTypes, Files
  <2>2. ThreadsBeside
    BY <1>5, LocalsBeside DEF LinkPending, Return, GoTo, TypeInv, LocalTypes
  <2> QED
    BY <2>1, <2>2 DEF Beside, ThreadsBeside
<1>6. ASSUME NEW t \in Threads, FinishLink(t) PROVE Beside
  <2>1. /\ UNCHANGED <<approved, denied>>
        /\ log'["approved"] = log["approved"] /\ log'["denied"] = log["denied"]
    BY <1>6 DEF FinishLink, TypeInv, LogTypes, Files
  <2>2. ThreadsBeside
    BY <1>6, LocalsBeside DEF FinishLink, Return, GoTo, TypeInv, LocalTypes
  <2> QED
    BY <2>1, <2>2 DEF Beside, ThreadsBeside
<1>7. ASSUME NEW t \in Threads, Clear(t) PROVE Beside
  <2>1. /\ UNCHANGED <<approved, denied>>
        /\ log'["approved"] = log["approved"] /\ log'["denied"] = log["denied"]
    BY <1>7 DEF Clear, TypeInv, LogTypes, Files
  <2>2. ThreadsBeside
    BY <1>7, LocalsBeside DEF Clear, Return, GoTo, TypeInv, LocalTypes
  <2> QED
    BY <2>1, <2>2 DEF Beside, ThreadsBeside
<1>8. ASSUME NEW t \in Threads, RewritePending(t) PROVE Beside
  <2>1. /\ UNCHANGED <<approved, denied>>
        /\ log'["approved"] = log["approved"] /\ log'["denied"] = log["denied"]
    BY <1>8 DEF RewritePending, TypeInv, LogTypes, Files
  <2>2. ThreadsBeside
    BY <1>8, LocalsBeside DEF RewritePending, Return, GoTo, TypeInv, LocalTypes
  <2> QED
    BY <2>1, <2>2 DEF Beside, ThreadsBeside
<1>9. ASSUME NEW t \in Threads, AppendRecord(t) \/ AppendNewline(t), clone[t].status = "Pending"
      PROVE  Beside
  <2>1. /\ UNCHANGED <<approved, denied>>
        /\ log'["approved"] = log["approved"] /\ log'["denied"] = log["denied"]
    BY <1>9, FileOfCases DEF AppendRecord, AppendNewline, TypeInv, LogTypes, Files
  <2>2. ThreadsBeside
    BY <1>9, LocalsBeside DEF AppendRecord, AppendNewline, GoTo, TypeInv, LocalTypes
  <2> QED
    BY <2>1, <2>2 DEF Beside, ThreadsBeside
<1>10. ASSUME NEW t \in Threads, MoveNext(t) PROVE Beside
  <2>1. PICK record \in todo[t] :
            /\ target' = [target EXCEPT ![t] = record.id]
            /\ clone' = [clone EXCEPT ![t] = record.request]
    BY <1>10 DEF MoveNext
  <2>2. record.request.status = "Expired"
    BY DEF TypeInv, LocalsOK
  <2>3. pc[t] = "moved" /\ pc' = [pc EXCEPT ![t] = "insert"] /\ UNCHANGED <<approved, denied, log>>
    BY <1>10 DEF MoveNext
  <2>4. ThreadsBeside
    BY <2>1, <2>2, <2>3, LocalsBeside DEF Approving, TypeInv, LocalTypes
  <2> QED
    BY <2>3, <2>4 DEF Beside, ThreadsBeside
<1>11. ASSUME NEW t \in Threads, ListPending(t) PROVE Beside
  <2>1. UNCHANGED <<approved, denied, log, target, clone>> /\ pc[t] = "idle" /\ pc' = [pc EXCEPT ![t] = "moved"]
    BY <1>11 DEF ListPending
  <2>2. ThreadsBeside
    BY <2>1, LocalsBeside DEF TypeInv, LocalTypes
  <2> QED
    BY <2>1, <2>2 DEF Beside, ThreadsBeside
<1>12. ASSUME NEW t \in Threads, NEW i \in Ids, StorePending(t, i) PROVE Beside
  <2>1. /\ pc[t] = "idle" /\ pc' = [pc EXCEPT ![t] = "append"]
        /\ clone' = [clone EXCEPT ![t] = NewRequest] /\ target' = [target EXCEPT ![t] = i]
        /\ UNCHANGED <<approved, denied, log>>
    BY <1>12 DEF StorePending
  <2>2. NewRequest.status = "Pending"
    BY DEF NewRequest
  <2>3. ThreadsBeside
    BY <2>1, <2>2, LocalsBeside DEF Approving, TypeInv, LocalTypes
  <2> QED
    BY <2>1, <2>3 DEF Beside, ThreadsBeside
<1>13. ASSUME NEW t \in Threads, NEW i \in Ids, Approve(t, i) \/ Reject(t, i) \/ GetOverdue(t, i)
       PROVE  Beside
  <2>1. PICK outcome \in Outcomes :
            /\ target' = [target EXCEPT ![t] = i]
            /\ clone' = [clone EXCEPT ![t] = Decided(pending[i], outcome)]
            /\ outcome = "Approved" => pending[i].status = "Pending"
    BY <1>13 DEF Approve, Reject, GetOverdue, TakeOut, Outcomes
  <2>2. /\ pending[i] # Absent /\ UNCHANGED <<approved, denied, log>>
        /\ pc[t] = "idle" /\ pc' = [pc EXCEPT ![t] = "insert"]
    BY <1>13 DEF Approve, Reject, GetOverdue, TakeOut
  <2>3. Decided(pending[i], outcome).status = outcome
    BY <2>2, ChangedRequests DEF TypeInv, CacheTypes, Cache, HistoryTypes
  <2>4. outcome = "Approved" => approved[i] = Absent
    <3>1. outcome = "Approved" => outcomes[i] = {}
      BY <2>1, <2>2 DEF OnceInv, Undecided
    <3> QED
      BY <3>1 DEF SafeInv, CachesOK, MayBeApproved, Carries
  <2>5. /\ \A u \in Threads \ {t} : UNCHANGED <<pc[u], target[u], clone[u]>>
        /\ pc'[t] = "insert" /\ target'[t] = i /\ clone'[t] = Decided(pending[i], outcome)
    BY <2>1, <2>2 DEF TypeInv, LocalTypes
  <2>6. Approving(t)' => approved[target'[t]] = Absent
    BY <2>3, <2>4, <2>5 DEF Approving
  <2>7. ThreadsBeside
    BY <2>2, <2>5, <2>6, LocalsBeside
  <2> QED
    BY <2>2, <2>7 DEF Beside, ThreadsBeside
<1>14. ASSUME (\E i \in Ids : TimePasses(i)) \/ UNCHANGED vars PROVE Beside
  <2>1. UNCHANGED <<approved, denied, log, pc, target, clone>>
    BY <1>14 DEF TimePasses, vars
  <2> QED
    BY <2>1 DEF Beside, Approving
<1> QED
  BY <1>1, <1>2, <1>3, <1>4, <1>5, <1>6, <1>7, <1>8, <1>9, <1>10, <1>11, <1>12, <1>13, <1>14

\* Appending to one of the two files of the decisions.
LEMMA AppendDecision ==
    ASSUME TypeInv, TypeInv', SafeInv, HandsInv, DecisionInv, NEW t \in Threads,
           clone[t].status # "Pending", AppendRecord(t) \/ AppendNewline(t)
    PROVE  DecisionInv'
<1> USE DEF caches, local, faults, history
<1>0. log["approved"] \in File /\ log["denied"] \in File
  BY DEF TypeInv, LogTypes, Files, File
<1>1. pc[t] \in {"append", "newline"} /\ target[t] \in Ids /\ clone[t] \in Request /\ clone[t] # Absent
  BY ConstantsAssumption DEF AppendRecord, AppendNewline, TypeInv, LocalsOK, Busy, ConstantsAssumption
<1>2. NoResult(clone[t])
  BY <1>1 DEF HandsInv, NoResults
<1>3. /\ UNCHANGED <<approved, denied, target, clone>>
      /\ \A u \in Threads \ {t} : pc'[u] = pc[u]
      /\ pc'[t] \in {"newline", "clear"}
  BY DEF AppendRecord, AppendNewline, GoTo, TypeInv, LocalTypes
<1>4. ApprovedWritable' <=> ApprovedWritable
  BY <1>1, <1>3 DEF ApprovedWritable
<1>5. ResultsLast' /\ OneRewriter'
  <2>1. ResultsLast'
    BY <1>3 DEF DecisionInv, ResultsLast, Approving
  <2>2. OneRewriter'
    BY <1>3 DEF DecisionInv, OneRewriter
  <2> QED
    BY <2>1, <2>2
<1>6. CASE AppendRecord(t)
  <2> DEFINE r == [id |-> target[t], request |-> clone[t]]
  <2>1. r \in Record /\ r.id = target[t] /\ r.request = clone[t]
    BY <1>1 DEF Record
  <2>2. log' = [log EXCEPT ![FileOf(clone[t])] = Append(@, r)]
    BY <1>6 DEF AppendRecord
  <2> HIDE DEF r
  <2>3. CASE clone[t].status = "Approved"
    <3>1. log'["approved"] = Append(log["approved"], r) /\ log'["denied"] = log["denied"]
      BY <2>2, <2>3 DEF FileOf, TypeInv, LogTypes, Files
    <3>2. \A i \in Ids : DenialDue(i) => DenialDue(i)'
      BY <1>3, <2>3 DEF DenialDue, Denying
    <3>3. DenialsOnFile'
      BY <1>3, <3>1, <3>2 DEF DecisionInv, DenialsOnFile
    <3>4. \A i \in Ids \ {target[t]} : ApprovalDue(i) => ApprovalDue(i)'
      BY <1>3 DEF ApprovalDue, Approving
    <3>5. approved[target[t]] # Absent => approved[target[t]].result = clone[t].result
      <4>1. CASE pc[t] = "append"
        <5>1. Approving(t)
          BY <1>1, <2>3 DEF Approving
        <5>2. approved[target[t]] # Absent => NoResult(approved[target[t]])
          BY <4>1, <5>1 DEF DecisionInv, ResultsLast
        <5> QED
          BY <1>2, <5>2 DEF NoResult
      <4> QED
        BY <1>6, <4>1 DEF AppendRecord
    <3>6. ASSUME NEW i \in Ids, approved'[i] # Absent PROVE ApprovalOnFile(i)'
      <4>1. ApprovalOnFile(i) /\ approved'[i] = approved[i]
        BY <1>3, <3>6 DEF DecisionInv
      <4>2. CASE ~ApprovedWritable
        <5>1. ASSUME NEW n \in DOMAIN log'["approved"], IsRecord(log'["approved"], n, i)
              PROVE  log'["approved"][n].request.result = approved'[i].result
          <6>1. \/ /\ n \in DOMAIN log["approved"] /\ IsRecord(log["approved"], n, i)
                   /\ log'["approved"][n] = log["approved"][n]
                \/ i = target[t] /\ log'["approved"][n] = r
            BY <1>0, <2>1, <3>1, <5>1, AppendedRecord
          <6> QED
            BY <2>1, <3>5, <3>6, <4>1, <4>2, <6>1 DEF ApprovalOnFile
        <5> QED
          BY <1>4, <4>2, <5>1 DEF ApprovalOnFile
      <4>3. CASE ApprovedWritable /\ i = target[t]
        <5>1. Newest(log'["approved"], i, clone[t])
          BY <1>0, <2>1, <3>1, <4>3, AppendedRecord
        <5>2. clone[t].result = approved'[i].result
          BY <3>5, <3>6, <4>1, <4>3
        <5> QED
          BY <1>1, <1>4, <4>3, <5>1, <5>2 DEF ApprovalOnFile
      <4>4. CASE ApprovedWritable /\ i # target[t] /\ ApprovalDue(i)
        BY <1>4, <3>4, <4>4 DEF ApprovalOnFile
      <4>5. ASSUME ApprovedWritable, i # target[t],
                   NEW q \in Request, Newest(log["approved"], i, q), q.result = approved[i].result
            PROVE  ApprovalOnFile(i)'
        <5>1. Newest(log'["approved"], i, q)
          BY <1>0, <2>1, <3>1, <4>5, AppendedRecord
        <5> QED
          BY <1>4, <4>1, <4>5, <5>1 DEF ApprovalOnFile
      <4> QED
        BY <4>1, <4>2, <4>3, <4>4, <4>5 DEF ApprovalOnFile
    <3> QED
      BY <1>5, <3>3, <3>6 DEF DecisionInv
  <2>4. CASE clone[t].status # "Approved"
    <3>1. log'["denied"] = Append(log["denied"], r) /\ log'["approved"] = log["approved"]
      BY <2>2, <2>4 DEF FileOf, TypeInv, LogTypes, Files
    <3>2. \A i \in Ids : ApprovalDue(i) => ApprovalDue(i)'
      BY <1>3, <2>4 DEF ApprovalDue, Approving
    <3>3. ASSUME NEW i \in Ids, approved'[i] # Absent PROVE ApprovalOnFile(i)'
      BY <1>3, <1>4, <3>1, <3>2, <3>3 DEF DecisionInv, ApprovalOnFile
    <3>4. \A i \in Ids \ {target[t]} : DenialDue(i) => DenialDue(i)'
      BY <1>3 DEF DenialDue, Denying
    <3>5. Len(log["denied"]) \in Nat /\ DOMAIN log["denied"] = 1 .. Len(log["denied"])
      BY <1>0, LenProperties DEF File
    <3>6. /\ DOMAIN log'["denied"] = 1 .. Len(log["denied"]) + 1
          /\ \A n \in DOMAIN log["denied"] : log'["denied"][n] = log["denied"][n]
          /\ log'["denied"][Len(log["denied"]) + 1] = r
      BY <1>0, <2>1, <3>1, <3>5, AppendProperties, LenProperties DEF File
    <3>7. DOMAIN log["denied"] \subseteq DOMAIN log'["denied"] /\ Len(log["denied"]) + 1 \in DOMAIN log'["denied"]
      BY <3>5, <3>6
    <3>8. r # Newline
      BY <2>1, ConstantsAssumption DEF ConstantsAssumption
    <3>9. \A n \in DOMAIN log'["denied"] : n \in DOMAIN log["denied"] \/ n = Len(log["denied"]) + 1
      BY <3>5, <3>6
    <3>10. ASSUME NEW n \in DOMAIN log'["denied"], log'["denied"][n] # Newline
           PROVE  NoResult(log'["denied"][n].request)
      BY <1>2, <2>1, <3>6, <3>9, <3>10 DEF DecisionInv, DenialsOnFile
    <3>11. IsRecord(log'["denied"], Len(log["denied"]) + 1, target[t])
      BY <2>1, <3>6, <3>8 DEF IsRecord
    <3>12. \A i \in Ids, n \in DOMAIN log["denied"] :
              IsRecord(log["denied"], n, i) => IsRecord(log'["denied"], n, i)
      BY <3>6 DEF IsRecord
    <3>13. ASSUME NEW i \in Ids, denied'[i] # Absent
           PROVE  DenialDue(i)' \/ \E n \in DOMAIN log'["denied"] : IsRecord(log'["denied"], n, i)
      BY <1>3, <3>4, <3>7, <3>11, <3>12, <3>13 DEF DecisionInv, DenialsOnFile
    <3> QED
      BY <1>5, <3>3, <3>10, <3>13 DEF DecisionInv, DenialsOnFile
  <2> QED
    BY <2>3, <2>4
<1>7. CASE AppendNewline(t)
  <2>1. /\ \/ log'["approved"] = log["approved"]
           \/ log'["approved"] = Append(log["approved"], Newline)
        /\ \/ log'["denied"] = log["denied"]
           \/ log'["denied"] = Append(log["denied"], Newline)
    BY <1>7 DEF AppendNewline, TypeInv, LogTypes, Files
  <2>2. \A i \in Ids : /\ ApprovalDue(i) => ApprovalDue(i)'
                       /\ DenialDue(i) => DenialDue(i)'
    BY <1>3, <1>7 DEF AppendNewline, ApprovalDue, DenialDue, Approving, Denying
  <2>3. /\ \A n \in DOMAIN log'["approved"], i \in Ids : IsRecord(log'["approved"], n, i) =>
              /\ n \in DOMAIN log["approved"] /\ IsRecord(log["approved"], n, i)
              /\ log'["approved"][n] = log["approved"][n]
        /\ \A i \in Ids : \A q : Newest(log["approved"], i, q) => Newest(log'["approved"], i, q)
    BY <1>0, <2>1, AppendedNewline
  <2>4. ASSUME NEW i \in Ids, approved'[i] # Absent PROVE ApprovalOnFile(i)'
    <3>1. ApprovalOnFile(i) /\ approved'[i] = approved[i]
      BY <1>3, <2>4 DEF DecisionInv
    <3>2. CASE ~ApprovedWritable
      BY <1>4, <2>3, <3>1, <3>2 DEF ApprovalOnFile
    <3>3. CASE ApprovedWritable
      BY <1>4, <2>2, <2>3, <3>1, <3>3 DEF ApprovalOnFile
    <3> QED
      BY <3>2, <3>3
  <2>5. DenialsOnFile'
    <3>1. CASE log'["denied"] = log["denied"]
      BY <1>3, <2>2, <3>1 DEF DecisionInv, DenialsOnFile
    <3>2. CASE log'["denied"] = Append(log["denied"], Newline)
      <4>1. Len(log["denied"]) \in Nat /\ DOMAIN log["denied"] = 1 .. Len(log["denied"])
        BY <1>0, LenProperties DEF File
      <4>2. /\ DOMAIN log'["denied"] = 1 .. Len(log["denied"]) + 1
            /\ \A n \in DOMAIN log["denied"] : log'["denied"][n] = log["denied"][n]
            /\ log'["denied"][Len(log["denied"]) + 1] = Newline
        BY <1>0, <3>2, <4>1, AppendProperties, LenProperties DEF File
      <4>3. DOMAIN log["denied"] \subseteq DOMAIN log'["denied"]
        BY <4>1, <4>2
      <4>4. \A n \in DOMAIN log'["denied"] : n \in DOMAIN log["denied"] \/ log'["denied"][n] = Newline
        BY <4>1, <4>2
      <4>5. ASSUME NEW n \in DOMAIN log'["denied"], log'["denied"][n] # Newline
            PROVE  NoResult(log'["denied"][n].request)
        BY <4>2, <4>4, <4>5 DEF DecisionInv, DenialsOnFile
      <4>6. \A i \in Ids, n \in DOMAIN log["denied"] :
               IsRecord(log["denied"], n, i) => IsRecord(log'["denied"], n, i)
        BY <4>2 DEF IsRecord
      <4>7. ASSUME NEW i \in Ids, denied'[i] # Absent
            PROVE  DenialDue(i)' \/ \E n \in DOMAIN log'["denied"] : IsRecord(log'["denied"], n, i)
        BY <1>3, <2>2, <4>3, <4>6, <4>7 DEF DecisionInv, DenialsOnFile
      <4> QED
        BY <4>5, <4>7 DEF DenialsOnFile
    <3> QED
      BY <2>1, <3>1, <3>2
  <2> QED
    BY <1>5, <2>4, <2>5 DEF DecisionInv
<1> QED
  BY <1>6, <1>7

\* Caching a decision, from which moment its record is due.
LEMMA InsertDecision ==
    ASSUME TypeInv, TypeInv', HandsInv, DecisionInv, NEW t \in Threads
    PROVE  (InsertDenied(t) \/ InsertApproved(t)) => DecisionInv'
<1> USE DEF caches, local, faults, history
<1>1. ASSUME InsertDenied(t) \/ InsertApproved(t)
      PROVE  /\ pc[t] = "insert" /\ target[t] \in Ids /\ clone[t] \in Request /\ clone[t] # Absent
             /\ clone[t].status # "Pending" /\ NoResult(clone[t])
             /\ UNCHANGED <<log, target, clone>>
             /\ pc' = [pc EXCEPT ![t] = "append"]
  BY <1>1, ConstantsAssumption
     DEF InsertDenied, InsertApproved, GoTo, TypeInv, LocalsOK, Busy, Moving, ConstantsAssumption,
         HandsInv, NoResults
<1>2. ASSUME InsertDenied(t) \/ InsertApproved(t)
      PROVE  /\ \A u \in Threads : pc'[u] = IF u = t THEN "append" ELSE pc[u]
             /\ \A i \in Ids : (DenialDue(i) => DenialDue(i)') /\ (ApprovalDue(i) => ApprovalDue(i)')
             /\ ApprovedWritable' <=> ApprovedWritable
             /\ OneRewriter'
  <2>1. \A u \in Threads : pc'[u] = IF u = t THEN "append" ELSE pc[u]
    BY <1>1, <1>2 DEF TypeInv, LocalTypes
  <2>2. \A i \in Ids : (DenialDue(i) => DenialDue(i)') /\ (ApprovalDue(i) => ApprovalDue(i)')
    BY <1>1, <1>2, <2>1 DEF DenialDue, ApprovalDue, Denying, Approving
  <2>3. ApprovedWritable' <=> ApprovedWritable
    BY <1>1, <1>2, <2>1 DEF ApprovedWritable
  <2>4. OneRewriter'
    BY <2>1 DEF DecisionInv, OneRewriter
  <2> QED
    BY <2>1, <2>2, <2>3, <2>4
<1>3. ASSUME InsertDenied(t) PROVE DecisionInv'
  <2>1. UNCHANGED approved /\ clone[t].status # "Approved"
    BY <1>3 DEF InsertDenied
  <2> DEFINE grown == [denied EXCEPT ![target[t]] = clone[t]]
  <2>2. \A i \in Ids : denied'[i] = Absent \/ denied'[i] = grown[i]
    BY <1>3 DEF InsertDenied, Without
  <2>3. \A i \in Ids \ {target[t]} : denied'[i] # Absent => denied[i] # Absent
    BY <2>2 DEF TypeInv, CacheTypes, Cache
  <2>4. DenialDue(target[t])'
    BY <1>1, <1>2, <1>3, <2>1 DEF DenialDue, Denying
  <2>5. DenialsOnFile'
    BY <1>1, <1>2, <1>3, <2>3, <2>4 DEF DecisionInv, DenialsOnFile
  <2>6. ASSUME NEW i \in Ids, approved'[i] # Absent PROVE ApprovalOnFile(i)'
    BY <1>1, <1>2, <1>3, <2>1, <2>6 DEF DecisionInv, ApprovalOnFile
  <2>7. ResultsLast'
    BY <1>1, <1>2, <1>3, <2>1 DEF DecisionInv, ResultsLast, Approving
  <2> QED
    BY <1>2, <1>3, <2>5, <2>6, <2>7 DEF DecisionInv
<1>4. ASSUME InsertApproved(t) PROVE DecisionInv'
  <2>1. UNCHANGED denied /\ clone[t].status = "Approved" /\ ApprovedWritable
    BY <1>4 DEF InsertApproved
  <2> DEFINE grown == [approved EXCEPT ![target[t]] = clone[t]]
  <2>2. \A i \in Ids : approved'[i] = Absent \/ approved'[i] = grown[i]
    BY <1>4 DEF InsertApproved, Without
  <2>3. \A i \in Ids : approved'[i] # Absent =>
            approved'[i] = IF i = target[t] THEN clone[t] ELSE approved[i]
    BY <2>2 DEF TypeInv, CacheTypes, Cache
  <2>4. DenialsOnFile'
    BY <1>1, <1>2, <1>4, <2>1 DEF DecisionInv, DenialsOnFile
  <2>5. Approving(t) /\ \A i \in Ids : i = target[t] => ApprovalDue(i)'
    <3>1. Approving(t)
      BY <1>1, <1>4, <2>1 DEF Approving
    <3>2. pc'[t] = "append" /\ UNCHANGED <<target, clone>>
      BY <1>1, <1>2, <1>4
    <3>3. Approving(t)'
      BY <3>1, <3>2 DEF Approving
    <3> QED
      BY <3>1, <3>2, <3>3 DEF ApprovalDue
  <2>6. ASSUME NEW i \in Ids, approved'[i] # Absent PROVE ApprovalOnFile(i)'
    <3>1. CASE i = target[t]
      BY <1>2, <1>4, <2>1, <2>5, <3>1 DEF ApprovalOnFile
    <3>2. CASE i # target[t]
      <4>1. approved'[i] = approved[i] /\ ApprovalOnFile(i)
        BY <2>3, <2>6, <3>2 DEF DecisionInv
      <4> QED
        BY <1>1, <1>2, <1>4, <2>1, <4>1 DEF ApprovalOnFile
    <3> QED
      BY <3>1, <3>2
  <2>7. ResultsLast'
    <3> SUFFICES ASSUME NEW u \in Threads, Approving(u)', pc'[u] \in {"insert", "append"},
                        approved'[target'[u]] # Absent
                 PROVE  NoResult(approved'[target'[u]])
      BY DEF ResultsLast
    <3>1. target'[u] = target[u] /\ Approving(u)
      BY <1>1, <1>4 DEF Approving
    <3>2. CASE u = t
      BY <1>1, <1>4, <2>3, <3>1, <3>2
    <3>3. CASE u # t
      <4>1. target[u] # target[t] /\ pc[u] \in {"insert", "append"}
        BY <1>2, <1>4, <2>5, <3>1, <3>3 DEF HandsInv, OneApprover
      <4>2. target[u] \in Ids
        BY <4>1 DEF TypeInv, LocalsOK, Busy
      <4>3. approved'[target[u]] = approved[target[u]]
        BY <2>3, <3>1, <4>1, <4>2
      <4> QED
        BY <3>1, <4>1, <4>3 DEF DecisionInv, ResultsLast
    <3> QED
      BY <3>2, <3>3
  <2> QED
    BY <1>2, <1>4, <2>4, <2>6, <2>7 DEF DecisionInv
<1> QED
  BY <1>3, <1>4

\* A change of a cached approval truncates approved.log.
LEMMA ChangeApproval ==
    ASSUME TypeInv, TypeInv', HandsInv, DecisionInv, NEW t \in Threads,
           ApprovedWritable, pc[t] # "append", GoTo(t, "rewriteApproved"),
           log'["approved"] = <<>>, log'["denied"] = log["denied"], UNCHANGED denied,
           \A u \in Threads \ {t} : Approving(u) /\ pc[u] \in {"insert", "append"} =>
               approved'[target[u]] = approved[target[u]]
               \/ (NoResult(approved[target[u]]) => NoResult(approved'[target[u]])),
           \A i \in Ids : approved'[i] # Absent => approved[i] # Absent
    PROVE  DecisionInv'
<1>1. /\ \A u \in Threads : pc'[u] = IF u = t THEN "rewriteApproved" ELSE pc[u]
      /\ UNCHANGED <<target, clone>>
  BY DEF GoTo, TypeInv, LocalTypes
<1>2. ~ApprovedWritable'
  BY <1>1 DEF ApprovedWritable
<1>3. \A i \in Ids : DenialDue(i) => DenialDue(i)'
  BY <1>1 DEF DenialDue, Denying
<1>4. DenialsOnFile'
  BY <1>3 DEF DecisionInv, DenialsOnFile
<1>5. \A n \in DOMAIN log'["approved"] : FALSE
  OBVIOUS
<1>6. \A i \in Ids : ApprovalOnFile(i)'
  BY <1>2, <1>5 DEF ApprovalOnFile
<1>7. ResultsLast'
  <2> SUFFICES ASSUME NEW u \in Threads, Approving(u)', pc'[u] \in {"insert", "append"},
                      approved'[target'[u]] # Absent
               PROVE  NoResult(approved'[target'[u]])
    BY DEF ResultsLast
  <2>1. u # t /\ Approving(u) /\ pc[u] \in {"insert", "append"} /\ target'[u] = target[u]
    BY <1>1 DEF Approving
  <2>2. target[u] \in Ids
    BY <2>1 DEF TypeInv, LocalsOK, Busy
  <2>3. NoResult(approved[target[u]])
    BY <2>1, <2>2 DEF DecisionInv, ResultsLast
  <2> QED
    BY <2>1, <2>3
<1>8. OneRewriter'
  BY <1>1 DEF OneRewriter, ApprovedWritable
<1> QED
  BY <1>4, <1>6, <1>7, <1>8 DEF DecisionInv

\* The links and results of approvals.
LEMMA RewriteDecision ==
    ASSUME TypeInv, TypeInv', HandsInv, DecisionInv, NEW t \in Threads
    PROVE  LinkApproved(t) \/ UpdateWithResult(t) \/ FinishRewriteApproved(t) => DecisionInv'
<1> USE DEF caches, local, faults, history
<1>0. log["approved"] \in File /\ approved \in Cache
  BY DEF TypeInv, LogTypes, CacheTypes, Files, File
<1>1. ASSUME LinkApproved(t) PROVE DecisionInv'
  <2>1. target[t] \in Ids /\ pc[t] = "auditApproved" /\ ApprovedWritable /\ GoTo(t, "rewriteApproved")
    BY <1>1 DEF LinkApproved, TypeInv, LocalsOK, Busy
  <2>2. log'["approved"] = <<>> /\ log'["denied"] = log["denied"] /\ UNCHANGED denied
    BY <1>1 DEF LinkApproved, TypeInv, LogTypes, Files
  <2>3. \A i \in Ids : approved'[i] = IF i = target[t] THEN Linked(approved[i]) ELSE approved[i]
    BY <1>0, <1>1, <2>1 DEF LinkApproved, Cache
  <2>4. approved[target[t]] # Absent /\ approved[target[t]] \in Request
    BY <1>0, <1>1, <2>1 DEF LinkApproved, Cache
  <2>5. NoResult(approved[target[t]]) => NoResult(Linked(approved[target[t]]))
    BY <2>4, SameResults
  <2>6. ASSUME NEW u \in Threads \ {t}, pc[u] \in {"insert", "append"},
               NoResult(approved[target[u]])
        PROVE  NoResult(approved'[target[u]])
    <3>1. target[u] \in Ids
      BY <2>6 DEF TypeInv, LocalsOK, Busy
    <3> QED
      BY <2>3, <2>5, <2>6, <3>1
  <2>7. \A i \in Ids : approved'[i] # Absent => approved[i] # Absent
    BY <2>3, <2>4
  <2> QED
    BY <2>1, <2>2, <2>6, <2>7, ChangeApproval
<1>2. ASSUME UpdateWithResult(t), approved[target[t]] # Absent PROVE DecisionInv'
  <2>1. target[t] \in Ids /\ pc[t] = "moved" /\ ApprovedWritable /\ GoTo(t, "rewriteApproved")
    BY <1>2 DEF UpdateWithResult, TypeInv, LocalsOK, Busy
  <2>2. log'["approved"] = <<>> /\ log'["denied"] = log["denied"] /\ UNCHANGED denied
    BY <1>2 DEF UpdateWithResult, TypeInv, LogTypes, Files
  <2>3. \A i \in Ids \ {target[t]} : approved'[i] = approved[i]
    BY <1>0, <1>2, <2>1 DEF UpdateWithResult, Cache
  <2>4. Approving(t)
    BY <1>2, <2>1, ConstantsAssumption
       DEF UpdateWithResult, Approving, TypeInv, LocalsOK, Busy, ConstantsAssumption
  <2>5. ASSUME NEW u \in Threads \ {t}, Approving(u), pc[u] \in {"insert", "append"}
        PROVE  approved'[target[u]] = approved[target[u]]
    <3>1. target[u] \in Ids
      BY <2>5 DEF TypeInv, LocalsOK, Busy
    <3>2. target[u] # target[t]
      BY <2>4, <2>5 DEF HandsInv, OneApprover
    <3> QED
      BY <2>3, <3>1, <3>2
  <2>6. \A i \in Ids : approved'[i] # Absent => approved[i] # Absent
    BY <1>2, <2>3
  <2> QED
    BY <2>1, <2>2, <2>5, <2>6, ChangeApproval
<1>3. ASSUME UpdateWithResult(t), approved[target[t]] = Absent PROVE DecisionInv'
  <2>1. UNCHANGED <<approved, denied, log>> /\ pc[t] = "moved" /\ Return(t)
    BY <1>3 DEF UpdateWithResult
  <2>2. ThreadsBeside
    BY <2>1, LocalsBeside DEF Return, TypeInv, LocalTypes
  <2>3. Beside
    BY <2>1, <2>2 DEF Beside, ThreadsBeside
  <2> QED
    BY <2>3, BesideKeeps
<1>4. ASSUME FinishRewriteApproved(t) PROVE DecisionInv'
  <2> DEFINE text == Serialized(approved)
             file == Overlay(log["approved"], text)
  <2>1. log'["approved"] = file /\ log'["denied"] = log["denied"] /\ UNCHANGED <<approved, denied>>
    BY <1>4 DEF FinishRewriteApproved, TypeInv, LogTypes, Files
  <2>2. /\ pc[t] = "rewriteApproved" /\ pc'[t] = "idle" /\ clone'[t] = Absent
        /\ \A u \in Threads \ {t} : UNCHANGED <<pc[u], target[u], clone[u]>>
    BY <1>4 DEF FinishRewriteApproved, Return, TypeInv, LocalTypes
  <2>3. ~ApprovedWritable /\ ApprovedWritable'
    BY <2>2 DEF ApprovedWritable, DecisionInv, OneRewriter
  <2>4. \A i \in Ids : DenialDue(i) => DenialDue(i)'
    BY <2>2 DEF DenialDue, Denying
  <2>5. DenialsOnFile'
    BY <2>1, <2>4 DEF DecisionInv, DenialsOnFile
  <2>6. ResultsLast' /\ OneRewriter'
    BY <2>1, <2>2 DEF DecisionInv, ResultsLast, OneRewriter, Approving
  <2>7. /\ text \in File
        /\ \A n \in DOMAIN text, i \in Ids :
              IsRecord(text, n, i) => i \in Cached(approved) /\ text[n].request = approved[i]
        /\ \A i \in Cached(approved) : \E n \in DOMAIN text : IsRecord(text, n, i)
    BY <1>0, SerializedLines
  <2>8. /\ file \in File
        /\ DOMAIN text \subseteq DOMAIN file
        /\ \A n \in DOMAIN text : file[n] = text[n]
        /\ \A n \in DOMAIN file \ DOMAIN text : n \in DOMAIN log["approved"] /\ file[n] = log["approved"][n]
    BY <1>0, <2>7, OverlayAt
  <2> HIDE DEF text, file
  <2>9. ASSUME NEW i \in Ids, approved'[i] # Absent PROVE ApprovalOnFile(i)'
    <3>1. approved'[i] = approved[i] /\ ApprovalOnFile(i) /\ i \in Cached(approved)
      BY <2>1, <2>9 DEF DecisionInv, Cached
    <3>2. ASSUME NEW n \in DOMAIN file, IsRecord(file, n, i)
          PROVE  file[n].request.result = approved[i].result
      <4>1. CASE n \in DOMAIN text
        BY <2>7, <2>8, <3>2, <4>1 DEF IsRecord
      <4>2. CASE n \notin DOMAIN text
        BY <2>3, <2>8, <3>1, <3>2, <4>2 DEF IsRecord, ApprovalOnFile
      <4> QED
        BY <4>1, <4>2
    <3> DEFINE T == {n \in DOMAIN file : IsRecord(file, n, i)}
    <3>3. T # {}
      BY <2>7, <2>8, <3>1 DEF IsRecord
    <3>4. Len(file) \in Nat /\ DOMAIN file = 1 .. Len(file)
      BY <2>8, LenProperties DEF File
    <3>5. PICK n \in T : IsLast(T, n)
      BY <3>3, <3>4, LastExists
    <3>6. file[n].request \in Request
      BY <2>8, <3>4, ElementOfSeq DEF IsRecord, Record, File
    <3>7. Newest(file, i, file[n].request)
      BY <3>4, <3>5 DEF IsLast, Newest
    <3>8. file[n].request.result = approved'[i].result
      BY <3>1, <3>2
    <3> QED
      BY <2>1, <2>3, <3>6, <3>7, <3>8 DEF ApprovalOnFile
  <2> QED
    BY <2>5, <2>6, <2>9 DEF DecisionInv
<1> QED
  BY <1>1, <1>2, <1>3, <1>4

\* So every operation keeps DecisionInv.
LEMMA DecisionStep ==
    ASSUME TypeInv, TypeInv', SafeInv, OnceInv, HandsInv, DecisionInv, [Next]_vars
    PROVE  DecisionInv'
<1>1. Beside => DecisionInv'
  BY BesideKeeps
<1>2. ASSUME NEW t \in Threads, AppendRecord(t) \/ AppendNewline(t) PROVE DecisionInv'
  BY <1>1, <1>2, BesideSteps, AppendDecision
<1> QED
  BY <1>1, <1>2, BesideSteps, InsertDecision, RewriteDecision DEF Next, Call, Continue

LEMMA DecisionsAlways == Spec => [](TypeInv /\ SafeInv /\ OnceInv /\ HandsInv /\ DecisionInv)
<1>1. Init => HandsInv
  BY DEF Init, HandsInv, NoResults, OneApprover, Approving
<1>2. Init => DecisionInv
  BY DEF Init, DecisionInv, DenialsOnFile, ResultsLast, OneRewriter, Approving, Files
<1>3. TypeInv /\ SafeInv /\ OnceInv /\ HandsInv /\ DecisionInv /\ [Next]_vars
         => (TypeInv /\ SafeInv /\ OnceInv /\ HandsInv /\ DecisionInv)'
  <2>1. [Next]_vars => [FaultyNext]_vars
    BY DEF FaultyNext
  <2> QED
    BY <2>1, TypeStep, SafeStep, OnceStep, HandsStep, DecisionStep
<1> QED
  BY <1>1, <1>2, <1>3, TypeInit, SafeInit, Once, PTL DEF Spec

\* LatestIn finds the newest record.
LEMMA LatestIsNewest ==
    ASSUME NEW file \in File, NEW i \in Ids, NEW q, Newest(file, i, q)
    PROVE  LatestIn(file, i) = q
<1> DEFINE at == {n \in DOMAIN file : file[n] # Newline /\ file[n].id = i}
           last == CHOOSE n \in at : IsLast(at, n)
<1>1. Len(file) \in Nat /\ DOMAIN file = 1 .. Len(file)
  BY LenProperties DEF File
<1>2. PICK n \in DOMAIN file : /\ IsRecord(file, n, i) /\ file[n].request = q
                               /\ \A m \in DOMAIN file : m > n => ~IsRecord(file, m, i)
  BY DEF Newest
<1>3. n \in at /\ IsLast(at, n)
  BY <1>1, <1>2 DEF IsLast, IsRecord
<1>4. last \in at /\ IsLast(at, last)
  BY <1>3
<1>5. last = n
  BY <1>1, <1>3, <1>4 DEF IsLast
<1>6. LatestIn(file, i) = file[last].request
  BY <1>3 DEF LatestIn
<1> QED
  BY <1>2, <1>5, <1>6

\* Every cached decision is in its file, with the result if there is one, however
\* appends, links and results interleave with the rewrites of approved.log.
THEOREM DecisionsAreOnDisk == Spec => []DecisionsOnDisk
<1>1. TypeInv /\ SafeInv /\ OnceInv /\ HandsInv /\ DecisionInv => DecisionsOnDisk
  <2> SUFFICES ASSUME TypeInv, SafeInv, OnceInv, HandsInv, DecisionInv, NEW i \in Ids, ~BeingAppended(i)
               PROVE  /\ ApprovedWritable /\ approved[i] # Absent =>
                            SameDecision(LatestIn(log["approved"], i), approved[i])
                      /\ denied[i] # Absent => SameDecision(LatestIn(log["denied"], i), denied[i])
    BY DEF DecisionsOnDisk
  <2>0. /\ log["approved"] \in File /\ log["denied"] \in File
        /\ log["approved"] \in Seq(ApprovedTokens) /\ log["denied"] \in Seq(DeniedTokens)
    BY DEF TypeInv, LogTypes, Files, File, SafeInv, LogsOK
  <2>1. ~ApprovalDue(i) /\ ~DenialDue(i)
    BY DEF BeingAppended, ApprovalDue, DenialDue
  <2>2. ASSUME ApprovedWritable, approved[i] # Absent
        PROVE  SameDecision(LatestIn(log["approved"], i), approved[i])
    <3>1. PICK q \in Request : Newest(log["approved"], i, q) /\ q.result = approved[i].result
      BY <2>1, <2>2 DEF DecisionInv, ApprovalOnFile
    <3>2. PICK n \in DOMAIN log["approved"] :
              IsRecord(log["approved"], n, i) /\ log["approved"][n].request = q
      BY <3>1 DEF Newest
    <3>3. q.status = "Approved"
      <4>1. log["approved"][n] \in ApprovedTokens
        BY <2>0, <3>2, ElementOfSeq, LenProperties
      <4> QED
        BY <3>2, <4>1 DEF ApprovedTokens, MayBeApproved, IsRecord
    <3>4. approved[i].status = "Approved"
      BY <2>2 DEF SafeInv, CachesOK, MayBeApproved
    <3>5. q # Absent
      BY ConstantsAssumption DEF ConstantsAssumption
    <3> QED
      BY <2>0, <3>1, <3>3, <3>4, <3>5, LatestIsNewest DEF SameDecision
  <2>3. ASSUME denied[i] # Absent
        PROVE  SameDecision(LatestIn(log["denied"], i), denied[i])
    <3> DEFINE T == {n \in DOMAIN log["denied"] : IsRecord(log["denied"], n, i)}
    <3>1. Len(log["denied"]) \in Nat /\ DOMAIN log["denied"] = 1 .. Len(log["denied"]) /\ T # {}
      BY <2>0, <2>1, <2>3, LenProperties DEF DecisionInv, DenialsOnFile, File
    <3>2. PICK n \in T : IsLast(T, n)
      BY <3>1, LastExists
    <3> DEFINE q == log["denied"][n].request
    <3>3. LatestIn(log["denied"], i) = q
      <4>1. Newest(log["denied"], i, q)
        BY <3>1, <3>2 DEF IsLast, Newest
      <4> QED
        BY <2>0, <4>1, LatestIsNewest
    <3>4. log["denied"][n] \in DeniedTokens /\ log["denied"][n] # Newline /\ log["denied"][n].id = i
      BY <2>0, <3>1, ElementOfSeq DEF IsRecord
    <3>5. q \in Request /\ Carries(i, q)
      BY <3>4 DEF DeniedTokens, MayBeDenied, Record
    <3>6. Carries(i, denied[i])
      BY <2>3 DEF SafeInv, CachesOK, MayBeDenied
    <3>7. q.status = denied[i].status
      BY <3>5, <3>6 DEF Carries, OnceInv, DecidedAtMostOnce
    <3>8. NoResult(q) /\ NoResult(denied[i])
      BY <2>3, <3>4 DEF DecisionInv, DenialsOnFile, HandsInv, NoResults
    <3>9. q.result = denied[i].result
      BY <3>8 DEF NoResult
    <3>10. q # Absent
      BY <3>5, ConstantsAssumption DEF ConstantsAssumption
    <3> QED
      BY <3>3, <3>7, <3>9, <3>10 DEF SameDecision
  <2> QED
    BY <2>2, <2>3
<1> QED
  BY <1>1, DecisionsAlways, PTL

=============================================================================
