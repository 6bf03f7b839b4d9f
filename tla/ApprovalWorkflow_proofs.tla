----------------------- MODULE ApprovalWorkflow_proofs -----------------------
(***************************************************************************)
(* What the workflow guarantees for any number of requests, handlers, row  *)
(* values, writes and faults.                                              *)
(***************************************************************************)
EXTENDS ApprovalWorkflow, TLAPS

\* The handler has approved its request.
Executing(h) == pc[h] \in {"log", "connect", "compare", "send", "answer"}

\* A handler goes on only with a request that is approved, and no two with one.
ApprovedInHand == \A h \in Handlers : Executing(h) => status[target[h]] = "Approved"

OneEach ==
    \A g, h \in Handlers : Executing(g) /\ Executing(h) /\ target[g] = target[h] => g = h

\* A mutation has been applied exactly when its handler awaits the answer or has gone.
AppliedOnce ==
    /\ \A h \in Handlers : Executing(h) => executions[target[h]] = (IF pc[h] = "answer" THEN 1 ELSE 0)
    /\ \A i \in Ids : /\ executions[i] \in {0, 1}
                      /\ executions[i] = 1 => status[i] = "Approved"
                      /\ result[i] = "success" => executions[i] = 1

\* The row is the one compared, or the change of it is on record.
Compared ==
    \A h \in Handlers : pc[h] = "send" =>
        LET snapshot == request[target[h]].snapshot
        IN  row = snapshot \/ snapshot = None \/ h \in outdated

\* A result is final: whoever could store another has gone.
ResultFinal ==
    \A i \in Ids : result[i] # None =>
        /\ status[i] = "Approved"
        /\ \A h \in Handlers : Executing(h) => target[h] # i

\* What the agent was told of the end of a request is still so.
Told ==
    \A i \in Ids :
        \/ answered[i] \in {None, "Pending"}
        \/ answered[i] = "denied" /\ status[i] = "Rejected"
        \/ answered[i] = "Approved" /\ status[i] = "Approved"
        \/ answered[i] \in {"Expired", "Cancelled"} /\ status[i] = answered[i]
        \/ answered[i] \in Results /\ result[i] = answered[i]

WorkInv == ApprovedInHand /\ OneEach /\ AppliedOnce /\ Compared /\ ResultFinal /\ Told

\* The initial state satisfies the type invariant.
LEMMA TypeInit == Init => TypeOK
BY ConstantsAssumption DEF Init, TypeOK, Store!TypeOK, Store!Status, Labels, Roles

\* Every step of the tool call, the deciders, the handlers and the others keeps the types.
LEMMA TypeStep == TypeOK /\ ApprovedInHand /\ [Next]_vars => TypeOK'
<1> SUFFICES ASSUME TypeOK, ApprovedInHand, [Next]_vars PROVE TypeOK'
  OBVIOUS
<1> USE ConstantsAssumption DEF TypeOK, Store!TypeOK, Store!Status, Store!Outcomes, Labels, Roles,
        Results, store, database, handlers
<1>1. ASSUME NEW op \in {"update", "delete"}, NEW value \in Values, TakeSnapshot(op, value)
      PROVE  TypeOK'
  BY <1>1 DEF TakeSnapshot, Request
<1>2. ASSUME NEW i \in Ids, CreateRequest(i)
      PROVE  TypeOK'
  BY <1>2 DEF CreateRequest, Store!Create
<1>3. ASSUME NEW i \in Ids, Expire(i) \/ ApproveOverMcp(i) \/ Reject(i)
      PROVE  TypeOK'
  BY <1>3 DEF Expire, ApproveOverMcp, Reject, Store!Decide, MayDecide
<1>4. ASSUME NEW i \in Ids, DecideAndFail(i)
      PROVE  TypeOK'
  BY <1>4 DEF DecideAndFail, Store!Decide, MayDecide
<1>5. ASSUME NEW i \in Ids, TimePasses(i) \/ Forget(i)
      PROVE  TypeOK'
  BY <1>5 DEF TimePasses, Forget
<1>6. ASSUME NEW i \in Ids, GetApprovalResult(i)
      PROVE  TypeOK'
  BY <1>6 DEF GetApprovalResult, ReadStatus, AnswerTo, Found
<1>7. ASSUME NEW h \in Handlers, NEW i \in Ids, OpenApproval(h, i)
      PROVE  TypeOK'
  BY <1>7 DEF OpenApproval, ReadStatus, Found
<1>8. ASSUME NEW h \in Handlers, Approve(h)
      PROVE  TypeOK'
  BY <1>8 DEF Approve, MayDecide, Store!Decide, GoTo
<1>9. ASSUME NEW h \in Handlers, ApproveFails(h)
      PROVE  TypeOK'
  BY <1>9 DEF ApproveFails, ReadStatus, Return
<1>10. ASSUME NEW h \in Handlers, FindRole(h)
       PROVE  TypeOK'
  BY <1>10 DEF FindRole, Return
<1>11. ASSUME NEW h \in Handlers, Connect(h) \/ Compare(h)
       PROVE  TypeOK'
  BY <1>11 DEF Connect, Compare, Execute, GoTo, StoreResult, Return
<1>12. ASSUME NEW h \in Handlers, Send(h)
       PROVE  TypeOK'
  <2>1. target[h] \in Ids /\ request[target[h]] \in Request
    BY <1>12 DEF Send, ApprovedInHand, Executing
  <2>2. row' \in Values \cup {Gone} /\ outdated' \subseteq Handlers
    BY <1>12, <2>1 DEF Send, Change, Request
  <2>3. executions' \in [Ids -> Nat]
    BY <1>12, <2>1 DEF Send
  <2>4. CASE row # Gone
    BY <1>12, <2>1, <2>2, <2>3, <2>4 DEF Send, GoTo
  <2>5. CASE row = Gone
    BY <1>12, <2>1, <2>5 DEF Send, StoreResult, Return
  <2> QED
    BY <2>4, <2>5
<1>13. ASSUME NEW h \in Handlers, Finish(h)
       PROVE  TypeOK'
  BY <1>13 DEF Finish, StoreResult, Return
<1>14. ASSUME NEW h \in Handlers, LoseConnection(h)
       PROVE  TypeOK'
  BY <1>14 DEF LoseConnection, StoreResult, Return
<1>15. ASSUME NEW h \in Handlers, Drop(h)
       PROVE  TypeOK'
  BY <1>15 DEF Drop, Return
<1>16. ASSUME NEW new \in Values \cup {Gone}, WriteRow(new)
       PROVE  TypeOK'
  BY <1>16 DEF WriteRow, Change
<1>17. ASSUME NEW new \in Roles, EditRole(new)
       PROVE  TypeOK'
  BY <1>17 DEF EditRole
<1>18. CASE UNCHANGED vars
  BY <1>18 DEF vars
<1> QED
  BY <1>1, <1>2, <1>3, <1>4, <1>5, <1>6, <1>7, <1>8, <1>9, <1>10, <1>11, <1>12, <1>13, <1>14,
     <1>15, <1>16, <1>17, <1>18 DEF Next, Handle

\* The initial state satisfies the invariant of the work.
LEMMA WorkInit == Init => WorkInv
BY ConstantsAssumption
   DEF Init, WorkInv, ApprovedInHand, OneEach, AppliedOnce, Compared, ResultFinal, Told, Executing,
       Results

\* Every step preserves it.
LEMMA WorkStep == TypeOK /\ TypeOK' /\ WorkInv /\ [Next]_vars => WorkInv'
<1> SUFFICES ASSUME TypeOK, TypeOK', WorkInv, [Next]_vars PROVE WorkInv'
  OBVIOUS
<1> USE ConstantsAssumption DEF WorkInv, ApprovedInHand, OneEach, AppliedOnce, Compared,
        ResultFinal, Told, Results, Executing, TypeOK, Store!TypeOK, Store!Status, Store!Outcomes, store, database, handlers
<1>1. ASSUME NEW op \in {"update", "delete"}, NEW value \in Values, TakeSnapshot(op, value)
      PROVE  WorkInv'
  BY <1>1 DEF TakeSnapshot
<1>2. ASSUME NEW i \in Ids, CreateRequest(i)
      PROVE  WorkInv'
  BY <1>2 DEF CreateRequest, Store!Create
<1>3. ASSUME NEW i \in Ids, Expire(i) \/ ApproveOverMcp(i) \/ Reject(i) \/ DecideAndFail(i)
      PROVE  WorkInv'
  BY <1>3 DEF Expire, ApproveOverMcp, Reject, DecideAndFail, Store!Decide, MayDecide
<1>4. ASSUME NEW i \in Ids, TimePasses(i) \/ Forget(i)
      PROVE  WorkInv'
  BY <1>4 DEF TimePasses, Forget
<1>5. ASSUME NEW i \in Ids, GetApprovalResult(i)
      PROVE  WorkInv'
  BY <1>5 DEF GetApprovalResult, ReadStatus, AnswerTo, Found
<1>6. ASSUME NEW h \in Handlers, NEW i \in Ids, OpenApproval(h, i)
      PROVE  WorkInv'
  BY <1>6 DEF OpenApproval, ReadStatus
<1>7. ASSUME NEW h \in Handlers, Approve(h)
      PROVE  WorkInv'
  BY <1>7 DEF Approve, MayDecide, Store!Decide, GoTo
<1>8. ASSUME NEW h \in Handlers, ApproveFails(h)
      PROVE  WorkInv'
  BY <1>8 DEF ApproveFails, ReadStatus, Return
<1>9. ASSUME NEW h \in Handlers, FindRole(h)
      PROVE  WorkInv'
  BY <1>9 DEF FindRole, Return
<1>10. ASSUME NEW h \in Handlers, Connect(h) \/ Compare(h)
       PROVE  WorkInv'
  BY <1>10 DEF Connect, Compare, Execute, GoTo, StoreResult, Return
<1>11. ASSUME NEW h \in Handlers, Send(h)
       PROVE  WorkInv'
  <2>1. CASE row # Gone
    BY <1>11, <2>1 DEF Send, GoTo, Change
  <2>2. CASE row = Gone
    BY <1>11, <2>2 DEF Send, StoreResult, Return
  <2> QED
    BY <2>1, <2>2
<1>12. ASSUME NEW h \in Handlers, Finish(h)
       PROVE  WorkInv'
  BY <1>12 DEF Finish, StoreResult, Return
<1>13. ASSUME NEW h \in Handlers, LoseConnection(h)
       PROVE  WorkInv'
  BY <1>13 DEF LoseConnection, StoreResult, Return
<1>14. ASSUME NEW h \in Handlers, Drop(h)
       PROVE  WorkInv'
  BY <1>14 DEF Drop, Return
<1>15. ASSUME NEW new \in Values \cup {Gone}, WriteRow(new)
       PROVE  WorkInv'
  BY <1>15 DEF WriteRow, Change
<1>16. ASSUME NEW new \in Roles, EditRole(new)
       PROVE  WorkInv'
  BY <1>16 DEF EditRole
<1>17. CASE UNCHANGED vars
  BY <1>17 DEF vars
<1> QED
  BY <1>1, <1>2, <1>3, <1>4, <1>5, <1>6, <1>7, <1>8, <1>9, <1>10, <1>11, <1>12, <1>13, <1>14,
     <1>15, <1>16, <1>17 DEF Next, Handle

\* The two invariants are inductive together.
LEMMA Work == Spec => [](TypeOK /\ WorkInv)
<1>1. TypeOK /\ WorkInv /\ [Next]_vars => (TypeOK /\ WorkInv)'
  BY TypeStep, WorkStep DEF WorkInv
<1> QED
  BY <1>1, TypeInit, WorkInit, PTL DEF Spec

\* The variables keep their types.
THEOREM Typing == Spec => []TypeOK
BY Work, PTL

\* However many handlers open an approval, and however they fail, its mutation is
\* applied at most once.
THEOREM AtMostOnce == Spec => []ExecutedAtMostOnce
<1>1. TypeOK /\ WorkInv => ExecutedAtMostOnce
  BY DEF WorkInv, AppliedOnce, ExecutedAtMostOnce
<1> QED
  BY <1>1, Work, PTL

\* Only what was approved, and is still, has been executed.
THEOREM ApprovedOnly == Spec => []OnlyApprovedExecute
<1>1. TypeOK /\ WorkInv => OnlyApprovedExecute
  BY DEF WorkInv, AppliedOnce, OnlyApprovedExecute
<1> QED
  BY <1>1, Work, PTL

\* A result of success is the result of a mutation.
THEOREM SuccessIsTrue == Spec => []SuccessWasExecuted
<1>1. TypeOK /\ WorkInv => SuccessWasExecuted
  BY DEF WorkInv, AppliedOnce, SuccessWasExecuted
<1> QED
  BY <1>1, Work, PTL

\* A mutation is applied to the row of its snapshot, or the row was changed after
\* the handler's comparison, or there was no snapshot to compare.
THEOREM NothingStale == Spec => StaleDetected
<1> DEFINE A == \A h \in Handlers :
                  LET i == target[h]
                  IN  i # None /\ pc[h] = "send" /\ pc'[h] = "answer"
                        => row = request[i].snapshot \/ request[i].snapshot = None \/ h \in outdated
<1>1. WorkInv => A
  BY DEF WorkInv, Compared
<1> HIDE DEF A
<1>2. Spec => [][A]_vars
  BY <1>1, Work, PTL DEF Spec
<1> QED
  BY <1>2 DEF StaleDetected, A

\* What the agent was told of a decided request moves on from Approved to the
\* result of the execution and no further.
THEOREM AnswersOnlyForward == Spec => AnswersForward
<1> DEFINE A == \A i \in Ids :
                  \/ answered[i] \in {None, "Pending"}
                  \/ answered'[i] = answered[i]
                  \/ answered[i] = "Approved" /\ answered'[i] \in Results
<1>1. TypeOK /\ WorkInv /\ [Next]_vars => A
  <2> SUFFICES ASSUME TypeOK, WorkInv, [Next]_vars PROVE A
    OBVIOUS
  <2>1. ASSUME NEW i \in Ids, GetApprovalResult(i)
        PROVE  A
    BY <2>1 DEF GetApprovalResult, ReadStatus, AnswerTo, Found, WorkInv, ResultFinal, Told, TypeOK,
                Results, Store!TypeOK, Store!Status, Store!Outcomes
  <2>2. CASE UNCHANGED answered
    BY <2>2
  <2>3. UNCHANGED answered \/ \E i \in Ids : GetApprovalResult(i)
    BY DEF vars, Next, Handle, TakeSnapshot, CreateRequest, Expire, ApproveOverMcp, Reject,
           DecideAndFail, TimePasses, Forget, OpenApproval, Approve, ApproveFails, FindRole,
           Connect, Compare, Send, Finish, LoseConnection, Drop, WriteRow, EditRole
  <2> QED
    BY <2>1, <2>2, <2>3
<1> HIDE DEF A
<1>2. Spec => [][A]_vars
  BY <1>1, Work, PTL DEF Spec
<1> QED
  BY <1>2 DEF AnswersForward, A

=============================================================================
