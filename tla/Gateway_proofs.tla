---------------------------- MODULE Gateway_proofs ----------------------------
(***************************************************************************)
(* Theorems about Gateway, for every schema, role, rules and arguments.    *)
(*                                                                         *)
(* Only Mutate changes the database, so the arguments are lemmas about the *)
(* three statements (CreateChanges, UpdateChanges, DeleteChanges), lifted  *)
(* by MutateChanges to the step of a slot.  The type invariant is what     *)
(* they rest on: a call's table is one of the schema, and the rows of a    *)
(* table with a key differ in it, so that a key selects one row.           *)
(* What a call was judged by (DirectCallsWereJudged) and what its check    *)
(* queries found (ReferencesWereChecked) are invariants of their own: they *)
(* speak of the call's record, which other calls leave alone, and not of   *)
(* the database, which they change.                                        *)
(***************************************************************************)
EXTENDS Gateway, FiniteSetTheorems, TLAPS

-----------------------------------------------------------------------------
(* The statements                                                          *)

\* A database with new contents of one table is well stored if the contents are.
LEMMA Replaced ==
    ASSUME NEW db, NEW t \in DOMAIN Schema, NEW rows,
           WellStored(db), IsFiniteSet(rows),
           \A row \in rows : DOMAIN row = DOMAIN Schema[t].columns,
           KeySet(Schema, t) # {} => KeysAreUnique(Schema, t, rows)
    PROVE  /\ WellStored([db EXCEPT ![t] = rows])
           /\ [db EXCEPT ![t] = rows][t] = rows
           /\ \A u \in DOMAIN Schema \ {t} : [db EXCEPT ![t] = rows][u] = db[u]
<1>. DEFINE new == [db EXCEPT ![t] = rows]
<1>1. DOMAIN db = DOMAIN Schema
  BY DEF WellStored
<1>2. new = [u \in DOMAIN Schema |-> new[u]]
  BY <1>1
<1>3. new[t] = rows /\ \A u \in DOMAIN Schema \ {t} : new[u] = db[u]
  BY <1>1
<1>. HIDE DEF new
<1>4. ASSUME NEW u \in DOMAIN Schema
      PROVE  /\ \A row \in new[u] : DOMAIN row = DOMAIN Schema[u].columns
             /\ IsFiniteSet(new[u])
             /\ KeySet(Schema, u) # {} => KeysAreUnique(Schema, u, new[u])
  <2>1. CASE u = t
    BY <2>1, <1>3
  <2>2. CASE u # t
    BY <2>2, <1>3 DEF WellStored
  <2>. QED BY <2>1, <2>2
<1>5. WellStored(new)
  BY <1>2, <1>4 DEF WellStored
<1>. QED BY <1>3, <1>5 DEF new

\* Replacing the contents of a table by the same contents changes nothing.
LEMMA ReplacedBySame ==
    ASSUME NEW db, NEW t \in DOMAIN Schema, WellStored(db)
    PROVE  [db EXCEPT ![t] = db[t]] = db
  BY DEF WellStored

\* The INSERT leaves the database alone or adds one row, of the call's tenant.
LEMMA CreateChanges ==
    ASSUME NEW role, NEW db, NEW call, NEW serial, WellStored(db),
           call.table \in DOMAIN Schema
    PROVE  LET after == ExecuteInsert(role, Rules, Schema, db, call, serial)
           IN /\ WellStored(after)
              /\ \A t \in DOMAIN Schema :
                    /\ db[t] \ after[t] = {}
                    /\ \A row \in after[t] \ db[t] : OfTenant(Rules, t, call.tenant, row)
<1>. DEFINE t == call.table
            inserted == Inserted(role, Rules, Schema, call)
            row == NewRow(Schema, t, inserted, serial)
            rows == db[t] \cup {row}
            after == ExecuteInsert(role, Rules, Schema, db, call, serial)
<1>1. CASE after = db
  BY <1>1
<1>2. CASE after # db
  <2>1. /\ DOMAIN inserted \subseteq DOMAIN Schema[t].columns
        /\ Accepts(Schema, db, t, rows)
        /\ after = [db EXCEPT ![t] = rows]
    BY <1>2 DEF ExecuteInsert
  <2>2. DOMAIN row = DOMAIN Schema[t].columns
    BY DEF NewRow
  <2>3. OfTenant(Rules, t, call.tenant, row)
    <3>. SUFFICES ASSUME NEW c \in TenantColumn(Rules, t)
                  PROVE  c \in DOMAIN row /\ row[c] = TenantValue(call.tenant)
      BY DEF OfTenant
    <3>1. c \in DOMAIN inserted /\ inserted[c] = TenantValue(call.tenant)
      BY DEF Inserted
    <3>2. c \in DOMAIN Schema[t].columns
      BY <2>1, <3>1
    <3>. HIDE DEF inserted
    <3>. QED BY <2>2, <3>1, <3>2 DEF NewRow
  <2>. HIDE DEF row
  <2>4. /\ \A r \in rows : DOMAIN r = DOMAIN Schema[t].columns
        /\ IsFiniteSet(rows)
        /\ KeySet(Schema, t) # {} => KeysAreUnique(Schema, t, rows)
    BY <2>1, <2>2, FS_AddElement DEF WellStored, Accepts
  <2>5. /\ WellStored(after) /\ after[t] = rows
        /\ \A u \in DOMAIN Schema \ {t} : after[u] = db[u]
    <3>. HIDE DEF rows, after
    <3>1. t \in DOMAIN Schema
      OBVIOUS
    <3>. HIDE DEF t
    <3>2. /\ WellStored([db EXCEPT ![t] = rows]) /\ [db EXCEPT ![t] = rows][t] = rows
          /\ \A u \in DOMAIN Schema \ {t} : [db EXCEPT ![t] = rows][u] = db[u]
      BY <2>4, <3>1, Replaced
    <3>. QED BY <2>1, <3>2
  <2>. QED BY <2>3, <2>5
<1>. QED BY <1>1, <1>2

\* A delete leaves the database alone or takes rows of the call's tenant away.
LEMMA DeleteChanges ==
    ASSUME NEW db, NEW call, WellStored(db), call.table \in DOMAIN Schema
    PROVE  LET after == ExecuteDelete(Rules, Schema, db, call)
           IN /\ WellStored(after)
              /\ \A t \in DOMAIN Schema :
                    /\ after[t] \ db[t] = {}
                    /\ \A row \in db[t] \ after[t] : OfTenant(Rules, t, call.tenant, row)
<1>. DEFINE t == call.table
            selected == Selected(Rules, Schema, db, call)
            rows == db[t] \ selected
            after == ExecuteDelete(Rules, Schema, db, call)
<1>1. CASE after = db
  BY <1>1
<1>2. CASE after # db
  <2>1. Accepts(Schema, db, t, rows) /\ after = [db EXCEPT ![t] = rows]
    BY <1>2 DEF ExecuteDelete
  <2>2. \A row \in selected : OfTenant(Rules, t, call.tenant, row)
    BY DEF Selected
  <2>. HIDE DEF selected
  <2>3. /\ \A r \in rows : DOMAIN r = DOMAIN Schema[t].columns
        /\ IsFiniteSet(rows)
        /\ KeySet(Schema, t) # {} => KeysAreUnique(Schema, t, rows)
    BY <2>1, FS_Subset DEF WellStored, Accepts
  <2>4. /\ WellStored(after) /\ after[t] = rows
        /\ \A u \in DOMAIN Schema \ {t} : after[u] = db[u]
    <3>. HIDE DEF rows, after
    <3>1. t \in DOMAIN Schema
      OBVIOUS
    <3>. HIDE DEF t
    <3>2. /\ WellStored([db EXCEPT ![t] = rows]) /\ [db EXCEPT ![t] = rows][t] = rows
          /\ \A u \in DOMAIN Schema \ {t} : [db EXCEPT ![t] = rows][u] = db[u]
      BY <2>3, <3>1, Replaced
    <3>. QED BY <2>1, <3>2
  <2>. QED BY <2>2, <2>4
<1>. QED BY <1>1, <1>2

\* The row that an update leaves in the place of another.
Updated(role, call, old) ==
    [c \in DOMAIN old |-> IF c \in SetColumns(role, Schema, call) THEN call.args[c] ELSE old[c]]

\* A key selects one row at most: rows of a table with a key differ in it.
LEMMA OneSelected ==
    ASSUME NEW db, NEW call, WellStored(db), call.table \in DOMAIN Schema,
           Addressed(Rules, Schema, call),
           NEW r \in Selected(Rules, Schema, db, call), NEW s \in Selected(Rules, Schema, db, call)
    PROVE  r = s
<1>1. KeySet(Schema, call.table) # {}
  BY DEF Addressed, HasIntegerKey
<1>2. KeysAreUnique(Schema, call.table, db[call.table])
  BY <1>1 DEF WellStored
<1>3. r \in db[call.table] /\ s \in db[call.table]
  BY DEF Selected
<1>4. \A k \in KeySet(Schema, call.table) : r[k] = s[k]
  BY DEF Selected
<1>. QED BY <1>2, <1>3, <1>4 DEF KeysAreUnique

\* An update leaves the database alone or replaces one row of the call's tenant.
LEMMA UpdateChanges ==
    ASSUME NEW role, NEW db, NEW call, WellStored(db), call.table \in DOMAIN Schema
    PROVE  LET after == ExecuteUpdate(role, Rules, Schema, db, call)
               t == call.table
           IN /\ WellStored(after)
              /\ \A u \in DOMAIN Schema \ {t} : after[u] = db[u]
              /\ after # db =>
                    \E old \in db[t] :
                        /\ OfTenant(Rules, t, call.tenant, old)
                        /\ db[t] \ after[t] = {old}
                        /\ after[t] \ db[t] = {Updated(role, call, old)}
<1>. DEFINE t == call.table
            hit == Selected(Rules, Schema, db, call)
            rows == (db[t] \ hit) \cup {Updated(role, call, row) : row \in hit}
            after == ExecuteUpdate(role, Rules, Schema, db, call)
<1>1. CASE after = db
  BY <1>1
<1>2. CASE after # db
  <2>1. /\ Addressed(Rules, Schema, call)
        /\ SetColumns(role, Schema, call) \subseteq DOMAIN Schema[t].columns
        /\ Accepts(Schema, db, t, rows)
        /\ after = [db EXCEPT ![t] = rows]
    BY <1>2 DEF ExecuteUpdate, Updated
  <2>2. hit \subseteq db[t]
    BY DEF Selected
  <2>3. \A row \in hit : OfTenant(Rules, t, call.tenant, row)
    BY DEF Selected
  <2>4. PICK old \in hit : TRUE
    <3>1. CASE hit = {}
      <4>1. rows = db[t]
        BY <3>1
      <4>. HIDE DEF rows, after
      <4>2. [db EXCEPT ![t] = db[t]] = db
        BY ReplacedBySame
      <4>. QED BY <4>1, <4>2, <2>1, <1>2
    <3>. QED BY <3>1
  <2>5. hit = {old}
    BY <2>1, <2>4, OneSelected
  <2>. DEFINE new == Updated(role, call, old)
  <2>6. rows = (db[t] \ {old}) \cup {new}
    BY <2>5
  <2>7. KeySet(Schema, t) # {} /\ \A k \in KeySet(Schema, t) : k \notin SetColumns(role, Schema, call)
    BY <2>1 DEF Addressed, HasIntegerKey, SetColumns, Updatable
  <2>. HIDE DEF hit, rows, after, t
  <2>8. DOMAIN new = DOMAIN old /\ DOMAIN old = DOMAIN Schema[t].columns
    BY <2>2, <2>4 DEF Updated, WellStored, t
  <2>9. /\ \A r \in rows : DOMAIN r = DOMAIN Schema[t].columns
        /\ IsFiniteSet(rows)
        /\ KeySet(Schema, t) # {} => KeysAreUnique(Schema, t, rows)
    <3>. HIDE DEF new
    <3>1. IsFiniteSet(db[t] \ {old})
      BY FS_Subset DEF WellStored, t
    <3>. QED BY <2>1, <2>6, <2>8, <3>1, FS_AddElement DEF WellStored, Accepts, t
  <2>10. /\ WellStored(after) /\ after[t] = rows
         /\ \A u \in DOMAIN Schema \ {t} : after[u] = db[u]
    <3>1. t \in DOMAIN Schema
      BY DEF t
    <3>2. /\ WellStored([db EXCEPT ![t] = rows]) /\ [db EXCEPT ![t] = rows][t] = rows
          /\ \A u \in DOMAIN Schema \ {t} : [db EXCEPT ![t] = rows][u] = db[u]
      BY <2>9, <3>1, Replaced
    <3>. QED BY <2>1, <3>2
  <2>11. new # old
    <3>1. CASE new = old
      <4>1. rows = db[t]
        BY <3>1, <2>2, <2>4, <2>6
      <4>2. [db EXCEPT ![t] = db[t]] = db
        BY ReplacedBySame DEF t
      <4>. QED BY <4>1, <4>2, <2>1, <1>2
    <3>. QED BY <3>1
  <2>12. new \notin db[t]
    <3>1. SUFFICES ASSUME new \in db[t] PROVE FALSE
      OBVIOUS
    <3>2. KeysAreUnique(Schema, t, db[t])
      BY <2>7 DEF WellStored, t
    <3>3. \A k \in KeySet(Schema, t) : new[k] = old[k]
      <4>. SUFFICES ASSUME NEW k \in KeySet(Schema, t) PROVE new[k] = old[k]
        OBVIOUS
      <4>1. k \in DOMAIN old
        <5>1. HasIntegerKey(Schema, t)
          BY <2>1 DEF Addressed, t
        <5>2. ColumnType(Schema, t, k) # "string"
          BY <5>1 DEF HasIntegerKey
        <5>. QED BY <5>2, <2>8 DEF ColumnType
      <4>. QED BY <4>1, <2>7 DEF Updated
    <3>. QED BY <2>2, <2>4, <2>11, <3>1, <3>2, <3>3 DEF KeysAreUnique
  <2>13. db[t] \ after[t] = {old} /\ after[t] \ db[t] = {new}
    BY <2>2, <2>4, <2>6, <2>10, <2>11, <2>12
  <2>14. OfTenant(Rules, t, call.tenant, old)
    BY <2>3, <2>4
  <2>. QED BY <2>2, <2>4, <2>10, <2>13, <2>14 DEF t, after
<1>. QED BY <1>1, <1>2

-----------------------------------------------------------------------------
(* The invariant                                                           *)

\* A call under way is a record of these fields.
CallFields == {"phase", "op", "table", "args", "tenant", "row", "role", "approved", "found"}
CallsAreRecords == \A s \in Slots : calls[s] # Idle => DOMAIN calls[s] = CallFields

\* A call that waits for approval is no reading, and one that reads was allowed
\* to under the definition it runs with.
Reading == {"get", "list"}
ReadsWereAllowed ==
    /\ \A s \in Slots : calls[s] # Idle /\ calls[s].op \in Reading =>
          calls[s].phase = "run" /\ CanRead(Definition[calls[s].role], calls[s].table)
    /\ \A r \in pending : r.op \notin Reading

IInv == TypeOK /\ CallsAreRecords /\ ReadsWereAllowed

\* A call that gets past the role's permissions is one on a table of the schema.
LEMMA PermittedCall ==
    ASSUME NEW o \in Permitted
    PROVE  LET call == CallOf(o.tool, o.args, o.tenant)
           IN /\ o.version \in Versions /\ o.tenant \in Tenants
              /\ call.op = o.tool.op /\ call.args = o.args /\ call.tenant = o.tenant
              /\ call.args \in Arguments[call.op]
              /\ call.table \in DOMAIN Schema
              /\ call.op \in Reading => CanRead(Definition[o.version], call.table)
<1>. DEFINE call == CallOf(o.tool, o.args, o.tenant)
<1>1. PICK v \in Versions :
        /\ o \in [version : {v}, tool : RoleTools[v], args : AllArguments, tenant : Tenants]
        /\ o.args \in Arguments[o.tool.op]
        /\ ValidateRole(Definition[v], Request(call, {}))
  BY DEF Permitted
<1>2. o.version = v /\ o.tenant \in Tenants
  BY <1>1
<1>3. call.op = o.tool.op /\ call.args = o.args /\ call.tenant = o.tenant
  BY DEF CallOf
<1>. HIDE DEF call
<1>4. /\ call.table \in DOMAIN Definition[v]
      /\ call.op \in Reading => ~ReadableIsEmpty(Definition[v][call.table].readable)
  BY <1>1 DEF ValidateRole, Request, Reading
<1>5. DOMAIN Definition[v] \subseteq DOMAIN Schema
  BY GatewayAssumption DEF GeneratePanics
<1>. QED BY <1>1, <1>2, <1>3, <1>4, <1>5 DEF CanRead, call

LEMMA CallKeeps ==
    ASSUME IInv, NEW s \in Slots, Call(s)
    PROVE  IInv'
<1>0. PICK o \in Permitted :
        LET call == CallOf(o.tool, o.args, o.tenant)
        IN /\ o.version = served
           /\ \E row \in Fetched(call) :
                 calls' = [calls EXCEPT ![s] =
                    [phase |-> IF RequiresApproval(Definition[served], Request(call, row)) = {}
                               THEN "run" ELSE "request",
                     op |-> call.op, table |-> call.table, args |-> call.args,
                     tenant |-> call.tenant, row |-> row, role |-> served,
                     approved |-> FALSE, found |-> NoKeys]]
           /\ UNCHANGED <<database, sequence, saved, served, pending>>
  BY Zenon DEF Call
<1>1. PICK row \in Fetched(CallOf(o.tool, o.args, o.tenant)) :
        LET call == CallOf(o.tool, o.args, o.tenant)
            fields == RequiresApproval(Definition[served], Request(call, row))
        IN calls' = [calls EXCEPT ![s] =
                 [phase |-> IF fields = {} THEN "run" ELSE "request",
                  op |-> call.op, table |-> call.table, args |-> call.args,
                  tenant |-> call.tenant, row |-> row, role |-> served,
                  approved |-> FALSE, found |-> NoKeys]]
  BY <1>0
<1>. DEFINE call == CallOf(o.tool, o.args, o.tenant)
            fields == RequiresApproval(Definition[served], Request(call, row))
<1>2. /\ served \in Versions /\ call.tenant \in Tenants
      /\ call.args \in Arguments[call.op] /\ call.table \in DOMAIN Schema
      /\ call.op \in Reading => CanRead(Definition[served], call.table)
  BY <1>0, PermittedCall
<1>. HIDE DEF call
<1>3. \A r \in row : DOMAIN r = DOMAIN Schema[call.table].columns
  <2>1. row = {} \/ \E r \in CurrentRows(Rules, Schema, database, call) : row = {r}
    BY <1>1 DEF Fetched, call
  <2>2. CurrentRows(Rules, Schema, database, call) \subseteq database[call.table]
    BY DEF CurrentRows
  <2>. QED BY <1>2, <2>1, <2>2 DEF IInv, TypeOK, WellStored
<1>4. call.op \in Reading => fields = {}
  <2>. DEFINE request == Request(call, row)
  <2>1. request.op = call.op
    BY DEF Request
  <2>. HIDE DEF request
  <2>2. request.op \in Reading => RequiresApproval(Definition[served], request) = {}
    BY DEF RequiresApproval, Reading
  <2>. QED BY <2>1, <2>2 DEF request
<1>. HIDE DEF fields
<1>. DEFINE new == [phase |-> IF fields = {} THEN "run" ELSE "request",
                    op |-> call.op, table |-> call.table, args |-> call.args,
                    tenant |-> call.tenant, row |-> row, role |-> served, approved |-> FALSE,
                    found |-> NoKeys]
<1>5. /\ new.phase \in {"request", "run"} /\ new.role \in Versions
      /\ new.table \in DOMAIN Schema /\ new.args \in Arguments[new.op]
      /\ new.tenant \in Tenants
      /\ \A r \in new.row : DOMAIN r = DOMAIN Schema[new.table].columns
      /\ new.op \in Reading => new.phase = "run" /\ CanRead(Definition[new.role], new.table)
      /\ DOMAIN new = CallFields
  BY <1>2, <1>3, <1>4 DEF CallFields
<1>6. calls' = [calls EXCEPT ![s] = new] /\ UNCHANGED <<database, sequence, saved, served, pending>>
  BY <1>0, <1>1 DEF call, fields
<1>. HIDE DEF new
<1>7. DOMAIN calls = Slots
  BY DEF IInv, TypeOK
<1>8. \A r \in Slots : calls'[r] = IF r = s THEN new ELSE calls[r]
  BY <1>6, <1>7
<1>9. TypeOK'
  BY <1>5, <1>6, <1>7, <1>8 DEF IInv, TypeOK
<1>10. ReadsWereAllowed'
  BY <1>5, <1>6, <1>8 DEF IInv, ReadsWereAllowed
<1>11. CallsAreRecords'
  BY <1>5, <1>6, <1>8 DEF IInv, CallsAreRecords
<1>. QED BY <1>9, <1>10, <1>11 DEF IInv

LEMMA AskKeeps ==
    ASSUME IInv, NEW s \in Slots, AskForApproval(s)
    PROVE  IInv'
<1>1. PICK snapshot :
        /\ calls[s].phase = "request"
        /\ pending' = pending \cup {[op |-> calls[s].op, table |-> calls[s].table,
                                     args |-> calls[s].args, tenant |-> calls[s].tenant,
                                     snapshot |-> snapshot]}
        /\ calls' = [calls EXCEPT ![s] = Idle]
        /\ UNCHANGED <<database, sequence, saved, served>>
  BY Zenon DEF AskForApproval
<1>2. calls[s] # Idle
  BY <1>1 DEF Idle
<1>3. /\ calls[s].table \in DOMAIN Schema /\ calls[s].args \in Arguments[calls[s].op]
      /\ calls[s].tenant \in Tenants /\ calls[s].op \notin Reading
  BY <1>1, <1>2 DEF IInv, TypeOK, ReadsWereAllowed
<1>4. DOMAIN calls' = Slots /\ \A r \in Slots : calls'[r] = IF r = s THEN Idle ELSE calls[r]
  BY <1>1 DEF IInv, TypeOK
<1>5. TypeOK'
  BY <1>1, <1>3, <1>4 DEF IInv, TypeOK
<1>6. ReadsWereAllowed'
  BY <1>1, <1>3, <1>4 DEF IInv, ReadsWereAllowed
<1>7. CallsAreRecords'
  BY <1>4 DEF IInv, CallsAreRecords
<1>. QED BY <1>5, <1>6, <1>7 DEF IInv

LEMMA ApproveKeeps ==
    ASSUME IInv, NEW s \in Slots, NEW request \in pending, Approve(s, request)
    PROVE  IInv'
<1>. DEFINE new == [phase |-> "run", op |-> request.op, table |-> request.table,
                    args |-> request.args, tenant |-> request.tenant, row |-> {},
                    role |-> saved, approved |-> TRUE, found |-> NoKeys]
<1>1. /\ pending' \subseteq pending /\ calls' = [calls EXCEPT ![s] = new]
      /\ UNCHANGED <<database, sequence, saved, served>>
  BY DEF Approve
<1>2. /\ new.phase = "run" /\ new.role \in Versions
      /\ new.table \in DOMAIN Schema /\ new.args \in Arguments[new.op]
      /\ new.tenant \in Tenants /\ new.row = {} /\ new.op \notin Reading
      /\ DOMAIN new = CallFields
  BY DEF IInv, TypeOK, ReadsWereAllowed, CallFields
<1>. HIDE DEF new
<1>3. DOMAIN calls' = Slots /\ \A r \in Slots : calls'[r] = IF r = s THEN new ELSE calls[r]
  BY <1>1 DEF IInv, TypeOK
<1>4. TypeOK'
  BY <1>1, <1>2, <1>3 DEF IInv, TypeOK
<1>5. ReadsWereAllowed'
  BY <1>1, <1>2, <1>3 DEF IInv, ReadsWereAllowed
<1>6. CallsAreRecords'
  BY <1>2, <1>3 DEF IInv, CallsAreRecords
<1>. QED BY <1>4, <1>5, <1>6 DEF IInv

\* What the end of a call does to the calls that are under way.
LEMMA EndedKeeps ==
    ASSUME IInv, NEW s \in Slots, calls' = [calls EXCEPT ![s] = Idle],
           UNCHANGED <<saved, served, pending>>, WellStored(database'), sequence' \in Nat
    PROVE  IInv'
<1>1. DOMAIN calls' = Slots /\ \A r \in Slots : calls'[r] = IF r = s THEN Idle ELSE calls[r]
  BY DEF IInv, TypeOK
<1>2. TypeOK'
  BY <1>1 DEF IInv, TypeOK
<1>3. ReadsWereAllowed' /\ CallsAreRecords'
  BY <1>1 DEF IInv, ReadsWereAllowed, CallsAreRecords
<1>. QED BY <1>2, <1>3 DEF IInv

\* A call that runs is one on a table of the schema, under a version of the role.
LEMMA Running ==
    ASSUME IInv, NEW s \in Slots, calls[s].phase = "run"
    PROVE  calls[s] # Idle /\ calls[s].table \in DOMAIN Schema /\ calls[s].role \in Versions
  BY DEF IInv, TypeOK, Idle

\* A check query leaves everything alone but its call: it ends the call or notes
\* what the query found.
LEMMA CheckChanges ==
    ASSUME IInv, NEW s \in Slots, CheckReference(s)
    PROVE  /\ calls[s].phase = "run"
           /\ answer' = NoAnswer
           /\ UNCHANGED <<database, sequence, saved, served, pending>>
           /\ DOMAIN calls' = Slots
           /\ \A r \in Slots \ {s} : calls'[r] = calls[r]
           /\ \/ calls'[s] = Idle
              \/ /\ DOMAIN calls'[s] = CallFields
                 /\ \A field \in CallFields \ {"found"} : calls'[s][field] = calls[s][field]
<1>1. PICK c \in Unchecked(calls[s]) :
        calls' = [calls EXCEPT ![s] =
            IF FkHolds(Definition[calls[s].role], Rules, Schema, database, calls[s], c)
            THEN [calls[s] EXCEPT !.found =
                      [d \in DOMAIN calls[s].found \cup {c} |->
                          IF d = c THEN Referenced(calls[s], c) ELSE calls[s].found[d]]]
            ELSE Idle]
  BY Zenon DEF CheckReference
<1>2. PICK found :
        calls' = [calls EXCEPT ![s] =
            IF FkHolds(Definition[calls[s].role], Rules, Schema, database, calls[s], c)
            THEN [calls[s] EXCEPT !.found = found]
            ELSE Idle]
  BY <1>1
<1>3. /\ calls[s].phase = "run" /\ answer' = NoAnswer
      /\ UNCHANGED <<database, sequence, saved, served, pending>>
  BY Zenon DEF CheckReference
<1>4. DOMAIN calls = Slots /\ DOMAIN calls[s] = CallFields
  BY <1>3, Running DEF IInv, TypeOK, CallsAreRecords
<1>5. DOMAIN calls' = Slots /\ \A r \in Slots \ {s} : calls'[r] = calls[r]
  BY <1>2, <1>4
<1>6. calls'[s] = [calls[s] EXCEPT !.found = found] \/ calls'[s] = Idle
  BY <1>2, <1>4
<1>7. CASE calls'[s] = [calls[s] EXCEPT !.found = found]
  BY <1>3, <1>4, <1>5, <1>7
<1>. QED BY <1>3, <1>5, <1>6, <1>7

LEMMA CheckKeeps ==
    ASSUME IInv, NEW s \in Slots, CheckReference(s)
    PROVE  IInv'
<1>1. /\ calls[s].phase = "run"
      /\ UNCHANGED <<database, sequence, saved, served, pending>>
      /\ DOMAIN calls' = Slots
      /\ \A r \in Slots \ {s} : calls'[r] = calls[r]
      /\ \/ calls'[s] = Idle
         \/ /\ DOMAIN calls'[s] = CallFields
            /\ \A field \in CallFields \ {"found"} : calls'[s][field] = calls[s][field]
  BY CheckChanges
<1>2. \/ calls'[s] = Idle
      \/ /\ DOMAIN calls'[s] = CallFields
         /\ calls'[s].phase = calls[s].phase /\ calls'[s].op = calls[s].op
         /\ calls'[s].table = calls[s].table /\ calls'[s].args = calls[s].args
         /\ calls'[s].tenant = calls[s].tenant /\ calls'[s].row = calls[s].row
         /\ calls'[s].role = calls[s].role
  BY <1>1 DEF CallFields
<1>3. calls[s] # Idle
  BY <1>1, Running
<1>4. TypeOK'
  BY <1>1, <1>2, <1>3 DEF IInv, TypeOK
<1>5. ReadsWereAllowed'
  BY <1>1, <1>2, <1>3 DEF IInv, ReadsWereAllowed
<1>6. CallsAreRecords'
  BY <1>1, <1>2 DEF IInv, CallsAreRecords
<1>. QED BY <1>4, <1>5, <1>6 DEF IInv

LEMMA MutateKeeps ==
    ASSUME IInv, NEW s \in Slots, Mutate(s)
    PROVE  IInv'
<1>1. calls' = [calls EXCEPT ![s] = Idle] /\ UNCHANGED <<saved, served, pending>>
  BY DEF Mutate
<1>2. calls[s].phase = "run" /\ calls[s].table \in DOMAIN Schema
  BY Running DEF Mutate
<1>3. sequence \in Nat /\ sequence' \in Nat
  BY DEF Mutate, IInv, TypeOK
<1>4. WellStored(database)
  BY DEF IInv, TypeOK
<1>5. WellStored(database')
  <2>1. CASE calls[s].op = "create"
    <3>1. \/ database' = database
          \/ database' = ExecuteInsert(Definition[calls[s].role], Rules, Schema, database, calls[s], sequence)
      BY <2>1 DEF Mutate
    <3>. QED BY <1>2, <1>4, <3>1, CreateChanges
  <2>2. CASE calls[s].op = "update"
    <3>1. database' = ExecuteUpdate(Definition[calls[s].role], Rules, Schema, database, calls[s])
      BY <2>2 DEF Mutate
    <3>. QED BY <1>2, <1>4, <3>1, UpdateChanges
  <2>3. CASE calls[s].op = "delete"
    <3>1. database' = ExecuteDelete(Rules, Schema, database, calls[s])
      BY <2>3 DEF Mutate
    <3>. QED BY <1>2, <1>4, <3>1, DeleteChanges
  <2>. QED BY <2>1, <2>2, <2>3 DEF Mutate
<1>. QED BY <1>1, <1>3, <1>5, EndedKeeps

LEMMA ReadKeeps ==
    ASSUME IInv, NEW s \in Slots, Read(s)
    PROVE  IInv'
<1>1. /\ calls' = [calls EXCEPT ![s] = Idle]
      /\ UNCHANGED <<database, sequence, saved, served, pending>>
  BY DEF Read
<1>. QED BY <1>1, EndedKeeps DEF IInv, TypeOK

\* The type invariant, with what is known of the readings, holds of every
\* behaviour (the state that execute and execute_approved keep in executor.rs).
THEOREM Invariance == Spec => []IInv
<1>1. Init => IInv
  BY GatewayAssumption DEF Init, IInv, TypeOK, ReadsWereAllowed, CallsAreRecords
<1>2. IInv /\ [Next]_vars => IInv'
  <2>. SUFFICES ASSUME IInv, [Next]_vars PROVE IInv'
    OBVIOUS
  <2>1. ASSUME NEW s \in Slots, Call(s) PROVE IInv'
    BY <2>1, CallKeeps
  <2>2. ASSUME NEW s \in Slots, AskForApproval(s) PROVE IInv'
    BY <2>2, AskKeeps
  <2>3. ASSUME NEW s \in Slots, Read(s) PROVE IInv'
    BY <2>3, ReadKeeps
  <2>4. ASSUME NEW s \in Slots, Mutate(s) PROVE IInv'
    BY <2>4, MutateKeeps
  <2>10. ASSUME NEW s \in Slots, CheckReference(s) PROVE IInv'
    BY <2>10, CheckKeeps
  <2>5. ASSUME NEW s \in Slots, NEW request \in pending, Approve(s, request) PROVE IInv'
    BY <2>5, ApproveKeeps
  <2>6. ASSUME NEW request \in pending, Discard(request) PROVE IInv'
    BY <2>6 DEF Discard, IInv, TypeOK, ReadsWereAllowed, CallsAreRecords
  <2>7. CASE EditRole
    BY <2>7 DEF EditRole, IInv, TypeOK, ReadsWereAllowed, CallsAreRecords
  <2>8. CASE Restart
    BY <2>8 DEF Restart, IInv, TypeOK, ReadsWereAllowed, CallsAreRecords
  <2>9. CASE UNCHANGED vars
    BY <2>9 DEF vars, IInv, TypeOK, ReadsWereAllowed, CallsAreRecords
  <2>. QED BY <2>1, <2>2, <2>3, <2>4, <2>5, <2>6, <2>7, <2>8, <2>9, <2>10 DEF Next
<1>. QED BY <1>1, <1>2, PTL DEF Spec

\* Every variable holds what the code can put there, and keys stay unique.
THEOREM TypeCorrect == Spec => []TypeOK
  BY Invariance, PTL DEF IInv

-----------------------------------------------------------------------------
(* What a call may change                                                  *)

\* Only the statement of a call changes the database, and it ends that call only.
LEMMA ChangedByMutate ==
    ASSUME IInv, [Next]_vars, NEW s \in Slots, Changes(s)
    PROVE  Mutate(s)
<1>1. database' # database /\ calls'[s] # calls[s]
  BY DEF Changes
<1>2. PICK r \in Slots : Mutate(r)
  <2>1. ASSUME NEW q \in Slots, Call(q) PROVE FALSE
    BY <1>1, <2>1, Zenon DEF Call
  <2>2. ASSUME NEW q \in Slots, AskForApproval(q) PROVE FALSE
    BY <1>1, <2>2, Zenon DEF AskForApproval
  <2>3. ASSUME NEW q \in Slots, CheckReference(q) PROVE FALSE
    BY <1>1, <2>3, CheckChanges
  <2>. QED BY <1>1, <2>1, <2>2, <2>3 DEF Next, Read, Approve, Discard, EditRole, Restart, vars
<1>3. r = s
  BY <1>1, <1>2 DEF Mutate, IInv, TypeOK
<1>. QED BY <1>2, <1>3

\* The three statements, as the step of a slot.
LEMMA MutateChanges ==
    ASSUME IInv, NEW s \in Slots, Mutate(s), database' # database
    PROVE  \/ /\ calls[s].op = "create"
              /\ CreateAllowed(Definition[calls[s].role], Rules, calls[s])
              /\ Unchecked(calls[s]) = {}
              /\ database' = ExecuteInsert(Definition[calls[s].role], Rules, Schema, database, calls[s], sequence)
           \/ /\ calls[s].op = "update"
              /\ database' = ExecuteUpdate(Definition[calls[s].role], Rules, Schema, database, calls[s])
           \/ /\ calls[s].op = "delete"
              /\ database' = ExecuteDelete(Rules, Schema, database, calls[s])
  BY DEF Mutate

\* In the tables that hold their tenant a call only takes away rows of its own tenant,
\* and leaves rows of its own tenant, unless it is an update that was asked to set the
\* tenant column by a role that grants it (the conditions that execute_create,
\* execute_update and execute_delete put into their statements).
THEOREM TenantsAreKeptApart == Spec => RowsStayWithTheirTenant
<1>. DEFINE Apart(s) == Changes(s) => \A t \in HoldTheirTenant :
          /\ \A row \in Gone(t) : OfTenant(Rules, t, calls[s].tenant, row)
          /\ \A row \in New(t) :
                \/ OfTenant(Rules, t, calls[s].tenant, row)
                \/ /\ calls[s].op = "update"
                   /\ \E c \in TenantColumn(Rules, t) \cap DOMAIN calls[s].args :
                          MapContains(Definition[calls[s].role][t].updatable, c)
<1>1. ASSUME IInv, [Next]_vars, NEW s \in Slots PROVE Apart(s)
  <2>. SUFFICES ASSUME Changes(s), NEW t \in HoldTheirTenant
                PROVE  /\ \A row \in Gone(t) : OfTenant(Rules, t, calls[s].tenant, row)
                       /\ \A row \in New(t) :
                             \/ OfTenant(Rules, t, calls[s].tenant, row)
                             \/ /\ calls[s].op = "update"
                                /\ \E c \in TenantColumn(Rules, t) \cap DOMAIN calls[s].args :
                                       MapContains(Definition[calls[s].role][t].updatable, c)
    OBVIOUS
  <2>0. t \in DOMAIN Schema
    BY DEF HoldTheirTenant
  <2>. DEFINE role == Definition[calls[s].role]
  <2>1. Mutate(s) /\ database' # database
    BY <1>1, ChangedByMutate DEF Changes
  <2>2. calls[s].table \in DOMAIN Schema /\ WellStored(database)
    BY <1>1, <2>1, Running DEF Mutate, IInv, TypeOK
  <2>3. CASE /\ calls[s].op = "create"
             /\ database' = ExecuteInsert(role, Rules, Schema, database, calls[s], sequence)
    BY <2>0, <2>2, <2>3, CreateChanges DEF Gone, New
  <2>4. CASE /\ calls[s].op = "delete"
             /\ database' = ExecuteDelete(Rules, Schema, database, calls[s])
    BY <2>0, <2>2, <2>4, DeleteChanges DEF Gone, New
  <2>5. CASE /\ calls[s].op = "update"
             /\ database' = ExecuteUpdate(role, Rules, Schema, database, calls[s])
    <3>1. /\ \A u \in DOMAIN Schema \ {calls[s].table} : database'[u] = database[u]
          /\ \E old \in database[calls[s].table] :
                /\ OfTenant(Rules, calls[s].table, calls[s].tenant, old)
                /\ database[calls[s].table] \ database'[calls[s].table] = {old}
                /\ database'[calls[s].table] \ database[calls[s].table] = {Updated(role, calls[s], old)}
      BY <2>1, <2>2, <2>5, UpdateChanges
    <3>2. CASE t # calls[s].table
      BY <2>0, <3>1, <3>2 DEF Gone, New
    <3>3. CASE t = calls[s].table
      <4>1. PICK old : /\ OfTenant(Rules, t, calls[s].tenant, old)
                       /\ Gone(t) = {old} /\ New(t) = {Updated(role, calls[s], old)}
        BY <3>1, <3>3 DEF Gone, New
      <4>2. ASSUME NEW c \in SetColumns(role, Schema, calls[s])
            PROVE  MapContains(role[t].updatable, c) /\ c \in DOMAIN calls[s].args
        BY <3>3 DEF SetColumns, Updatable
      <4>3. ASSUME \A c \in TenantColumn(Rules, t) : c \notin SetColumns(role, Schema, calls[s])
            PROVE  OfTenant(Rules, t, calls[s].tenant, Updated(role, calls[s], old))
        BY <4>1, <4>3 DEF OfTenant, Updated
      <4>. QED BY <2>5, <4>1, <4>2, <4>3
    <3>. QED BY <3>2, <3>3
  <2>. QED BY <2>1, <2>3, <2>4, <2>5, MutateChanges, <1>1
<1>2. IInv /\ [Next]_vars => [\A s \in Slots : Apart(s)]_vars
  BY <1>1
<1>. QED BY <1>2, Invariance, PTL DEF Spec, RowsStayWithTheirTenant

\* A call that no approver let through was validated with the row it carries, one
\* at most, under the definition it runs with.
DirectCallsWereJudged ==
    \A s \in Slots : calls[s] # Idle /\ ~calls[s].approved =>
        /\ Validate(Definition[calls[s].role], Rules, Request(calls[s], calls[s].row))
        /\ \A q, r \in calls[s].row : q = r

\* Steps that start no call leave the judged calls as they are.
LEMMA JudgedStay ==
    ASSUME DirectCallsWereJudged,
           \A s \in Slots : calls'[s] = calls[s] \/ calls'[s] = Idle \/ calls'[s].approved
    PROVE  DirectCallsWereJudged'
<1>. SUFFICES ASSUME NEW s \in Slots, calls'[s] # Idle, ~calls'[s].approved
              PROVE  /\ Validate(Definition[calls'[s].role], Rules, Request(calls'[s], calls'[s].row))
                     /\ \A q, r \in calls'[s].row : q = r
  BY DEF DirectCallsWereJudged
<1>1. calls'[s] = calls[s]
  OBVIOUS
<1>. QED BY <1>1 DEF DirectCallsWereJudged

\* A call is judged when it is made.
LEMMA CallJudges ==
    ASSUME TypeOK, DirectCallsWereJudged, NEW s \in Slots, Call(s)
    PROVE  DirectCallsWereJudged'
<1>1. PICK o \in Permitted :
        LET call == CallOf(o.tool, o.args, o.tenant)
        IN \E row \in Fetched(call) :
              /\ Validate(Definition[served], Rules, Request(call, row))
              /\ calls' = [calls EXCEPT ![s] =
                    [phase |-> IF RequiresApproval(Definition[served], Request(call, row)) = {}
                               THEN "run" ELSE "request",
                     op |-> call.op, table |-> call.table, args |-> call.args,
                     tenant |-> call.tenant, row |-> row, role |-> served,
                     approved |-> FALSE, found |-> NoKeys]]
  BY Zenon DEF Call
<1>. DEFINE call == CallOf(o.tool, o.args, o.tenant)
<1>2. PICK row \in Fetched(call) :
        /\ Validate(Definition[served], Rules, Request(call, row))
        /\ calls' = [calls EXCEPT ![s] =
              [phase |-> IF RequiresApproval(Definition[served], Request(call, row)) = {}
                         THEN "run" ELSE "request",
               op |-> call.op, table |-> call.table, args |-> call.args,
               tenant |-> call.tenant, row |-> row, role |-> served,
               approved |-> FALSE, found |-> NoKeys]]
  BY <1>1
<1>3. \A q, r \in row : q = r
  BY <1>2 DEF Fetched
<1>. HIDE DEF call
<1>. DEFINE new == [phase |-> IF RequiresApproval(Definition[served], Request(call, row)) = {}
                              THEN "run" ELSE "request",
                    op |-> call.op, table |-> call.table, args |-> call.args,
                    tenant |-> call.tenant, row |-> row, role |-> served, approved |-> FALSE,
                    found |-> NoKeys]
<1>4. /\ new.op = call.op /\ new.table = call.table /\ new.args = call.args
      /\ new.tenant = call.tenant /\ new.row = row /\ new.role = served
  OBVIOUS
<1>5. calls' = [calls EXCEPT ![s] = new] /\ DOMAIN calls = Slots
  BY <1>2 DEF TypeOK
<1>. HIDE DEF new
<1>6. Request(new, new.row) = Request(call, row)
  BY <1>4 DEF Request
<1>7. calls'[s] = new /\ \A r \in Slots \ {s} : calls'[r] = calls[r]
  BY <1>5
<1>8. Validate(Definition[calls'[s].role], Rules, Request(calls'[s], calls'[s].row))
  BY <1>2, <1>4, <1>6, <1>7
<1>9. \A q, r \in calls'[s].row : q = r
  BY <1>3, <1>4, <1>7
<1>10. ASSUME NEW u \in Slots, calls'[u] # Idle, ~calls'[u].approved
       PROVE  /\ Validate(Definition[calls'[u].role], Rules, Request(calls'[u], calls'[u].row))
              /\ \A q, r \in calls'[u].row : q = r
  <2>1. CASE u = s
    BY <1>8, <1>9, <2>1
  <2>2. CASE u # s
    <3>1. calls'[u] = calls[u]
      BY <1>7, <2>2
    <3>. QED BY <1>10, <3>1 DEF DirectCallsWereJudged
  <2>. QED BY <2>1, <2>2
<1>. QED BY <1>10 DEF DirectCallsWereJudged

\* What judges a call does not look at what its check queries found.
LEMMA CheckJudges ==
    ASSUME IInv, DirectCallsWereJudged, NEW s \in Slots, CheckReference(s)
    PROVE  DirectCallsWereJudged'
<1>1. /\ calls[s].phase = "run"
      /\ \A r \in Slots \ {s} : calls'[r] = calls[r]
      /\ \/ calls'[s] = Idle
         \/ \A field \in CallFields \ {"found"} : calls'[s][field] = calls[s][field]
  BY CheckChanges
<1>2. calls[s] # Idle
  BY <1>1, Running
<1>3. CASE calls'[s] = Idle
  <2>1. \A r \in Slots : calls'[r] = calls[r] \/ calls'[r] = Idle
    BY <1>1, <1>3
  <2>. QED BY <2>1, JudgedStay
<1>4. CASE \A field \in CallFields \ {"found"} : calls'[s][field] = calls[s][field]
  <2>1. /\ calls'[s].op = calls[s].op /\ calls'[s].table = calls[s].table
        /\ calls'[s].args = calls[s].args /\ calls'[s].tenant = calls[s].tenant
        /\ calls'[s].row = calls[s].row /\ calls'[s].role = calls[s].role
        /\ calls'[s].approved = calls[s].approved
    BY <1>4 DEF CallFields
  <2>2. Request(calls'[s], calls'[s].row) = Request(calls[s], calls[s].row)
    BY <2>1 DEF Request
  <2>3. ~calls[s].approved =>
            /\ Validate(Definition[calls[s].role], Rules, Request(calls[s], calls[s].row))
            /\ \A q, r \in calls[s].row : q = r
    BY <1>2 DEF DirectCallsWereJudged
  <2>4. ASSUME NEW u \in Slots, calls'[u] # Idle, ~calls'[u].approved
        PROVE  /\ Validate(Definition[calls'[u].role], Rules, Request(calls'[u], calls'[u].row))
               /\ \A q, r \in calls'[u].row : q = r
    <3>1. CASE u = s
      BY <2>1, <2>2, <2>3, <2>4, <3>1
    <3>2. CASE u # s
      <4>1. calls'[u] = calls[u]
        BY <1>1, <3>2
      <4>. QED BY <2>4, <4>1 DEF DirectCallsWereJudged
    <3>. QED BY <3>1, <3>2
  <2>. QED BY <2>4 DEF DirectCallsWereJudged
<1>. QED BY <1>1, <1>3, <1>4

\* Every direct call under way has been judged.
THEOREM CallsAreJudged == Spec => []DirectCallsWereJudged
<1>1. Init => DirectCallsWereJudged
  BY DEF Init, DirectCallsWereJudged
<1>2. IInv /\ DirectCallsWereJudged /\ [Next]_vars => DirectCallsWereJudged'
  <2>. SUFFICES ASSUME IInv, DirectCallsWereJudged, [Next]_vars PROVE DirectCallsWereJudged'
    OBVIOUS
  <2>0. TypeOK /\ DOMAIN calls = Slots
    BY DEF IInv, TypeOK
  <2>1. ASSUME NEW s \in Slots, Call(s) PROVE DirectCallsWereJudged'
    BY <2>0, <2>1, CallJudges
  <2>2. ASSUME NEW s \in Slots, AskForApproval(s) \/ Read(s) \/ Mutate(s) PROVE DirectCallsWereJudged'
    <3>1. calls' = [calls EXCEPT ![s] = Idle]
      <4>1. AskForApproval(s) => calls' = [calls EXCEPT ![s] = Idle]
        BY Zenon DEF AskForApproval
      <4>. QED BY <2>2, <4>1 DEF Read, Mutate
    <3>2. \A r \in Slots : calls'[r] = calls[r] \/ calls'[r] = Idle
      BY <2>0, <3>1
    <3>. QED BY <3>2, JudgedStay
  <2>3. ASSUME NEW s \in Slots, NEW request \in pending, Approve(s, request) PROVE DirectCallsWereJudged'
    <3>. DEFINE new == [phase |-> "run", op |-> request.op, table |-> request.table,
                        args |-> request.args, tenant |-> request.tenant, row |-> {},
                        role |-> saved, approved |-> TRUE, found |-> NoKeys]
    <3>1. calls' = [calls EXCEPT ![s] = new]
      BY <2>3 DEF Approve
    <3>2. new.approved
      OBVIOUS
    <3>. HIDE DEF new
    <3>3. \A r \in Slots : calls'[r] = calls[r] \/ calls'[r].approved
      BY <2>0, <3>1, <3>2
    <3>. QED BY <3>3, JudgedStay
  <2>8. ASSUME NEW s \in Slots, CheckReference(s) PROVE DirectCallsWereJudged'
    BY <2>8, CheckJudges
  <2>4. ASSUME NEW request \in pending, Discard(request) PROVE DirectCallsWereJudged'
    BY <2>4, JudgedStay DEF Discard
  <2>5. CASE EditRole
    BY <2>5, JudgedStay DEF EditRole
  <2>6. CASE Restart
    BY <2>6, JudgedStay DEF Restart
  <2>7. CASE UNCHANGED vars
    BY <2>7, JudgedStay DEF vars
  <2>. QED BY <2>1, <2>2, <2>3, <2>4, <2>5, <2>6, <2>7, <2>8 DEF Next
<1>. QED BY <1>1, <1>2, Invariance, PTL DEF Spec

\* An update replaces one row by one that keeps its key and differs in columns
\* only that the role grants when the statement is made, and a create or delete
\* that nobody had to approve is granted (execute_update, and the validation that
\* execute does before any statement).
THEOREM OnlyGrantedChanges == Spec => ChangesAreGranted
<1>. DEFINE Granted(s) == Changes(s) =>
          LET t == calls[s].table
              role == Definition[calls[s].role]
          IN /\ calls[s].op = "create" /\ ~calls[s].approved => CanCreate(role, t)
             /\ calls[s].op = "delete" /\ ~calls[s].approved => CanDelete(role, t)
             /\ calls[s].op = "update" => t \in DOMAIN role /\
                 \E old \in Gone(t), new \in New(t) :
                    /\ Gone(t) = {old} /\ New(t) = {new}
                    /\ \A c \in DOMAIN new : new[c] # old[c] =>
                          /\ c \notin KeySet(Schema, t)
                          /\ MapContains(role[t].updatable, c)
<1>1. ASSUME IInv, DirectCallsWereJudged, [Next]_vars, NEW s \in Slots PROVE Granted(s)
  <2>. SUFFICES ASSUME Changes(s) PROVE Granted(s)
    OBVIOUS
  <2>. DEFINE role == Definition[calls[s].role]
              t == calls[s].table
              set == SetColumns(role, Schema, calls[s])
              request == Request(calls[s], calls[s].row)
  <2>1. Mutate(s) /\ database' # database
    BY <1>1, ChangedByMutate DEF Changes
  <2>2. calls[s] # Idle /\ t \in DOMAIN Schema /\ WellStored(database)
    BY <1>1, <2>1, Running DEF Mutate, IInv, TypeOK
  <2>3. ASSUME ~calls[s].approved
        PROVE  /\ calls[s].op = "create" => CanCreate(role, t)
               /\ calls[s].op = "delete" => CanDelete(role, t)
    <3>1. Validate(role, Rules, request)
      BY <1>1, <2>2, <2>3 DEF DirectCallsWereJudged
    <3>2. request.op = calls[s].op /\ request.table = t
      BY DEF Request
    <3>. HIDE DEF request, role, t
    <3>. QED BY <3>1, <3>2 DEF Validate, ValidateRole, CanCreate, CanDelete
  <2>4. ASSUME calls[s].op = "update"
        PROVE  t \in DOMAIN role /\
               \E old \in Gone(t), new \in New(t) :
                  /\ Gone(t) = {old} /\ New(t) = {new}
                  /\ \A c \in DOMAIN new : new[c] # old[c] =>
                        /\ c \notin KeySet(Schema, t)
                        /\ MapContains(role[t].updatable, c)
    <3>1. database' = ExecuteUpdate(role, Rules, Schema, database, calls[s])
      BY <2>1, <2>4, MutateChanges, <1>1
    <3>2. PICK old : Gone(t) = {old} /\ New(t) = {Updated(role, calls[s], old)}
      BY <2>1, <2>2, <3>1, UpdateChanges DEF Gone, New
    <3>3. set # {}
      BY <2>1, <3>1 DEF ExecuteUpdate
    <3>4. \A c \in set : /\ c \notin KeySet(Schema, t) /\ t \in DOMAIN role
                         /\ MapContains(role[t].updatable, c)
      BY DEF SetColumns, Updatable
    <3>5. \A c \in DOMAIN Updated(role, calls[s], old) :
              Updated(role, calls[s], old)[c] # old[c] => c \in set
      BY DEF Updated
    <3>. HIDE DEF set
    <3>. QED BY <3>2, <3>3, <3>4, <3>5
  <2>. QED BY <2>3, <2>4
<1>2. IInv /\ DirectCallsWereJudged /\ [Next]_vars => [\A s \in Slots : Granted(s)]_vars
  BY <1>1
<1>. QED BY <1>2, Invariance, CallsAreJudged, PTL DEF Spec, ChangesAreGranted

-----------------------------------------------------------------------------
(* What a call may read                                                    *)

\* The columns that are selected are columns the role lists.
LEMMA SelectedColumns ==
    ASSUME NEW role, NEW table, CanRead(role, table),
           NEW c \in ReadColumns(role, Schema, table)
    PROVE  ReadableContains(role[table].readable, c)
  BY DEF CanRead, ReadColumns, ReadableContains, ReadableIsEmpty

\* An image of a finite set has at most as many elements.
LEMMA ShownCardinality ==
    ASSUME NEW page, IsFiniteSet(page), NEW columns
    PROVE  Cardinality({Shown(row, columns) : row \in page}) <= Cardinality(page)
<1>. DEFINE image == {Shown(row, columns) : row \in page}
            f == [row \in page |-> Shown(row, columns)]
<1>1. f \in Surjection(page, image)
  BY DEF Surjection
<1>. HIDE DEF image, f
<1>2. Cardinality(image) <= Cardinality(page)
  BY <1>1, FS_Surjection
<1>. QED BY <1>2 DEF image

\* A list is never longer than max_per_page.
LEMMA LimitBounded ==
    ASSUME NEW v \in Versions, NEW call, call.table \in DOMAIN Definition[v],
           call.args \in Arguments["list"], NEW max \in Definition[v][call.table].readable.max
    PROVE  max \in Nat /\ EffectiveLimit(Definition[v], call) \in Int
           /\ EffectiveLimit(Definition[v], call) <= max
<1>1. max \in Nat /\ \A m \in Definition[v][call.table].readable.max : m = max
  BY GatewayAssumption DEF WellFormed
<1>2. MaxPerPage(Definition[v], call.table) # {} /\ The(MaxPerPage(Definition[v], call.table)) = max
  BY <1>1 DEF MaxPerPage, The
<1>3. "limit" \in DOMAIN call.args /\ Kind(call.args["limit"]) = "int" => call.args["limit"][2] \in Int
  BY GatewayAssumption
<1>. QED BY <1>1, <1>2, <1>3 DEF EffectiveLimit

\* Reads answer with columns that the role lists of rows that are there, a list with
\* no more rows than max_per_page; in the tables that hold their tenant these are rows
\* of the tenant of the call (execute_get, execute_list).
THEOREM ReadsAreScoped == Spec => ReadsStayInScope
<1>. DEFINE Scoped(s) == Answered(s) =>
          LET t == calls[s].table
              readable == Definition[calls[s].role][t].readable
          IN /\ \A max \in readable.max : calls[s].op = "list" => Cardinality(answer') <= max
             /\ \A shown \in answer' :
                   /\ \A c \in DOMAIN shown : ReadableContains(readable, c)
                   /\ \E row \in database[t] :
                         /\ t \in HoldTheirTenant => OfTenant(Rules, t, calls[s].tenant, row)
                         /\ \A c \in DOMAIN shown : shown[c] = row[c]
<1>1. ASSUME IInv, [Next]_vars, NEW s \in Slots PROVE Scoped(s)
  <2>. SUFFICES ASSUME answer' # NoAnswer, calls'[s] # calls[s] PROVE Scoped(s)
    BY DEF Answered
  <2>. DEFINE role == Definition[calls[s].role]
              t == calls[s].table
              columns == ReadColumns(role, Schema, t)
  <2>1. PICK r \in Slots : Read(r)
    <3>1. ASSUME NEW q \in Slots, Call(q) PROVE FALSE
      BY <3>1, Zenon DEF Call
    <3>2. ASSUME NEW q \in Slots, AskForApproval(q) PROVE FALSE
      BY <3>2, Zenon DEF AskForApproval
    <3>3. ASSUME UNCHANGED vars PROVE FALSE
      BY <3>3 DEF vars
    <3>4. ASSUME NEW q \in Slots, CheckReference(q) PROVE FALSE
      BY <1>1, <3>4, CheckChanges
    <3>. QED BY <1>1, <3>1, <3>2, <3>3, <3>4 DEF Next, Mutate, Approve, Discard, EditRole, Restart
  <2>2. r = s
    BY <1>1, <2>1 DEF Read, IInv, TypeOK
  <2>3. Read(s)
    BY <2>1, <2>2
  <2>4. /\ calls[s].op \in Reading /\ CanRead(role, t) /\ t \in DOMAIN Schema
        /\ calls[s].role \in Versions /\ calls[s].args \in Arguments[calls[s].op]
        /\ IsFiniteSet(database[t])
    <3>1. calls[s] # Idle /\ calls[s].op \in Reading
      BY <1>1, <2>3, Running DEF Read, Reading
    <3>. QED BY <3>1, <1>1 DEF IInv, TypeOK, ReadsWereAllowed, WellStored
  <2>5. ASSUME NEW row \in database[t], OfTenant(Rules, t, calls[s].tenant, row)
        PROVE  LET shown == Shown(row, columns)
               IN /\ \A c \in DOMAIN shown : ReadableContains(role[t].readable, c)
                  /\ \A c \in DOMAIN shown : shown[c] = row[c]
    BY <2>4, SelectedColumns DEF Shown
  <2>6. CASE calls[s].op = "get"
    <3>1. answer' = GetAnswers(role, Rules, Schema, database, calls[s])
      BY <2>3, <2>6 DEF Read
    <3>2. answer' = {Shown(row, columns) : row \in Selected(Rules, Schema, database, calls[s])}
      BY <3>1 DEF GetAnswers, NoAnswer
    <3>3. \A row \in Selected(Rules, Schema, database, calls[s]) :
              row \in database[t] /\ OfTenant(Rules, t, calls[s].tenant, row)
      BY DEF Selected
    <3>. QED BY <2>5, <2>6, <3>2, <3>3
  <2>7. CASE calls[s].op = "list"
    <3>1. answer' \in ListAnswers(role, Rules, Schema, database, calls[s])
      BY <2>3, <2>7 DEF Read
    <3>2. PICK page \in SUBSET Matching(Rules, database, calls[s]) :
            /\ Cardinality(page) <= EffectiveLimit(role, calls[s])
            /\ answer' = {Shown(row, columns) : row \in page}
      BY <3>1 DEF ListAnswers, NoAnswer
    <3>3. \A row \in page : row \in database[t] /\ OfTenant(Rules, t, calls[s].tenant, row)
      BY DEF Matching
    <3>4. IsFiniteSet(page)
      BY <2>4, <3>3, FS_Subset
    <3>5. Cardinality(answer') <= Cardinality(page)
      BY <3>2, <3>4, ShownCardinality
    <3>6. IsFiniteSet(answer')
      <4>1. [row \in page |-> Shown(row, columns)] \in Surjection(page, answer')
        BY <3>2 DEF Surjection
      <4>. QED BY <4>1, <3>4, FS_Surjection
    <3>7. ASSUME NEW max \in role[t].readable.max PROVE Cardinality(answer') <= max
      <4>1. t \in DOMAIN role
        BY <2>4 DEF CanRead
      <4>2. max \in Nat /\ EffectiveLimit(role, calls[s]) \in Int /\ EffectiveLimit(role, calls[s]) <= max
        BY <2>4, <2>7, <4>1, LimitBounded
      <4>3. Cardinality(page) \in Nat /\ Cardinality(answer') \in Nat
        BY <3>4, <3>6, FS_CardinalityType
      <4>. HIDE DEF role, t
      <4>. QED BY <3>2, <3>5, <4>2, <4>3
    <3>. QED BY <2>5, <3>2, <3>3, <3>7
  <2>. QED BY <2>4, <2>6, <2>7 DEF Reading
<1>2. IInv /\ [Next]_vars => [\A s \in Slots : Scoped(s)]_vars
  BY <1>1
<1>. QED BY <1>2, Invariance, PTL DEF Spec, ReadsStayInScope

-----------------------------------------------------------------------------
(* The tool that is offered and the policy that judges its calls           *)

\* A verification value that a tool asks for is one that the role knows.
LEMMA OfferedVerifyKeysKnown ==
    ASSUME NEW table, NEW columns
    PROVE  OfferedVerifyKeys(Schema, table, columns) \subseteq FkVerificationColumns(columns)
  BY DEF OfferedVerifyKeys, FkVerificationColumns

\* The columns that a permission is about.
Named(t, columns) == IF columns.all THEN DOMAIN Schema[t].columns ELSE DOMAIN columns.map

\* The properties that a tool has for the columns of a permission.
LEMMA DomainOfColumnProps ==
    ASSUME NEW t, NEW columns, NEW enums
    PROVE  DOMAIN ColumnProps(Schema, t, columns, enums) =
               Named(t, columns) \cup OfferedVerifyKeys(Schema, t, columns)
  BY DEF ColumnProps, Named

LEMMA EnumsOfColumnProps ==
    ASSUME NEW t, NEW columns, NEW enums,
           NEW k \in Named(t, columns) \ OfferedVerifyKeys(Schema, t, columns), k \in DOMAIN enums
    PROVE  ColumnProps(Schema, t, columns, enums)[k].enum = enums[k]
  BY DEF ColumnProps, Prop, Named

\* Taking the conditions away leaves what a verification value is.
LEMMA ConditionsTaken ==
    ASSUME NEW updatable
    PROVE  /\ WithoutConditions(updatable).all = updatable.all
           /\ DOMAIN WithoutConditions(updatable).map = DOMAIN updatable.map
           /\ \A c \in DOMAIN updatable.map :
                 /\ WithoutConditions(updatable).map[c].only_when = {}
                 /\ WithoutConditions(updatable).map[c].fk = updatable.map[c].fk
                 /\ WithoutConditions(updatable).map[c].verify_with = updatable.map[c].verify_with
<1>1. WithoutConditions(updatable).all = updatable.all
  BY DEF WithoutConditions
<1>2. WithoutConditions(updatable).map =
        [c \in DOMAIN updatable.map |->
            [only_when |-> {}, approval |-> updatable.map[c].approval,
             fk |-> updatable.map[c].fk, verify_with |-> updatable.map[c].verify_with]]
  BY DEF WithoutConditions
<1>3. DOMAIN WithoutConditions(updatable).map = DOMAIN updatable.map
  BY <1>2
<1>4. ASSUME NEW c \in DOMAIN updatable.map
      PROVE  WithoutConditions(updatable).map[c] =
                [only_when |-> {}, approval |-> updatable.map[c].approval,
                 fk |-> updatable.map[c].fk, verify_with |-> updatable.map[c].verify_with]
  BY <1>2, <1>4
<1>5. ASSUME NEW c \in DOMAIN updatable.map
      PROVE  /\ WithoutConditions(updatable).map[c].only_when = {}
             /\ WithoutConditions(updatable).map[c].fk = updatable.map[c].fk
             /\ WithoutConditions(updatable).map[c].verify_with = updatable.map[c].verify_with
  <2>. DEFINE new == WithoutConditions(updatable).map[c]
              old == updatable.map[c]
  <2>1. new = [only_when |-> {}, approval |-> old.approval, fk |-> old.fk, verify_with |-> old.verify_with]
    BY <1>4
  <2>. HIDE DEF new, old
  <2>2. new.only_when = {} /\ new.fk = old.fk /\ new.verify_with = old.verify_with
    BY <2>1
  <2>. QED BY <2>2 DEF new, old
<1>. QED BY <1>1, <1>3, <1>5

\* The arguments of a create tool pass what the validator asks of a create.
LEMMA CreateAgrees ==
    ASSUME NEW v \in Versions, NEW t \in DOMAIN Definition[v], NEW args,
           DOMAIN args \subseteq DOMAIN CreateTool(Definition[v], Schema, t).props,
           ValidateArguments(CreateTool(Definition[v], Schema, t), args),
           NEW request, request.table = t, request.args = args
    PROVE  ValidateCreate(Definition[v], Rules, request)
<1>. DEFINE creatable == Definition[v][t].creatable
            map == creatable.map
            tool == CreateTool(Definition[v], Schema, t)
            verify == OfferedVerifyKeys(Schema, t, creatable)
            named == Named(t, creatable)
            enums == [c \in DOMAIN map |-> map[c].restrict_to]
<1>1. creatable.all => DOMAIN map = {}
  BY GatewayAssumption DEF WellFormed
<1>2. tool.props = ColumnProps(Schema, t, creatable, enums) /\ tool.required = CreateRequired(Definition[v], Schema, t)
  BY DEF CreateTool
<1>3. /\ DOMAIN tool.props = named \cup verify
      /\ \A k \in named \ verify : k \in DOMAIN map => tool.props[k].enum = map[k].restrict_to
  <2>1. DOMAIN ColumnProps(Schema, t, creatable, enums) = named \cup verify
    BY DomainOfColumnProps
  <2>2. ASSUME NEW k \in named \ verify, k \in DOMAIN map
        PROVE  ColumnProps(Schema, t, creatable, enums)[k].enum = map[k].restrict_to
    <3>1. k \in DOMAIN enums /\ enums[k] = map[k].restrict_to
      BY <2>2
    <3>. HIDE DEF enums
    <3>. QED BY <2>2, <3>1, EnumsOfColumnProps
  <2>. HIDE DEF tool, enums
  <2>. QED BY <1>2, <2>1, <2>2
<1>. HIDE DEF tool
<1>4. ASSUME NEW c \in DOMAIN args \ FkVerificationColumns(creatable)
      PROVE  /\ MapContains(creatable, c)
             /\ c \in DOMAIN map => \A allowed \in map[c].restrict_to : args[c] \in allowed
  <2>1. c \in named \ verify
    BY <1>3, <1>4, OfferedVerifyKeysKnown DEF tool
  <2>2. MapContains(creatable, c)
    BY <2>1 DEF MapContains, Named
  <2>3. \A enum \in tool.props[c].enum : args[c] \in enum
    BY <1>3, <2>1 DEF ValidateArguments, tool
  <2>4. c \in DOMAIN map => tool.props[c].enum = map[c].restrict_to
    BY <1>3, <2>1
  <2>. QED BY <2>2, <2>3, <2>4
<1>5. ASSUME NEW c \in DOMAIN map, map[c].required
      PROVE  c \in DOMAIN args
  <2>1. c \in tool.required
    BY <1>1, <1>2, <1>5 DEF CreateRequired
  <2>. QED BY <2>1 DEF ValidateArguments, tool
<1>. QED BY <1>4, <1>5 DEF ValidateCreate

\* The arguments of an update tool pass what the validator asks of an update,
\* the conditions on rows apart.
LEMMA UpdateAgrees ==
    ASSUME NEW v \in Versions, NEW t \in DOMAIN Definition[v], NEW args,
           DOMAIN args \subseteq DOMAIN UpdateTool(Definition[v], Schema, t).props,
           NEW request, request.table = t, request.args = args, request.keys = KeySet(Schema, t)
    PROVE  ValidateUpdate(Unconditional(Definition[v]), Rules, request)
<1>. DEFINE updatable == Definition[v][t].updatable
            free == Unconditional(Definition[v])[t].updatable
            map == updatable.map
            named == Named(t, updatable)
            enums == [c \in DOMAIN map |-> UNION {NewValueRestriction(sets, c) : sets \in map[c].only_when}]
<1>1. free = WithoutConditions(updatable)
  BY DEF Unconditional
<1>2. /\ free.all = updatable.all /\ DOMAIN free.map = DOMAIN map
      /\ \A c \in DOMAIN map : /\ free.map[c].only_when = {}
                               /\ free.map[c].fk = map[c].fk
                               /\ free.map[c].verify_with = map[c].verify_with
  BY <1>1, ConditionsTaken
<1>. HIDE DEF free
<1>3. FkVerificationColumns(free) = FkVerificationColumns(updatable)
  BY <1>2 DEF FkVerificationColumns
<1>4. ASSUME NEW c \in DOMAIN args \ (KeySet(Schema, t) \cup FkVerificationColumns(free))
      PROVE  MapContains(free, c)
  <2>1. c \in named \cup OfferedVerifyKeys(Schema, t, updatable) \cup KeySet(Schema, t)
    <3>1. DOMAIN UpdateTool(Definition[v], Schema, t).props =
             DOMAIN ColumnProps(Schema, t, updatable, enums) \cup DOMAIN KeyProps(Schema, t)
      BY DEF UpdateTool, Extend
    <3>. HIDE DEF enums
    <3>2. DOMAIN ColumnProps(Schema, t, updatable, enums) = named \cup OfferedVerifyKeys(Schema, t, updatable)
      BY DomainOfColumnProps
    <3>3. DOMAIN KeyProps(Schema, t) \subseteq KeySet(Schema, t)
      BY DEF KeyProps
    <3>. QED BY <1>4, <3>1, <3>2, <3>3
  <2>2. c \in named
    BY <1>3, <1>4, <2>1, OfferedVerifyKeysKnown
  <2>. QED BY <1>2, <2>2 DEF MapContains, Named
<1>. QED BY <1>2, <1>4 DEF ValidateUpdate, free

\* The tools of a table, told apart by their operation.
LEMMA ToolsOfATable ==
    ASSUME NEW v \in Versions, NEW t, NEW tool \in GenerateTableTools(Definition[v], Schema, t)
    PROVE  \/ tool.op = "get" /\ CanRead(Definition[v], t) /\ tool = GetTool(Schema, t)
           \/ tool.op = "list" /\ CanRead(Definition[v], t) /\ tool = ListTool(Definition[v], Schema, t)
           \/ tool.op = "create" /\ CanCreate(Definition[v], t) /\ tool = CreateTool(Definition[v], Schema, t)
           \/ tool.op = "update" /\ CanUpdate(Definition[v], t) /\ tool = UpdateTool(Definition[v], Schema, t)
           \/ tool.op = "delete" /\ CanDelete(Definition[v], t) /\ tool = DeleteTool(Definition[v], Schema, t)
<1>1. /\ GetTool(Schema, t).op = "get" /\ ListTool(Definition[v], Schema, t).op = "list"
      /\ CreateTool(Definition[v], Schema, t).op = "create"
      /\ UpdateTool(Definition[v], Schema, t).op = "update"
      /\ DeleteTool(Definition[v], Schema, t).op = "delete"
  BY DEF GetTool, ListTool, CreateTool, UpdateTool, DeleteTool
<1>. QED BY <1>1 DEF GenerateTableTools

\* The arguments of any tool pass what the role asks of its operation.
LEMMA RoleAgrees ==
    ASSUME NEW v \in Versions, NEW t \in DOMAIN Definition[v] \cap DOMAIN Schema, NEW args,
           NEW tool \in GenerateTableTools(Definition[v], Schema, t), ValidateArguments(tool, args),
           NEW request, request.op = tool.op, request.table = t, request.args = args,
           request.keys = KeySet(Schema, t)
    PROVE  ValidateRole(Definition[v], request)
<1>. DEFINE role == Definition[v]
<1>1. tool.required \subseteq DOMAIN args
  BY DEF ValidateArguments
<1>2. CASE tool.op = "get" /\ CanRead(role, t) /\ tool = GetTool(Schema, t)
  <2>1. tool.required = KeySet(Schema, t)
    BY <1>2 DEF GetTool
  <2>. QED BY <1>1, <1>2, <2>1 DEF ValidateRole, CanRead, HasKeys
<1>3. CASE tool.op = "list" /\ CanRead(role, t) /\ tool = ListTool(role, Schema, t)
  <2>1. ASSUME NEW max \in role[t].readable.max, "limit" \in DOMAIN args, Kind(args["limit"]) = "int"
        PROVE  args["limit"][2] <= max
    <3>. DEFINE paging == [limit |-> [type |-> "integer", enum |-> {}, max |-> MaxPerPage(role, t)],
                           offset |-> Prop("integer", {})]
    <3>1. tool.props = Extend(paging, FilterProps(role, Schema, t))
      <4>1. MaxPerPage(role, t) # {}
        BY <2>1 DEF MaxPerPage
      <4>. QED BY <1>3, <4>1 DEF ListTool
    <3>2. "limit" \notin DOMAIN FilterProps(role, Schema, t)
      <4>1. "limit" \notin DOMAIN Schema[t].columns
        BY GatewayAssumption
      <4>. QED BY <4>1 DEF FilterProps
    <3>3. "limit" \in DOMAIN tool.props /\ tool.props["limit"].max = MaxPerPage(role, t)
      BY <3>1, <3>2 DEF Extend
    <3>. QED BY <2>1, <3>3 DEF ValidateArguments, MaxPerPage
  <2>. QED BY <1>3, <2>1 DEF ValidateRole, CanRead
<1>4. CASE tool.op = "create" /\ CanCreate(role, t)
  BY <1>4 DEF ValidateRole, CanCreate
<1>5. CASE tool.op = "update" /\ CanUpdate(role, t) /\ tool = UpdateTool(role, Schema, t)
  <2>1. tool.required = KeySet(Schema, t)
    BY <1>5 DEF UpdateTool
  <2>. QED BY <1>1, <1>5, <2>1 DEF ValidateRole, CanUpdate, HasKeys
<1>6. CASE tool.op = "delete" /\ CanDelete(role, t) /\ tool = DeleteTool(role, Schema, t)
  <2>1. tool.required = KeySet(Schema, t)
    BY <1>6 DEF DeleteTool
  <2>. QED BY <1>1, <1>6, <2>1 DEF ValidateRole, CanDelete, HasKeys
<1>. QED BY <1>2, <1>3, <1>4, <1>5, <1>6, ToolsOfATable

\* Arguments that keep to the input schema of an offered tool are refused by
\* conditions on rows and by the rules only (tool_generator.rs, validator.rs).
THEOREM OfferedCallsPass == Spec => []OfferedArgumentsPass
<1>1. ASSUME NEW v \in Versions PROVE PolicyAgrees(v)
  <2>. SUFFICES ASSUME NEW tool \in RoleTools[v], NamesItsTable(tool, Definition[v]),
                       NEW args \in Arguments[tool.op], DOMAIN args \subseteq DOMAIN tool.props,
                       ValidateArguments(tool, args)
                PROVE  LET request == RequestOf(tool, args, "")
                       IN /\ ValidateRole(Definition[v], request)
                          /\ tool.op = "create" => ValidateCreate(Definition[v], Rules, request)
                          /\ tool.op = "update" =>
                                ValidateUpdate(Unconditional(Definition[v]), Rules, request)
    BY Zenon DEF PolicyAgrees
  <2>. DEFINE request == RequestOf(tool, args, "")
              t == ParseToolOperation(tool)
  <2>1. /\ request.op = tool.op /\ request.table = t /\ request.args = args
        /\ request.keys = KeySet(Schema, t)
    BY DEF RequestOf, Request, CallOf
  <2>2. t \in DOMAIN Definition[v] \cap DOMAIN Schema /\ tool \in GenerateTableTools(Definition[v], Schema, t)
    BY GatewayAssumption DEF NamesItsTable, GeneratePanics
  <2>. HIDE DEF request, t
  <2>3. ValidateRole(Definition[v], request)
    BY <2>1, <2>2, RoleAgrees
  <2>4. ASSUME tool.op = "create" PROVE ValidateCreate(Definition[v], Rules, request)
    <3>1. tool = CreateTool(Definition[v], Schema, t)
      BY <2>2, <2>4, ToolsOfATable
    <3>. QED BY <2>1, <2>2, <3>1, CreateAgrees
  <2>5. ASSUME tool.op = "update" PROVE ValidateUpdate(Unconditional(Definition[v]), Rules, request)
    <3>1. tool = UpdateTool(Definition[v], Schema, t)
      BY <2>2, <2>5, ToolsOfATable
    <3>. QED BY <2>1, <2>2, <3>1, UpdateAgrees
  <2>. QED BY <2>3, <2>4, <2>5 DEF request
<1>2. IInv => OfferedArgumentsPass
  BY <1>1 DEF IInv, TypeOK, OfferedArgumentsPass, Agreement
<1>. QED BY <1>2, Invariance, PTL

\* What the tools that change rows are annotated with.
LEMMA Annotations ==
    ASSUME NEW role, NEW t
    PROVE  /\ CreateTool(role, Schema, t).requires_approval <=> TableRequiresApproval(role, t)
           /\ UpdateTool(role, Schema, t).requires_approval <=> TableRequiresApproval(role, t)
           /\ CreateTool(role, Schema, t).approval_fields = GetApprovalColumns(role, t)
           /\ UpdateTool(role, Schema, t).approval_fields = GetApprovalColumns(role, t)
<1>1. CreateTool(role, Schema, t).requires_approval <=> TableRequiresApproval(role, t)
  BY DEF CreateTool
<1>2. UpdateTool(role, Schema, t).requires_approval <=> TableRequiresApproval(role, t)
  BY DEF UpdateTool
<1>3. CreateTool(role, Schema, t).approval_fields = GetApprovalColumns(role, t)
  BY DEF CreateTool
<1>4. UpdateTool(role, Schema, t).approval_fields = GetApprovalColumns(role, t)
  BY DEF UpdateTool
<1>. QED BY <1>1, <1>2, <1>3, <1>4

\* A call that waits for approval is one of a tool that was announced to need
\* it, and so are its columns (requires_approval, the annotations of a tool).
THEOREM ApprovalIsAnnounced == Spec => []AnnotationsTell
<1>1. ASSUME NEW v \in Versions PROVE AnnouncesApproval(v)
  <2>. SUFFICES ASSUME NEW tool \in RoleTools[v], NamesItsTable(tool, Definition[v]),
                       NEW args \in Arguments[tool.op],
                       NEW fields \in RequiresApproval(Definition[v], RequestOf(tool, args, ""))
                PROVE  tool.requires_approval /\ fields \subseteq tool.approval_fields
    BY Zenon DEF AnnouncesApproval
  <2>. DEFINE request == RequestOf(tool, args, "")
              t == ParseToolOperation(tool)
              role == Definition[v]
  <2>1. request.op = tool.op /\ request.table = t
    BY DEF RequestOf, Request, CallOf
  <2>2. t \in DOMAIN role /\ tool \in GenerateTableTools(role, Schema, t)
    BY DEF NamesItsTable
  <2>. HIDE DEF request, t
  <2>3. CASE tool.op \in {"create", "update"}
    <3>1. fields # {} /\ \E columns \in {role[t].creatable, role[t].updatable} :
                            \E keys : fields = ApprovalFields(columns, keys)
      BY <2>1, <2>3 DEF RequiresApproval, request
    <3>2. fields \subseteq ApprovalColumns(role[t].creatable) \cup ApprovalColumns(role[t].updatable)
      BY <3>1 DEF ApprovalFields, ApprovalColumns, IsRequired, IsSome
    <3>3. fields \subseteq GetApprovalColumns(role, t)
      BY <2>2, <3>2 DEF GetApprovalColumns
    <3>4. TableRequiresApproval(role, t)
      BY <2>2, <3>1, <3>3 DEF TableRequiresApproval
    <3>5. tool = CreateTool(role, Schema, t) \/ tool = UpdateTool(role, Schema, t)
      BY <2>2, <2>3, ToolsOfATable
    <3>. QED BY <3>3, <3>4, <3>5, Annotations, Zenon
  <2>4. CASE tool.op = "delete"
    <3>1. fields = {}
      BY <2>1, <2>4 DEF RequiresApproval, request
    <3>2. tool = DeleteTool(role, Schema, t)
      BY <2>2, <2>4, ToolsOfATable
    <3>. QED BY <3>1, <3>2 DEF DeleteTool
  <2>5. CASE tool.op \notin {"create", "update", "delete"}
    BY <2>1, <2>5 DEF RequiresApproval, request
  <2>. QED BY <2>3, <2>4, <2>5
<1>2. IInv => AnnotationsTell
  BY <1>1 DEF IInv, TypeOK, AnnotationsTell, Announcement
<1>. QED BY <1>2, Invariance, PTL

-----------------------------------------------------------------------------
(* What a create refers to                                                 *)

\* What a check query established of the rows that it found: the value is no NULL,
\* and the rows belong to the tenant of the call and verify.
ReferenceChecked(call, c) ==
    LET role == Definition[call.role]
        fk == Schema[call.table].foreign_keys[c]
    IN /\ Completed(role, Rules, call)[c] # Null
       /\ \A parent \in call.found[c] :
             /\ OfTenant(Rules, fk.table, call.tenant, parent)
             /\ \A w \in role[call.table].creatable.map[c].verify_with :
                   LET k == ExecutorVerifyKey(fk.table, w)
                   IN k \in DOMAIN call.args => parent[w] = call.args[k]

\* The database may have changed since; what was found then has not.
ReferencesWereChecked ==
    \A s \in Slots : calls[s] # Idle => \A c \in DOMAIN calls[s].found : ReferenceChecked(calls[s], c)

\* What is known of a column that the executor looks up.
LEMMA CheckedColumn ==
    ASSUME ForeignKeysLeadToKeys, NEW role, NEW call, call.table \in DOMAIN Schema,
           NEW c \in CheckedFks(role, Rules, Schema, call)
    PROVE  LET fk == Schema[call.table].foreign_keys[c]
           IN /\ call.table \in DOMAIN role /\ c \in DOMAIN role[call.table].creatable.map
              /\ c \notin TenantColumn(Rules, call.table)
              /\ c \in DOMAIN Completed(role, Rules, call)
              /\ c \in DOMAIN Schema[call.table].foreign_keys
              /\ GetFkReferencedTable(Schema, call.table, c) = {fk.table}
              /\ The(GetFkReferencedTable(Schema, call.table, c)) = fk.table
              /\ fk.table \in DOMAIN Schema
              /\ GetPrimaryKeyColumns(Schema, fk.table)[1] = fk.column
              /\ KeySet(Schema, fk.table) = {fk.column}
<1>. DEFINE t == call.table
            fk == Schema[t].foreign_keys[c]
<1>1. /\ c \in Constrained(role, Rules, t) /\ c \in DOMAIN Completed(role, Rules, call)
      /\ GetFkReferencedTable(Schema, t, c) # {}
  BY DEF CheckedFks, IsSome
<1>2. /\ t \in DOMAIN role /\ c \in DOMAIN role[t].creatable.map
      /\ c \notin TenantColumn(Rules, t)
  BY <1>1 DEF Constrained
<1>3. c \in DOMAIN Schema[t].foreign_keys /\ GetFkReferencedTable(Schema, t, c) = {fk.table}
  BY <1>1 DEF GetFkReferencedTable
<1>4. The(GetFkReferencedTable(Schema, t, c)) = fk.table
  BY <1>3 DEF The
<1>5. fk.table \in DOMAIN Schema /\ GetPrimaryKeyColumns(Schema, fk.table) = <<fk.column>>
  BY <1>3 DEF ForeignKeysLeadToKeys
<1>6. /\ GetPrimaryKeyColumns(Schema, fk.table)[1] = fk.column
      /\ KeySet(Schema, fk.table) = {fk.column}
  BY <1>5 DEF KeySet
<1>. QED BY <1>1, <1>2, <1>3, <1>4, <1>5, <1>6

\* A check query that finds a row finds that row only, and it is the tenant's.
LEMMA FoundVerifies ==
    ASSUME ForeignKeysLeadToKeys, WellStored(database), NEW call, call.table \in DOMAIN Schema,
           NEW c \in CheckedFks(Definition[call.role], Rules, Schema, call),
           FkHolds(Definition[call.role], Rules, Schema, database, call, c)
    PROVE  LET fk == Schema[call.table].foreign_keys[c]
           IN /\ Completed(Definition[call.role], Rules, call)[c] # Null
              /\ \A parent \in Referenced(call, c) :
                    /\ OfTenant(Rules, fk.table, call.tenant, parent)
                    /\ \A w \in Definition[call.role][call.table].creatable.map[c].verify_with :
                          LET k == ExecutorVerifyKey(fk.table, w)
                          IN k \in DOMAIN call.args => parent[w] = call.args[k]
<1>. DEFINE t == call.table
            role == Definition[call.role]
            values == Completed(role, Rules, call)
            given == Extend(values, call.args)
            fk == Schema[t].foreign_keys[c]
<1>1. /\ t \in DOMAIN role /\ c \in DOMAIN role[t].creatable.map
      /\ c \notin TenantColumn(Rules, t) /\ c \in DOMAIN values
      /\ The(GetFkReferencedTable(Schema, t, c)) = fk.table /\ fk.table \in DOMAIN Schema
      /\ GetPrimaryKeyColumns(Schema, fk.table)[1] = fk.column
      /\ KeySet(Schema, fk.table) = {fk.column}
  BY CheckedColumn
<1>2. /\ \A k \in DOMAIN call.args : k \in DOMAIN given /\ given[k] = call.args[k]
      /\ c \notin DOMAIN call.args => given[c] = values[c]
  <2>. HIDE DEF values
  <2>. QED BY <1>1 DEF Extend
<1>3. c \in DOMAIN call.args => values[c] = call.args[c]
  BY <1>1 DEF Completed
<1>. HIDE DEF values, given
<1>4. given[c] = values[c]
  BY <1>2, <1>3
<1>5. PICK one \in database[fk.table] :
        /\ SqlEquals(one[fk.column], given[c])
        /\ OfTenant(Rules, fk.table, call.tenant, one)
        /\ \A w \in role[t].creatable.map[c].verify_with :
              LET k == ExecutorVerifyKey(fk.table, w)
              IN k \in DOMAIN given => SqlEquals(one[w], given[k])
  BY <1>1 DEF FkHolds, values, given
<1>6. values[c] # Null /\ one[fk.column] = values[c]
  BY <1>4, <1>5 DEF SqlEquals
<1>7. \A parent \in Referenced(call, c) : parent = one
  <2>1. Referenced(call, c) = {parent \in database[fk.table] : parent[fk.column] = values[c]}
    BY <1>1 DEF Referenced, values
  <2>2. KeysAreUnique(Schema, fk.table, database[fk.table])
    BY <1>1 DEF WellStored
  <2>. QED BY <1>1, <1>5, <1>6, <2>1, <2>2 DEF KeysAreUnique
<1>8. ASSUME NEW w \in role[t].creatable.map[c].verify_with,
             ExecutorVerifyKey(fk.table, w) \in DOMAIN call.args
      PROVE  one[w] = call.args[ExecutorVerifyKey(fk.table, w)]
  BY <1>2, <1>5, <1>8 DEF SqlEquals
<1>. QED BY <1>5, <1>6, <1>7, <1>8 DEF values

\* Steps that query nothing leave what was checked.
LEMMA ReferencesStay ==
    ASSUME ReferencesWereChecked,
           \A s \in Slots : calls'[s] = calls[s] \/ calls'[s] = Idle \/ DOMAIN calls'[s].found = {}
    PROVE  ReferencesWereChecked'
<1>. SUFFICES ASSUME NEW s \in Slots, calls'[s] # Idle, NEW c \in DOMAIN calls'[s].found
              PROVE  ReferenceChecked(calls'[s], c)
  BY DEF ReferencesWereChecked, ReferenceChecked
<1>1. calls'[s] = calls[s]
  OBVIOUS
<1>. QED BY <1>1 DEF ReferencesWereChecked

\* A check query adds what it established to what was known.
LEMMA CheckChecks ==
    ASSUME ForeignKeysLeadToKeys, IInv, ReferencesWereChecked, NEW s \in Slots, CheckReference(s)
    PROVE  ReferencesWereChecked'
<1>1. /\ calls[s].phase = "run"
      /\ \A r \in Slots \ {s} : calls'[r] = calls[r]
      /\ \/ calls'[s] = Idle
         \/ \A field \in CallFields \ {"found"} : calls'[s][field] = calls[s][field]
  BY CheckChanges
<1>2. /\ calls[s] # Idle /\ calls[s].table \in DOMAIN Schema
      /\ WellStored(database) /\ DOMAIN calls = Slots /\ DOMAIN calls[s] = CallFields
  BY <1>1, Running DEF IInv, TypeOK, CallsAreRecords
<1>3. CASE calls'[s] = Idle
  <2>1. \A r \in Slots : calls'[r] = calls[r] \/ calls'[r] = Idle
    BY <1>1, <1>3
  <2>. QED BY <2>1, ReferencesStay
<1>4. CASE calls'[s] # Idle
  <2>1. PICK c \in Unchecked(calls[s]) :
          calls' = [calls EXCEPT ![s] =
              IF FkHolds(Definition[calls[s].role], Rules, Schema, database, calls[s], c)
              THEN [calls[s] EXCEPT !.found =
                        [d \in DOMAIN calls[s].found \cup {c} |->
                            IF d = c THEN Referenced(calls[s], c) ELSE calls[s].found[d]]]
              ELSE Idle]
    BY Zenon DEF CheckReference
  <2>2. PICK found : found = [d \in DOMAIN calls[s].found \cup {c} |->
                                IF d = c THEN Referenced(calls[s], c) ELSE calls[s].found[d]]
    OBVIOUS
  <2>3. /\ FkHolds(Definition[calls[s].role], Rules, Schema, database, calls[s], c)
        /\ calls'[s] = [calls[s] EXCEPT !.found = found]
    BY <1>2, <1>4, <2>1, <2>2
  <2>4. calls'[s].found = found
    BY <1>2, <2>3 DEF CallFields
  <2>5. /\ calls'[s].table = calls[s].table /\ calls'[s].args = calls[s].args
        /\ calls'[s].tenant = calls[s].tenant /\ calls'[s].role = calls[s].role
    BY <1>1, <1>4 DEF CallFields
  <2>6. c \in CheckedFks(Definition[calls[s].role], Rules, Schema, calls[s])
    BY DEF Unchecked
  <2>7. PICK call : call = calls[s]
    OBVIOUS
  <2>8. PICK fk : fk = Schema[call.table].foreign_keys
    OBVIOUS
  <2>9. /\ Completed(Definition[call.role], Rules, call)[c] # Null
        /\ \A parent \in Referenced(call, c) :
              /\ OfTenant(Rules, fk[c].table, call.tenant, parent)
              /\ \A w \in Definition[call.role][call.table].creatable.map[c].verify_with :
                    LET k == ExecutorVerifyKey(fk[c].table, w)
                    IN k \in DOMAIN call.args => parent[w] = call.args[k]
    BY <1>2, <2>3, <2>6, <2>7, <2>8, FoundVerifies
  <2>10. ASSUME NEW d \in DOMAIN found
         PROVE  /\ Completed(Definition[call.role], Rules, call)[d] # Null
                /\ \A parent \in found[d] :
                      /\ OfTenant(Rules, fk[d].table, call.tenant, parent)
                      /\ \A w \in Definition[call.role][call.table].creatable.map[d].verify_with :
                            LET k == ExecutorVerifyKey(fk[d].table, w)
                            IN k \in DOMAIN call.args => parent[w] = call.args[k]
    <3>1. CASE d = c
      <4>1. found[d] = Referenced(call, c)
        BY <2>2, <2>7, <2>10, <3>1
      <4>. QED BY <2>9, <3>1, <4>1
    <3>2. CASE d # c
      <4>1. d \in DOMAIN call.found /\ found[d] = call.found[d]
        BY <2>2, <2>7, <2>10, <3>2
      <4>2. ReferenceChecked(call, d)
        BY <1>2, <2>7, <4>1 DEF ReferencesWereChecked
      <4>. QED BY <2>8, <4>1, <4>2 DEF ReferenceChecked
    <3>. QED BY <3>1, <3>2
  <2>11. ASSUME NEW u \in Slots, calls'[u] # Idle, NEW d \in DOMAIN calls'[u].found
         PROVE  ReferenceChecked(calls'[u], d)
    <3>1. CASE u = s
      <4>1. Completed(Definition[calls'[s].role], Rules, calls'[s])
              = Completed(Definition[call.role], Rules, call)
        BY <2>5, <2>7 DEF Completed
      <4>2. d \in DOMAIN found
        BY <2>4, <2>11, <3>1
      <4>3. PICK new : new = calls'[s]
        OBVIOUS
      <4>4. /\ new.found = found /\ new.table = call.table /\ new.args = call.args
            /\ new.tenant = call.tenant /\ new.role = call.role
            /\ Completed(Definition[new.role], Rules, new) = Completed(Definition[call.role], Rules, call)
        BY <2>4, <2>5, <2>7, <4>1, <4>3
      <4>5. ReferenceChecked(new, d)
        BY <2>8, <2>10, <4>2, <4>4 DEF ReferenceChecked
      <4>. QED BY <3>1, <4>3, <4>5
    <3>2. CASE u # s
      <4>1. calls'[u] = calls[u]
        BY <1>1, <3>2
      <4>. QED BY <2>11, <4>1 DEF ReferencesWereChecked
    <3>. QED BY <3>1, <3>2
  <2>. QED BY <2>11 DEF ReferencesWereChecked, ReferenceChecked
<1>. QED BY <1>3, <1>4

\* What the check queries established of the rows they found stays known to the end
\* of the call, wherever foreign keys lead to keys (the loop of execute_create).
THEOREM ReferencesAreChecked ==
    ASSUME ForeignKeysLeadToKeys
    PROVE  Spec => []ReferencesWereChecked
<1>1. Init => ReferencesWereChecked
  BY DEF Init, ReferencesWereChecked
<1>2. IInv /\ ReferencesWereChecked /\ [Next]_vars => ReferencesWereChecked'
  <2>. SUFFICES ASSUME IInv, ReferencesWereChecked, [Next]_vars PROVE ReferencesWereChecked'
    OBVIOUS
  <2>0. DOMAIN calls = Slots
    BY DEF IInv, TypeOK
  <2>1. ASSUME NEW s \in Slots, Call(s) PROVE ReferencesWereChecked'
    <3>1. PICK new : calls' = [calls EXCEPT ![s] = new] /\ new.found = NoKeys
      <4>1. PICK o \in Permitted :
              LET call == CallOf(o.tool, o.args, o.tenant)
              IN \E row \in Fetched(call) :
                    calls' = [calls EXCEPT ![s] =
                       [phase |-> IF RequiresApproval(Definition[served], Request(call, row)) = {}
                                  THEN "run" ELSE "request",
                        op |-> call.op, table |-> call.table, args |-> call.args,
                        tenant |-> call.tenant, row |-> row, role |-> served,
                        approved |-> FALSE, found |-> NoKeys]]
        BY <2>1, Zenon DEF Call
      <4>. DEFINE call == CallOf(o.tool, o.args, o.tenant)
      <4>2. PICK row :
              calls' = [calls EXCEPT ![s] =
                 [phase |-> IF RequiresApproval(Definition[served], Request(call, row)) = {}
                            THEN "run" ELSE "request",
                  op |-> call.op, table |-> call.table, args |-> call.args,
                  tenant |-> call.tenant, row |-> row, role |-> served,
                  approved |-> FALSE, found |-> NoKeys]]
        BY <4>1
      <4>. DEFINE new == [phase |-> IF RequiresApproval(Definition[served], Request(call, row)) = {}
                                    THEN "run" ELSE "request",
                          op |-> call.op, table |-> call.table, args |-> call.args,
                          tenant |-> call.tenant, row |-> row, role |-> served,
                          approved |-> FALSE, found |-> NoKeys]
      <4>3. new.found = NoKeys
        OBVIOUS
      <4>4. calls' = [calls EXCEPT ![s] = new]
        BY <4>2
      <4>. HIDE DEF new
      <4>. QED BY <4>3, <4>4
    <3>2. \A r \in Slots : calls'[r] = calls[r] \/ DOMAIN calls'[r].found = {}
      BY <2>0, <3>1 DEF NoKeys
    <3>. QED BY <3>2, ReferencesStay
  <2>2. ASSUME NEW s \in Slots, AskForApproval(s) \/ Read(s) \/ Mutate(s) PROVE ReferencesWereChecked'
    <3>1. calls' = [calls EXCEPT ![s] = Idle]
      <4>1. AskForApproval(s) => calls' = [calls EXCEPT ![s] = Idle]
        BY Zenon DEF AskForApproval
      <4>. QED BY <2>2, <4>1 DEF Read, Mutate
    <3>2. \A r \in Slots : calls'[r] = calls[r] \/ calls'[r] = Idle
      BY <2>0, <3>1
    <3>. QED BY <3>2, ReferencesStay
  <2>3. ASSUME NEW s \in Slots, CheckReference(s) PROVE ReferencesWereChecked'
    BY <2>3, CheckChecks
  <2>4. ASSUME NEW s \in Slots, NEW request \in pending, Approve(s, request) PROVE ReferencesWereChecked'
    <3>. DEFINE new == [phase |-> "run", op |-> request.op, table |-> request.table,
                        args |-> request.args, tenant |-> request.tenant, row |-> {},
                        role |-> saved, approved |-> TRUE, found |-> NoKeys]
    <3>1. calls' = [calls EXCEPT ![s] = new]
      BY <2>4 DEF Approve
    <3>2. DOMAIN new.found = {}
      BY DEF NoKeys
    <3>. HIDE DEF new
    <3>3. \A r \in Slots : calls'[r] = calls[r] \/ DOMAIN calls'[r].found = {}
      BY <2>0, <3>1, <3>2
    <3>. QED BY <3>3, ReferencesStay
  <2>5. ASSUME NEW request \in pending, Discard(request) PROVE ReferencesWereChecked'
    BY <2>5, ReferencesStay DEF Discard
  <2>6. CASE EditRole
    BY <2>6, ReferencesStay DEF EditRole
  <2>7. CASE Restart
    BY <2>7, ReferencesStay DEF Restart
  <2>8. CASE UNCHANGED vars
    BY <2>8, ReferencesStay DEF vars
  <2>. QED BY <2>1, <2>2, <2>3, <2>4, <2>5, <2>6, <2>7, <2>8 DEF Next
<1>. QED BY <1>1, <1>2, Invariance, PTL DEF Spec

\* The rows that a call added to its table refer, in column c, to rows that are there.
AddedRefer(before, after, call, c) ==
    LET fk == Schema[call.table].foreign_keys[c]
    IN \A row \in after[call.table] \ before[call.table] :
          \E parent \in after[fk.table] : parent[fk.column] = row[c]

\* The INSERT takes over the value that was looked up, and the database sees to it
\* that it refers to a row.
LEMMA CreatedRefers ==
    ASSUME ForeignKeysLeadToKeys, NEW v \in Versions, NEW db, NEW call, NEW serial,
           WellStored(db), call.table \in DOMAIN Schema,
           NEW c \in CheckedFks(Definition[v], Rules, Schema, call),
           Completed(Definition[v], Rules, call)[c] # Null
    PROVE  AddedRefer(db, ExecuteInsert(Definition[v], Rules, Schema, db, call, serial), call, c)
<1>. DEFINE t == call.table
            role == Definition[v]
            values == Completed(role, Rules, call)
            inserted == Inserted(role, Rules, Schema, call)
            added == NewRow(Schema, t, inserted, serial)
            rows == db[t] \cup {added}
            after == ExecuteInsert(role, Rules, Schema, db, call, serial)
            fk == Schema[t].foreign_keys[c]
<1>. SUFFICES ASSUME NEW row \in after[t] \ db[t]
              PROVE  \E parent \in after[fk.table] : parent[fk.column] = row[c]
  BY DEF AddedRefer
<1>1. after # db
  OBVIOUS
<1>2. /\ DOMAIN inserted \subseteq DOMAIN Schema[t].columns
      /\ Accepts(Schema, db, t, rows)
      /\ after = [db EXCEPT ![t] = rows]
  BY <1>1 DEF ExecuteInsert
<1>3. /\ t \in DOMAIN role /\ c \in DOMAIN role[t].creatable.map
      /\ c \notin TenantColumn(Rules, t) /\ c \in DOMAIN values
      /\ c \in DOMAIN Schema[t].foreign_keys /\ GetFkReferencedTable(Schema, t, c) = {fk.table}
  BY CheckedColumn
<1>4. c \notin UsedVerifyKeys(role, Rules, Schema, call)
  <2>1. SUFFICES ASSUME c \in UsedVerifyKeys(role, Rules, Schema, call) PROVE FALSE
    OBVIOUS
  <2>2. PICK d \in CheckedFks(role, Rules, Schema, call) : \E w \in role[t].creatable.map[d].verify_with :
            c = ExecutorVerifyKey(The(GetFkReferencedTable(Schema, t, d)), w)
    BY <2>1 DEF UsedVerifyKeys
  <2>3. d \in DOMAIN role[t].creatable.map /\ GetFkReferencedTable(Schema, t, d) # {}
    BY <1>3 DEF CheckedFks, Constrained, IsSome
  <2>4. The(GetFkReferencedTable(Schema, t, d)) \in GetFkReferencedTable(Schema, t, d)
    BY <2>3 DEF The
  <2>. QED BY <1>3, <2>2, <2>3, <2>4 DEF ForeignKeysLeadToKeys
<1>5. c \in DOMAIN inserted /\ inserted[c] = values[c]
  BY <1>3, <1>4 DEF Inserted
<1>6. added[c] = values[c]
  <2>. HIDE DEF inserted, values
  <2>. QED BY <1>2, <1>5 DEF NewRow
<1>. HIDE DEF added, values, after
<1>7. DOMAIN db = DOMAIN Schema
  BY DEF WellStored
<1>8. after[t] = rows
  <2>. HIDE DEF rows
  <2>. QED BY <1>2, <1>7
<1>9. row = added
  BY <1>8
<1>10. ReferencesHold(Schema, after)
  <2>. HIDE DEF rows
  <2>. QED BY <1>2 DEF Accepts
<1>11. row[c] = Null \/ \E parent \in after[fk.table] : parent[fk.column] = row[c]
  BY <1>3, <1>10 DEF ReferencesHold
<1>12. values[c] # Null
  BY DEF values
<1>. QED BY <1>6, <1>9, <1>11, <1>12

\* A row that a create leaves refers to rows that exist; those that nobody changed
\* since their check query belong to the tenant of the call and verify, wherever
\* foreign keys lead to keys (execute_create).
THEOREM CreatesReferToOwnRows ==
    ASSUME ForeignKeysLeadToKeys
    PROVE  Spec => CreatedReferencesStay
<1>. DEFINE Refers(s) == Changes(s) /\ calls[s].op = "create" =>
          LET call == calls[s]
              t == call.table
              role == Definition[call.role]
          IN \A row \in New(t), c \in CheckedFks(role, Rules, Schema, call) :
                LET fk == Schema[t].foreign_keys[c]
                IN \E parent \in database'[fk.table] :
                      /\ parent[fk.column] = row[c]
                      /\ parent \in call.found[c] =>
                            /\ fk.table \in HoldTheirTenant =>
                                   OfTenant(Rules, fk.table, call.tenant, parent)
                            /\ \A v \in role[t].creatable.map[c].verify_with :
                                  LET k == ExecutorVerifyKey(fk.table, v)
                                  IN k \in DOMAIN call.args => parent[v] = call.args[k]
<1>1. ASSUME IInv, ReferencesWereChecked, [Next]_vars, NEW s \in Slots PROVE Refers(s)
  <2>. SUFFICES ASSUME Changes(s), calls[s].op = "create" PROVE Refers(s)
    OBVIOUS
  <2>1. Mutate(s) /\ database' # database
    BY <1>1, ChangedByMutate DEF Changes
  <2>2. /\ calls[s] # Idle /\ calls[s].table \in DOMAIN Schema /\ calls[s].role \in Versions
        /\ WellStored(database)
    BY <1>1, <2>1, Running DEF Mutate, IInv, TypeOK
  <2>3. /\ CreateAllowed(Definition[calls[s].role], Rules, calls[s]) /\ Unchecked(calls[s]) = {}
        /\ database' = ExecuteInsert(Definition[calls[s].role], Rules, Schema, database, calls[s], sequence)
    BY <2>1, MutateChanges, <1>1
  <2>4. PICK call : call = calls[s]
    OBVIOUS
  <2>5. PICK v \in Versions : v = calls[s].role
    BY <2>2
  <2>6. call.table \in DOMAIN Schema
    BY <2>2, <2>4
  <2>7. database' = ExecuteInsert(Definition[v], Rules, Schema, database, call, sequence)
    BY <2>3, <2>4, <2>5
  <2>8. ASSUME NEW c \in CheckedFks(Definition[v], Rules, Schema, call)
        PROVE  ReferenceChecked(call, c)
    <3>1. c \in DOMAIN call.found
      BY <2>3, <2>4, <2>5, <2>8 DEF Unchecked
    <3>. QED BY <1>1, <2>2, <2>4, <3>1 DEF ReferencesWereChecked
  <2>9. ASSUME NEW c \in CheckedFks(Definition[v], Rules, Schema, call)
        PROVE  AddedRefer(database, database', call, c)
    <3>1. WellStored(database)
      BY <2>2
    <3>2. Completed(Definition[v], Rules, call)[c] # Null
      BY <2>4, <2>5, <2>8, <2>9 DEF ReferenceChecked
    <3>3. AddedRefer(database, ExecuteInsert(Definition[v], Rules, Schema, database, call, sequence), call, c)
      BY ONLY ForeignKeysLeadToKeys, v \in Versions, <3>1, <3>2, <2>6, <2>9, CreatedRefers
    <3>. QED BY <3>3, <2>7
  <2>10. ASSUME NEW c \in CheckedFks(Definition[v], Rules, Schema, call), NEW row \in New(call.table)
         PROVE  LET fk == Schema[call.table].foreign_keys[c]
                IN \E parent \in database'[fk.table] :
                      /\ parent[fk.column] = row[c]
                      /\ parent \in call.found[c] =>
                            /\ OfTenant(Rules, fk.table, call.tenant, parent)
                            /\ \A w \in Definition[v][call.table].creatable.map[c].verify_with :
                                  LET k == ExecutorVerifyKey(fk.table, w)
                                  IN k \in DOMAIN call.args => parent[w] = call.args[k]
    <3>. DEFINE fk == Schema[call.table].foreign_keys[c]
    <3>1. PICK parent \in database'[fk.table] : parent[fk.column] = row[c]
      BY <2>9, <2>10 DEF New, AddedRefer
    <3>2. ReferenceChecked(call, c)
      BY <2>8, <2>10
    <3>3. parent \in call.found[c] =>
            /\ OfTenant(Rules, fk.table, call.tenant, parent)
            /\ \A w \in Definition[v][call.table].creatable.map[c].verify_with :
                  LET k == ExecutorVerifyKey(fk.table, w)
                  IN k \in DOMAIN call.args => parent[w] = call.args[k]
      BY <3>2, <2>4, <2>5 DEF ReferenceChecked
    <3>. QED BY <3>1, <3>3
  <2>11. ASSUME NEW row \in New(calls[s].table),
                NEW c \in CheckedFks(Definition[calls[s].role], Rules, Schema, calls[s])
         PROVE  LET fk == Schema[calls[s].table].foreign_keys[c]
                IN \E parent \in database'[fk.table] :
                      /\ parent[fk.column] = row[c]
                      /\ parent \in calls[s].found[c] =>
                            /\ fk.table \in HoldTheirTenant =>
                                   OfTenant(Rules, fk.table, calls[s].tenant, parent)
                            /\ \A w \in Definition[calls[s].role][calls[s].table].creatable.map[c].verify_with :
                                  LET k == ExecutorVerifyKey(fk.table, w)
                                  IN k \in DOMAIN calls[s].args => parent[w] = calls[s].args[k]
    <3>. DEFINE fk == Schema[call.table].foreign_keys[c]
    <3>1. c \in CheckedFks(Definition[v], Rules, Schema, call) /\ row \in New(call.table)
      BY <2>4, <2>5, <2>11
    <3>2. PICK parent \in database'[fk.table] :
             /\ parent[fk.column] = row[c]
             /\ parent \in call.found[c] =>
                   /\ OfTenant(Rules, fk.table, call.tenant, parent)
                   /\ \A w \in Definition[v][call.table].creatable.map[c].verify_with :
                         LET k == ExecutorVerifyKey(fk.table, w)
                         IN k \in DOMAIN call.args => parent[w] = call.args[k]
      BY <2>10, <3>1
    <3>3. parent \in calls[s].found[c] =>
             /\ OfTenant(Rules, Schema[calls[s].table].foreign_keys[c].table, calls[s].tenant, parent)
             /\ \A w \in Definition[calls[s].role][calls[s].table].creatable.map[c].verify_with :
                   LET k == ExecutorVerifyKey(Schema[calls[s].table].foreign_keys[c].table, w)
                   IN k \in DOMAIN calls[s].args => parent[w] = calls[s].args[k]
      BY <2>4, <2>5, <3>2
    <3>4. /\ parent \in database'[Schema[calls[s].table].foreign_keys[c].table]
          /\ parent[Schema[calls[s].table].foreign_keys[c].column] = row[c]
      BY <2>4, <3>2
    <3>. QED BY <3>3, <3>4
  <2>. QED BY <2>11
<1>2. IInv /\ ReferencesWereChecked /\ [Next]_vars => [\A s \in Slots : Refers(s)]_vars
  BY <1>1
<1>. QED BY <1>2, Invariance, ReferencesAreChecked, PTL DEF Spec, CreatedReferencesStay

-----------------------------------------------------------------------------
(* What an update was judged by                                            *)

\* A condition set that held of what was asked and of the row as it was read holds
\* of the row before the update and the row after it.
LEMMA ConditionsCarryOver ==
    ASSUME ConditionsBind, NEW v \in Versions, NEW t \in DOMAIN Definition[v],
           NEW call, call.table = t, call.args \in Arguments["update"],
           NEW old, DOMAIN old = DOMAIN Schema[t].columns,
           ValidateUpdate(Definition[v], Rules, Request(call, {old})),
           NEW c \in DOMAIN Definition[v][t].updatable.map \cap DOMAIN call.args,
           NEW sets \in Definition[v][t].updatable.map[c].only_when
    PROVE  \E i \in DOMAIN sets : Permits(sets[i], old, Updated(Definition[v], call, old))
<1>. DEFINE role == Definition[v]
            args == call.args
            request == Request(call, {old})
            updatable == role[t].updatable
            new == Updated(role, call, old)
<1>1. /\ request.table = t /\ request.args = args /\ request.row = {old}
      /\ request.keys = KeySet(Schema, t)
  BY DEF Request
<1>. HIDE DEF request
<1>2. ASSUME NEW k \in DOMAIN args, IsJudged(v, t, k)
      PROVE  /\ MapContains(updatable, k) /\ k \in DOMAIN old \ KeySet(Schema, t)
             /\ k \in DOMAIN updatable.map =>
                   \A s \in updatable.map[k].only_when : OnlyWhenHolds(s, args, {old})
  BY <1>1, <1>2 DEF ValidateUpdate, IsJudged, request
<1>3. IsJudged(v, t, c)
  BY DEF ConditionsBind
<1>4. PICK i \in DOMAIN sets : ConditionSetHolds(sets[i], args, {old})
  BY <1>2, <1>3 DEF OnlyWhenHolds
<1>5. ASSUME NEW key \in DOMAIN sets[i]
      PROVE  CheckCondition((IF key[1] = "new" THEN new ELSE old)[key[2]], sets[i][key], {old})
  <2>1. PICK value \in Subject(key, args, {old}) : CheckCondition(value, sets[i][key], {old})
    BY <1>4 DEF ConditionSetHolds
  <2>2. CASE key[1] = "new"
    <3>. DEFINE k == key[2]
    <3>1. k \in DOMAIN args /\ value = args[k]
      BY <2>2 DEF Subject
    <3>2. IsJudged(v, t, k) /\ IsSetAsGiven(k)
      BY <2>2 DEF ConditionsBind
    <3>3. MapContains(updatable, k) /\ k \in DOMAIN old \ KeySet(Schema, t)
      BY <1>2, <3>1, <3>2
    <3>4. k \in SetColumns(role, Schema, call)
      BY <3>1, <3>2, <3>3 DEF SetColumns, Updatable, IsSetAsGiven
    <3>. HIDE DEF k
    <3>5. new[k] = args[k]
      BY <3>3, <3>4 DEF Updated
    <3>. QED BY <2>1, <2>2, <3>1, <3>5 DEF k
  <2>3. CASE key[1] # "new"
    <3>1. key[2] \in DOMAIN old
      BY <2>3 DEF ConditionsBind
    <3>2. value = old[key[2]]
      BY <2>3, <3>1 DEF Subject
    <3>. QED BY <2>1, <2>3, <3>2
  <2>. QED BY <2>2, <2>3
<1>. QED BY <1>5 DEF Permits

\* As long as nobody has changed the row since the call read it, a direct update
\* keeps to the conditions of the columns it changes, wherever these are about
\* columns that updates set as they are given (check_update, execute_update).
THEOREM ConditionsHold ==
    ASSUME ConditionsBind
    PROVE  Spec => ConditionsHeldWhenRead
<1>. DEFINE Held(s) == Changes(s) /\ calls[s].op = "update" /\ ~calls[s].approved =>
          LET t == calls[s].table
              map == Definition[calls[s].role][t].updatable.map
          IN \A old \in Gone(t) \cap calls[s].row, new \in New(t) :
                \A c \in DOMAIN map \cap DOMAIN calls[s].args :
                   \A sets \in map[c].only_when :
                      \E i \in DOMAIN sets : Permits(sets[i], old, new)
<1>1. ASSUME IInv, DirectCallsWereJudged, [Next]_vars, NEW s \in Slots PROVE Held(s)
  <2>. DEFINE t == calls[s].table
              v == calls[s].role
              map == Definition[v][t].updatable.map
  <2>. SUFFICES ASSUME Changes(s), calls[s].op = "update", ~calls[s].approved,
                       NEW old \in Gone(t) \cap calls[s].row, NEW new \in New(t),
                       NEW c \in DOMAIN map \cap DOMAIN calls[s].args,
                       NEW sets \in map[c].only_when
                PROVE  \E i \in DOMAIN sets : Permits(sets[i], old, new)
    OBVIOUS
  <2>1. Mutate(s) /\ database' # database
    BY <1>1, ChangedByMutate DEF Changes
  <2>2. /\ calls[s] # Idle /\ t \in DOMAIN Schema /\ v \in Versions
        /\ WellStored(database) /\ calls[s].args \in Arguments["update"]
    <3>1. calls[s] # Idle /\ t \in DOMAIN Schema /\ v \in Versions
      BY <1>1, <2>1, Running DEF Mutate
    <3>2. WellStored(database) /\ calls[s].args \in Arguments[calls[s].op]
      BY <1>1, <3>1 DEF IInv, TypeOK
    <3>. QED BY <3>1, <3>2
  <2>3. database' = ExecuteUpdate(Definition[v], Rules, Schema, database, calls[s])
    BY <2>1, MutateChanges, <1>1
  <2>4. PICK gone : Gone(t) = {gone} /\ New(t) = {Updated(Definition[v], calls[s], gone)}
    BY <2>1, <2>2, <2>3, UpdateChanges DEF Gone, New
  <2>5. gone = old /\ new = Updated(Definition[v], calls[s], old)
    BY <2>4
  <2>6. /\ Validate(Definition[v], Rules, Request(calls[s], calls[s].row))
        /\ calls[s].row = {old}
    BY <1>1, <2>2 DEF DirectCallsWereJudged
  <2>7. /\ ValidateUpdate(Definition[v], Rules, Request(calls[s], {old}))
        /\ t \in DOMAIN Definition[v]
    <3>1. Request(calls[s], {old}).op = "update" /\ Request(calls[s], {old}).table = t
      BY DEF Request
    <3>. QED BY <2>6, <3>1 DEF Validate, ValidateRole
  <2>8. DOMAIN old = DOMAIN Schema[t].columns
    BY <2>2 DEF Gone, WellStored
  <2>. HIDE DEF t, v
  <2>. QED BY <2>2, <2>5, <2>7, <2>8, ConditionsCarryOver DEF t
<1>2. IInv /\ DirectCallsWereJudged /\ [Next]_vars => [\A s \in Slots : Held(s)]_vars
  BY <1>1
<1>. QED BY <1>2, Invariance, CallsAreJudged, PTL DEF Spec, ConditionsHeldWhenRead

=============================================================================
