------------------------------- MODULE MCGateway -------------------------------
(***************************************************************************)
(* Gateway on a small instance: customers and their tickets, of two        *)
(* tenants, comments that inherit the tenant of their ticket, tags that    *)
(* belong to everybody and have no key, and a table whose name has no      *)
(* plural that leads back to it.                                           *)
(***************************************************************************)
EXTENDS Gateway, TLC

Num(n) == <<"int", n>>
Str(s) == <<"str", s>>

MCTables == {"customers", "tickets", "comments", "tags", "status"}
MCNameOf == [customers |-> [root |-> "customer", end |-> "s"],
             tickets |-> [root |-> "ticket", end |-> "s"],
             comments |-> [root |-> "comment", end |-> "s"],
             tags |-> [root |-> "tag", end |-> "s"],
             status |-> [root |-> "stat", end |-> "us"]]
MCTrimmed == [customers |-> "customer", tickets |-> "ticket", comments |-> "comment",
              tags |-> "tag", status |-> "statu"]
MCBase == [customer_id |-> "customer", ticket_id |-> "ticket", id |-> "id", org |-> "org", email |-> "email",
           state |-> "state", note |-> "note", word |-> "word"]

MCPrefixPairs == {<<Str("a"), Str("a")>>, <<Str("ab"), Str("a")>>, <<Str("ab"), Str("ab")>>}
MCNumberIn(v) == IF v = Str("1") THEN Num(1) ELSE v

Column(type, nullable, default) == [type |-> type, nullable |-> nullable, default |-> default]
Key == Column("serial", FALSE, {Serial})
Text == Column("text", TRUE, {})

MCSchema ==
    [customers |-> [columns |-> [id |-> Key, org |-> Column("text", FALSE, {}), email |-> Text],
                    primary_key |-> <<"id">>, foreign_keys |-> NoKeys],
     tickets |-> [columns |-> [id |-> Key, org |-> Column("text", FALSE, {}),
                               customer_id |-> Column("integer", TRUE, {}),
                               state |-> Column("text", FALSE, {Str("open")}), note |-> Text],
                  primary_key |-> <<"id">>,
                  foreign_keys |-> [customer_id |-> [table |-> "customers", column |-> "id"]]],
     comments |-> [columns |-> [id |-> Key, ticket_id |-> Column("integer", FALSE, {})],
                   primary_key |-> <<"id">>,
                   foreign_keys |-> [ticket_id |-> [table |-> "tickets", column |-> "id"]]],
     tags |-> [columns |-> [word |-> Text], primary_key |-> <<>>, foreign_keys |-> NoKeys],
     status |-> [columns |-> [id |-> Key, word |-> Text], primary_key |-> <<"id">>,
                 foreign_keys |-> NoKeys]]

Direct == {[kind |-> "direct", column |-> "org"]}
OfTicket == {[kind |-> "inherited", via |-> "ticket_id", references |-> "tickets"]}
MCRules ==
    [customers |-> [TableRules EXCEPT !.tenant = Direct],
     tickets |-> [TableRules EXCEPT !.tenant = Direct,
                    !.columns = [note |-> [NoColumnRules EXCEPT !.pattern =
                        {[valid |-> TRUE, matches |-> {Str("a"), Str("ab")}]}]]],
     comments |-> [TableRules EXCEPT !.tenant = OfTicket],
     tags |-> [TableRules EXCEPT !.global = TRUE]]

MCFirstRows ==
    [customers |-> {[id |-> Num(1), org |-> Str("a"), email |-> Str("x")],
                    [id |-> Num(2), org |-> Str("b"), email |-> Str("y")]},
     tickets |-> {[id |-> Num(1), org |-> Str("a"), customer_id |-> Num(1),
                   state |-> Str("closed"), note |-> Str("a")]},
     comments |-> {}, tags |-> {}, status |-> {}]

No == {}
Needed == {[required |-> TRUE, group |-> {}]}
NotNeeded == {[required |-> FALSE, group |-> {}]}
Free == [required |-> FALSE, default |-> {}, restrict_to |-> {}, approval |-> No,
         fk |-> FALSE, verify_with |-> {}]
Plain == [only_when |-> {}, approval |-> No, fk |-> FALSE, verify_with |-> {}]
Columns(c) == [all |-> FALSE, columns |-> c, max |-> {}]
Map(m) == [all |-> FALSE, map |-> m]

Is(v) == {[op |-> "equals", value |-> v]}
OneOf(vs) == {[op |-> "in", values |-> vs]}

\* open -> closed, and back.
Steps == <<(<<"old", "state">> :> Is(Str("open")) @@ <<"new", "state">> :> OneOf({Str("closed")})),
           (<<"old", "state">> :> Is(Str("closed")) @@ <<"new", "state">> :> Is(Str("open")))>>
\* A note only grows, and only when the ticket is closed by the same update.
Appended == <<(<<"new", "note">> :> {[op |-> "starts_with", bound |-> [ref |-> {"note"}, text |-> ""]]}
               @@ <<"new", "state">> :> OneOf({Str("closed")}))>>

Noted == [Free EXCEPT !.default = {Str("a")}]
Reader == Columns({"id", "state"})
Agent ==
    [tickets |-> [readable |-> Reader,
        creatable |-> Map([customer_id |-> [Free EXCEPT !.required = TRUE, !.fk = TRUE,
                                                        !.verify_with = {"email"}],
                           state |-> [Free EXCEPT !.default = {Str("open")},
                                                  !.restrict_to = {{Str("open")}}],
                           note |-> Noted]),
        updatable |-> Map([state |-> [Plain EXCEPT !.only_when = {Steps}],
                           note |-> [Plain EXCEPT !.only_when = {Appended}],
                           customer_id |-> [Plain EXCEPT !.approval = Needed]]),
        deletable |-> [NoDelete EXCEPT !.allowed = TRUE]],
     status |-> [TablePermissions EXCEPT !.readable = [Columns({"id"}) EXCEPT !.all = TRUE]]]

\* New tickets wait for approval, and none are deleted.  A customer may move to
\* another tenant if somebody approves.
Guarded ==
    [customers |-> [TablePermissions EXCEPT
        !.readable = [Columns({"id", "org"}) EXCEPT !.max = {1}],
        !.updatable = Map([org |-> [Plain EXCEPT !.approval = Needed]])],
     tickets |-> [readable |-> Columns({}),
        creatable |-> Map([customer_id |-> [Free EXCEPT !.approval = Needed, !.fk = TRUE, !.verify_with = {"email"}],
                           note |-> Noted]),
        updatable |-> Map([state |-> [Plain EXCEPT !.approval = NotNeeded]]),
        deletable |-> NoDelete],
     comments |-> [TablePermissions EXCEPT !.readable.all = TRUE,
        !.creatable = Map([ticket_id |-> [Free EXCEPT !.fk = TRUE, !.verify_with = {"state"}]])],
     tags |-> [TablePermissions EXCEPT !.creatable = Map([word |-> Free])]]

MCDefinition == [agent |-> Agent, guarded |-> Guarded]

MCArguments ==
    [get |-> {[id |-> Num(2)]},
     delete |-> {[id |-> Num(1)]},
     list |-> {[org |-> Str("b")]},
     create |-> {[word |-> Num(1)],
                 [customer_id |-> Num(1), customer_email |-> Str("x"), org |-> Str("b")],
                 [ticket_id |-> Num(1), ticket_state |-> Str("closed")]},
     update |-> {[id |-> Num(1), state |-> Str("closed"), note |-> Str("ab")],
                 [id |-> Num(1), customer_id |-> Num(2), state |-> Str("open")],
                 [id |-> Num(1), org |-> Str("b")]}]

\* The instance is one that two of the theorems are about.
ASSUME InstanceAssumption == ForeignKeysLeadToKeys /\ ConditionsBind

\* What the next step depends on; what a call was answered with is not part of it.
ButForTheAnswer == <<database, sequence, saved, served, calls, pending>>

\* Sound: no liveness is checked.
SlotSymmetry == Permutations(Slots)
=============================================================================
