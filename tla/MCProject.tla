------------------------------- MODULE MCProject -------------------------------
(***************************************************************************)
(* Project on a small instance: a helpdesk of customers and their tickets, *)
(* its migrations, and the databases that init's guesses are hard on.      *)
(***************************************************************************)
EXTENDS Project, TLC

Num(n) == <<"int", n>>
Str(s) == <<"str", s>>
Column(type, nullable, default) == [type |-> type, nullable |-> nullable, default |-> default]
Key == Column("serial", FALSE, {"nextval"})
Text == Column("text", TRUE, {})
Needs == Column("text", FALSE, {})
Table(columns, keys, fks) == [columns |-> columns, primary_key |-> keys, foreign_keys |-> fks]

MCTables == {"accounts", "archive", "countries", "customers", "ledger", "tickets"}
MCSorted == <<"accounts", "archive", "countries", "customers", "ledger", "tickets">>
MCNameOf == [t \in MCTables |-> [root |-> t, end |-> "s"]]
MCTrimmed == [t \in MCTables |-> t]
MCBase == [customer_id |-> "customer"]
MCCandidates == <<"organization_id", "customer_id">>
MCTenantLike == {"org_ref"}
MCLooks == ("email" :> "email" @@ "status" :> "status" @@ "deleted_at" :> "deleted" @@ "ssn" :> "sensitive")
           @@ [c \in {"id", "organization_id", "customer_id", "org_ref", "priority", "subject",
                      "a", "b", "c", "d", "e"} |-> "plain"]
MCIdentifiers == {"admin_agent", "readonly_agent", "support_agent", "agent", "support_managers", "managers"}
MCTextOf == [v \in {Str(x) : x \in {"open", "in_progress", "resolved", "closed", "high", "low"}} \cup {Num(3)} |->
                IF v = Num(3) THEN Str("3") ELSE v]

-----------------------------------------------------------------------------
Customers == Table([id |-> Key, organization_id |-> Needs, email |-> Text], <<"id">>, NoKeys)
ToCustomers == [customer_id |-> [table |-> "customers", column |-> "id"]]
TicketColumns == [id |-> Key, organization_id |-> Needs, customer_id |-> Column("integer", TRUE, {}),
                  status |-> Column("text", FALSE, {Str("open")}), priority |-> Text]
Tickets == Table(TicketColumns, <<"id">>, ToCustomers)
Helpdesk == [customers |-> Customers, tickets |-> Tickets]

\* A migration adds a column which must be given, and drops a table.
Subjects == [tickets |-> Table(TicketColumns @@ "subject" :> Needs, <<"id">>, NoKeys)]

\* Tickets without a priority; tenancy guessed from the customer.
NoPriority ==
    [customers |-> Table([id |-> Key, email |-> Text], <<"id">>, NoKeys),
     tickets |-> Table([id |-> Key, customer_id |-> Column("integer", TRUE, {}),
                        status |-> Column("text", FALSE, {Str("open")})], <<"id">>, ToCustomers)]

\* Tables of six columns without a tenant: nothing in their names tells what they are.
Wide == [a |-> Text, b |-> Text, c |-> Text, d |-> Text, e |-> Text]
Unknown == Table(Wide @@ "id" :> Key, <<"id">>, NoKeys)
WithEmail == Table(Wide @@ "email" :> Text, <<>>, NoKeys)
WithDeleted == Table(Wide @@ "deleted_at" :> Text, <<>>, NoKeys)
Accounts == Table([id |-> Key, org_ref |-> Needs], <<"id">>, NoKeys)
Legacies ==
    {[customers |-> Customers, archive |-> WithEmail],          \* a rule before the first table
     [accounts |-> Accounts, archive |-> WithDeleted],          \* a rule under another table
     [accounts |-> Accounts, archive |-> Unknown, countries |-> Unknown],
     [archive |-> Unknown]}                                     \* no table outside the comments

MCDatabases == {NoKeys, Helpdesk, NoPriority} \cup Legacies
MCMigrated == [db \in MCDatabases \cup {Subjects} |->
                  CASE db = NoPriority -> {NoKeys}
                    [] db = Helpdesk -> {Subjects}
                    [] OTHER -> {}]

-----------------------------------------------------------------------------
Free == [required |-> FALSE, default |-> {}, restrict_to |-> {}, approval |-> {},
         fk |-> FALSE, verify_with |-> {}]
Plain == [only_when |-> {}, approval |-> {}, fk |-> FALSE, verify_with |-> {}]
By(group) == {[required |-> TRUE, group |-> {group}]}
ListOf(columns) == [NoRead EXCEPT !.columns = columns]
MapOf(map) == [all |-> FALSE, map |-> map]

\* An agent that files tickets for customers it can name, and escalates them.
Agent(group, verify) ==
    [customers |-> [TablePermissions EXCEPT !.readable = ListOf({"id", "email"})],
     tickets |->
        [readable |-> [ListOf({"id", "status"}) EXCEPT !.max = {10}],
         creatable |-> MapOf([customer_id |-> [Free EXCEPT !.required = TRUE, !.fk = TRUE, !.verify_with = verify],
                              priority |-> [Free EXCEPT !.restrict_to = {{Str("high"), Str("low")}},
                                                        !.approval = By(group)]]),
         updatable |-> MapOf([status |-> [Plain EXCEPT !.only_when = {Lifecycle}],
                              priority |-> [Plain EXCEPT !.approval = By(group),
                                !.only_when = {<<(<<"new", "priority">> :>
                                    {[op |-> "greater_than", bound |-> [ref |-> {}, number |-> 3]]})>>}]]),
         deletable |-> [NoDelete EXCEPT !.allowed = TRUE, !.approval = By(group)]]]

Doc(name, approvals, tables) == [name |-> name, approvals |-> approvals, tables |-> tables]
MCRoleDocs ==
    {Doc("agent", {}, {Agent("support_managers", {"email"})}),
     Doc("agent", {"managers"}, {Agent("support_managers", {"email"})}),    \* no such group
     Doc("agent", {}, {})}                                                  \* nothing under tables:

\* What the theorems about Project ask of its constants holds here.
ASSUME InstanceAssumption == CarefulDocs /\ KnownDatabases /\ KnownNames
=============================================================================
