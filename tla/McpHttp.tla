------------------------------- MODULE McpHttp -------------------------------
(***************************************************************************)
(* JSON-RPC over HTTP: the handlers of POST /mcp                           *)
(* (cori-mcp/src/http_transport.rs), the bounded channel they share, and   *)
(* the one task behind it that handles a request at a time and sends the   *)
(* response over a channel of its own (McpServer::run_http and             *)
(* handle_request, cori-mcp/src/server.rs), started as run.rs starts it:   *)
(* with roles, without a default role and without a default tenant.        *)
(*                                                                         *)
(* A post is numbered in the order in which it asks for a place in the     *)
(* channel; the semaphore of tokio's channel grants places in that order.  *)
(* A handler may be dropped while it waits (the client disconnects): the   *)
(* request is withdrawn before it has a place and handled after.           *)
(*                                                                         *)
(* Abstracted: what a tool does (ApprovalWorkflow), the contents of        *)
(* responses other than whose they are.  A token stands for the tenant and *)
(* the role that it carries; one that is missing, invalid or without       *)
(* tenant is no token.  A request is a call of a tool that the roles       *)
(* served have, a notification, or an `initialized' that carries an id.    *)
(* Every other method is answered like a call of a tool that is not found; *)
(* what approvals/approve does besides belongs to ApprovalWorkflow.        *)
(***************************************************************************)
EXTENDS Naturals, Sequences

CONSTANTS
    Clients,        \* connections; a connection has one post under way
    Tokens,         \* attenuated tokens
    Served,         \* those whose role the server was started with
    Capacity,       \* places in the channel
    MaxPosts,       \* bound: posts that pass the verification
    None            \* nothing

Posts == 1 .. MaxPosts

\* A response says whose request it answers and under which token it was made.
Response == [of : Posts, under : Tokens \cup {None}]

ASSUME ConstantsAssumption ==
    /\ Served \subseteq Tokens
    /\ None \notin Tokens /\ None \notin Response
    /\ Capacity \in Nat \ {0}
    /\ MaxPosts \in Nat

Kinds == {"call", "notification", "initialized"}

\* What a client gets: a response, or the error of the transport with a null id.
Reply == [code : {200}, response : Response] \cup [code : {500}, response : {None}]

VARIABLES
    authRequired,   \* a public key is configured
    posted,         \* posts so far: kind and context of each
    waiting,        \* per client: its post under way, 0 if none
    sending,        \* posts that wait for a place
    queue,          \* posts in the channel
    task,           \* the post that the task handles, 0 if none ...
    server,         \* ... the token of the temporary server ...
    answer,         \* ... and what handle_request has returned
    channel,        \* per post: what its response channel holds, and if it has a sender
    reply,          \* history: what the client of a post was told
    executed        \* history: tool calls that were executed, in order

clients == <<waiting, sending, reply>>
handling == <<task, server, answer, executed>>
vars == <<authRequired, posted, clients, queue, handling, channel>>

Init ==
    /\ authRequired \in BOOLEAN
    /\ posted = <<>>
    /\ waiting = [c \in Clients |-> 0]
    /\ sending = {}
    /\ queue = <<>>
    /\ task = 0
    /\ server = None
    /\ answer = None
    /\ channel = [n \in Posts |-> [sender |-> TRUE, holds |-> None]]
    /\ reply = [n \in Posts |-> None]
    /\ executed = <<>>

-----------------------------------------------------------------------------
(* The handlers.                                                            *)

\* handle_mcp_post up to the send.  verify_token refuses whatever has no token,
\* if there is a verifier, and looks at nothing if there is none.
Post(c, kind, token) ==
    /\ waiting[c] = 0
    /\ Len(posted) < MaxPosts
    /\ authRequired => token # None
    /\ posted' = Append(posted, [kind |-> kind, context |-> IF authRequired THEN token ELSE None])
    /\ sending' = sending \cup {Len(posted')}
    /\ waiting' = [waiting EXCEPT ![c] = Len(posted')]
    /\ UNCHANGED <<authRequired, reply, queue, handling, channel>>

\* A post gets a place in the channel.
Place(n) ==
    /\ queue' = Append(queue, n)
    /\ sending' = sending \ {n}
    /\ UNCHANGED <<authRequired, posted, waiting, reply, handling, channel>>

\* Mutant: the channel has no bound.
EnqueueUnbounded == \E n \in sending : (\A k \in sending : n <= k) /\ Place(n)

\* Mutant: whoever is woken first takes the place.
EnqueueAny == Len(queue) < Capacity /\ \E n \in sending : Place(n)

\* request_tx.send: the post that waits longest gets the place that is free.
Enqueue ==
    /\ Len(queue) < Capacity
    /\ \E n \in sending : (\A k \in sending : n <= k) /\ Place(n)

\* response_rx.recv: the response, or None when the sender is gone.
Receive(c) ==
    LET n == waiting[c]
    IN  /\ n # 0
        /\ channel[n].holds # None \/ ~channel[n].sender
        /\ reply' = [reply EXCEPT ![n] =
              [code |-> IF channel[n].holds = None THEN 500 ELSE 200, response |-> channel[n].holds]]
        /\ waiting' = [waiting EXCEPT ![c] = 0]
        /\ UNCHANGED <<authRequired, posted, sending, queue, handling, channel>>

\* The client disconnects; what is in the channel stays there.
Disconnect(c) ==
    /\ waiting[c] # 0
    /\ waiting' = [waiting EXCEPT ![c] = 0]
    /\ sending' = sending \ {waiting[c]}
    /\ UNCHANGED <<authRequired, posted, reply, queue, handling, channel>>

-----------------------------------------------------------------------------
(* The task.                                                                *)

\* The sender of a post is dropped, having sent this.
Drop(n, sent) == channel' = [channel EXCEPT ![n] = [sender |-> FALSE, holds |-> sent]]

\* Mutant: the temporary server of the last request is kept when it has a role.
TakeReusing ==
    /\ task = 0
    /\ queue # <<>>
    /\ task' = Head(queue)
    /\ queue' = Tail(queue)
    /\ server' = IF server # None THEN server
                 ELSE IF posted[Head(queue)].context \in Served THEN posted[Head(queue)].context
                 ELSE None
    /\ UNCHANGED <<authRequired, posted, clients, answer, executed, channel>>

\* request_rx.recv and the temporary server: a role that is not served, and no
\* role at all, have the default role, which there is not.
Take ==
    /\ task = 0
    /\ queue # <<>>
    /\ task' = Head(queue)
    /\ queue' = Tail(queue)
    /\ LET context == posted[Head(queue)].context
       IN  server' = IF context \in Served THEN context ELSE None
    /\ UNCHANGED <<authRequired, posted, clients, answer, executed, channel>>

\* Requests that handle_request answers with nothing.
Silent(kind) == kind # "call"

\* handle_call_tool, up to the end of the awaited statement: without a role the
\* tool is not found.
HandleCall ==
    /\ task # 0 /\ answer = None
    /\ ~Silent(posted[task].kind)
    /\ executed' = IF server = None THEN executed
                   ELSE Append(executed, [post |-> task, under |-> server])
    /\ answer' = [of |-> task, under |-> server]
    /\ UNCHANGED <<authRequired, posted, clients, queue, task, server, channel>>

Done == task' = 0 /\ answer' = None

\* Mutant: a tool that is not found is not answered.
RespondIfFound ==
    /\ answer # None
    /\ Drop(task, IF server = None THEN None ELSE answer)
    /\ Done
    /\ UNCHANGED <<authRequired, posted, clients, queue, server, executed>>

\* response_tx.send, whether the client still waits or not
Respond ==
    /\ answer # None
    /\ Drop(task, answer)
    /\ Done
    /\ UNCHANGED <<authRequired, posted, clients, queue, server, executed>>

\* Mutant: the sender of a response that is not sent is kept.
HoldSender ==
    /\ task # 0 /\ Silent(posted[task].kind)
    /\ Done
    /\ UNCHANGED <<authRequired, posted, clients, queue, server, executed, channel>>

\* handle_request has returned None: response_tx is dropped.
DropSender ==
    /\ task # 0 /\ Silent(posted[task].kind)
    /\ Drop(task, None)
    /\ Done
    /\ UNCHANGED <<authRequired, posted, clients, queue, server, executed>>

Work == Enqueue \/ Take \/ HandleCall \/ Respond \/ DropSender

Next ==
    \/ Work
    \/ \E c \in Clients :
          \/ \E kind \in Kinds, token \in Tokens \cup {None} : Post(c, kind, token)
          \/ Receive(c)
          \/ Disconnect(c)

Spec == Init /\ [][Next]_vars

\* The runtime polls what is ready, the channel wakes those that wait, and the
\* statement that the task awaits ends.
Fairness == WF_vars(Work) /\ \A c \in Clients : WF_vars(Receive(c))

FairSpec == Spec /\ Fairness

-----------------------------------------------------------------------------
(* Properties.                                                              *)

\* The types of the variables; the post in the hand of the task is not queued.
TypeOK ==
    /\ authRequired \in BOOLEAN
    /\ posted \in Seq([kind : Kinds, context : Tokens \cup {None}]) /\ Len(posted) <= MaxPosts
    /\ waiting \in [Clients -> 0 .. Len(posted)]
    /\ sending \subseteq 1 .. Len(posted)
    /\ queue \in Seq(1 .. Len(posted)) /\ Len(queue) <= Capacity
    /\ task \in 0 .. Len(posted)
    /\ server \in Tokens \cup {None}
    /\ answer \in Response \cup {None}
    /\ channel \in [Posts -> [sender : BOOLEAN, holds : Response \cup {None}]]
    /\ reply \in [Posts -> Reply \cup {None}]
    /\ executed \in Seq([post : Posts, under : Tokens])

\* Whatever waits in the channel and whoever has left, a client is answered for
\* its own request, and the answer was made under its own token (a channel per
\* request, a temporary server per request).
AnswersBelong ==
    \A n \in Posts : reply[n] # None /\ reply[n].code = 200 =>
        /\ reply[n].response.of = n
        /\ reply[n].response.under \in {posted[n].context, None}

\* A tool is executed for a request that carries the token it is executed under.
ExecutedUnderOwnToken ==
    \A k \in DOMAIN executed : executed[k].under = posted[executed[k].post].context

\* Calls are executed at most once and in the order in which they were posted,
\* though they wait in two places and any of them may be withdrawn.
FirstComeFirstServed ==
    \A j, k \in DOMAIN executed : j < k => executed[j].post < executed[k].post

\* Only a request that handle_request does not answer ends in the transport's
\* error; a call whose client waits is never dropped.
CallsAreAnswered ==
    \A n \in Posts : reply[n] # None /\ reply[n].code = 500 => Silent(posted[n].kind)

\* Every client that waits stops waiting: a full channel delays it but never
\* starves it.
NobodyWaitsForever ==
    \A n \in Posts : \A c \in Clients : waiting[c] = n ~> waiting[c] # n

=============================================================================
