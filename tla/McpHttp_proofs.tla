--------------------------- MODULE McpHttp_proofs ---------------------------
(***************************************************************************)
(* What the transport guarantees for any number of clients, tokens, posts  *)
(* and places in the channel.                                              *)
(***************************************************************************)
EXTENDS McpHttp, TLAPS

\* What is made for a post: its own answer, under its own token or under none.
Own(n, response) ==
    n \in 1 .. Len(posted) /\ response.of = n /\ response.under \in {posted[n].context, None}

\* The temporary server has the token of the request in hand.
ServerOwn == task # 0 => server \in {posted[task].context, None}

\* The answer in hand, what the response channels hold and what the clients got.
HandOwn == answer # None => task # 0 /\ Own(task, answer) /\ ~Silent(posted[task].kind)

HeldOwn ==
    \A n \in Posts :
        /\ channel[n].holds # None => Own(n, channel[n].holds)
        /\ channel[n].holds = None /\ ~channel[n].sender =>
              n \in 1 .. Len(posted) /\ Silent(posted[n].kind)

ReplyOwn ==
    \A n \in Posts : reply[n] # None =>
        /\ n \in 1 .. Len(posted)
        /\ reply[n].code = 200 => Own(n, reply[n].response)
        /\ reply[n].code = 500 => Silent(posted[n].kind)

ExecutedOwn ==
    \A k \in DOMAIN executed :
        executed[k].post \in 1 .. Len(posted) /\ executed[k].under = posted[executed[k].post].context

OwnInv == ServerOwn /\ HandOwn /\ HeldOwn /\ ReplyOwn /\ ExecutedOwn

\* Everything that was executed was posted before what is not done yet.
ExecutedFirst ==
    \A k \in DOMAIN executed :
        /\ executed[k].post <= Len(posted)
        /\ \A l \in DOMAIN queue : executed[k].post < queue[l]
        /\ \A n \in sending : executed[k].post < n
        /\ task # 0 /\ answer = None => executed[k].post < task
        /\ task # 0 => executed[k].post <= task

\* What is in hand was posted before what is in the channel or waits for a place.
HandFirst ==
    task # 0 => /\ \A l \in DOMAIN queue : task < queue[l]
                /\ \A n \in sending : task < n

\* The channel is in the order of the posts, and before what waits for a place.
QueueFirst ==
    /\ \A l, k \in DOMAIN queue : l < k => queue[l] < queue[k]
    /\ \A l \in DOMAIN queue, n \in sending : queue[l] < n

Line == ExecutedFirst /\ HandFirst /\ QueueFirst /\ FirstComeFirstServed

\* The initial state satisfies the type invariant.
LEMMA TypeInit == Init => TypeOK
BY ConstantsAssumption DEF Init, TypeOK, Posts

\* Every step of a handler and of the task keeps the types.
LEMMA TypeStep == TypeOK /\ [Next]_vars => TypeOK'
<1> SUFFICES ASSUME TypeOK, [Next]_vars PROVE TypeOK'
  OBVIOUS
<1> USE ConstantsAssumption DEF TypeOK, Posts, clients, handling
<1>1. ASSUME NEW c \in Clients, NEW kind \in Kinds, NEW token \in Tokens \cup {None},
             Post(c, kind, token)
      PROVE  TypeOK'
  <2>1. /\ posted' \in Seq([kind : Kinds, context : Tokens \cup {None}])
        /\ Len(posted') = Len(posted) + 1
    <3> DEFINE post == [kind |-> kind, context |-> IF authRequired THEN token ELSE None]
    <3>1. post \in [kind : Kinds, context : Tokens \cup {None}]
      OBVIOUS
    <3>2. posted' = Append(posted, post)
      BY <1>1 DEF Post
    <3> HIDE DEF post
    <3> QED
      BY <3>1, <3>2
  <2>2. Len(posted') <= MaxPosts
    BY <1>1, <2>1 DEF Post
  <2>3. /\ waiting' \in [Clients -> 0 .. Len(posted')]
        /\ sending' \subseteq 1 .. Len(posted')
    <3>1. sending' \subseteq 1 .. Len(posted')
      <4>1. sending' = sending \cup {Len(posted')} /\ sending \subseteq 1 .. Len(posted)
        BY <1>1 DEF Post
      <4>2. Len(posted') = Len(posted) + 1 /\ Len(posted) \in Nat
        BY <2>1
      <4> HIDE DEF TypeOK
      <4>3. \A n \in 1 .. Len(posted) : n \in 1 .. Len(posted')
        BY <4>2
      <4>4. Len(posted') \in 1 .. Len(posted')
        BY <4>2
      <4> QED
        BY <4>1, <4>3, <4>4
    <3>2. Len(posted') \in 0 .. Len(posted') /\ 0 .. Len(posted) \subseteq 0 .. Len(posted')
      BY <2>1
    <3>3. waiting \in [Clients -> 0 .. Len(posted')]
      BY <3>2
    <3>4. waiting' = [waiting EXCEPT ![c] = Len(posted')]
      BY <1>1 DEF Post
    <3> HIDE DEF TypeOK
    <3> DEFINE Numbered == 0 .. Len(posted')
    <3> HIDE DEF Numbered
    <3>5. waiting' \in [Clients -> Numbered]
      BY <3>2, <3>3, <3>4 DEF Numbered
    <3> QED
      BY <3>1, <3>5 DEF Numbered
  <2>4. queue' \in Seq(1 .. Len(posted')) /\ Len(queue') <= Capacity
    BY <1>1, <2>1 DEF Post
  <2>5. task' \in 0 .. Len(posted')
    BY <1>1, <2>1 DEF Post
  <2> QED
    BY <1>1, <2>1, <2>2, <2>3, <2>4, <2>5 DEF Post
<1>2. ASSUME Enqueue PROVE TypeOK'
  <2>1. PICK n \in sending : Place(n)
    BY <1>2 DEF Enqueue
  <2>2. queue' \in Seq(1 .. Len(posted')) /\ Len(queue') <= Capacity
    BY <1>2, <2>1 DEF Enqueue, Place
  <2> QED
    BY <2>1, <2>2 DEF Place
<1>3. ASSUME NEW c \in Clients, Receive(c) PROVE TypeOK'
  <2>1. waiting[c] \in Posts
    BY <1>3 DEF Receive
  <2>2. reply' \in [Posts -> Reply \cup {None}]
    <3> DEFINE n == waiting[c]
               told == [code |-> IF channel[n].holds = None THEN 500 ELSE 200,
                        response |-> channel[n].holds]
    <3>1. channel[n].holds \in Response \cup {None}
      BY <2>1
    <3>2. told \in Reply
      BY <3>1 DEF Reply
    <3>3. reply' = [reply EXCEPT ![n] = told]
      BY <1>3 DEF Receive
    <3> HIDE DEF told, n
    <3> QED
      BY <3>2, <3>3
  <2>3. waiting' \in [Clients -> 0 .. Len(posted')]
    BY <1>3 DEF Receive
  <2> QED
    BY <1>3, <2>2, <2>3 DEF Receive
<1>4. ASSUME NEW c \in Clients, Disconnect(c) PROVE TypeOK'
  <2>1. waiting' \in [Clients -> 0 .. Len(posted')]
    BY <1>4 DEF Disconnect
  <2>2. sending' \subseteq 1 .. Len(posted')
    BY <1>4 DEF Disconnect
  <2> QED
    BY <1>4, <2>1, <2>2 DEF Disconnect
<1>5. ASSUME Take PROVE TypeOK'
  BY <1>5 DEF Take
<1>6. ASSUME HandleCall PROVE TypeOK'
  <2>1. task \in Posts
    BY <1>6 DEF HandleCall
  <2>2. answer' \in Response
    BY <1>6, <2>1 DEF HandleCall, Response
  <2>3. executed' \in Seq([post : Posts, under : Tokens])
    <3>1. CASE server = None
      BY <1>6, <3>1 DEF HandleCall
    <3>2. CASE server # None
      BY <1>6, <2>1, <3>2 DEF HandleCall
    <3> QED
      BY <3>1, <3>2
  <2> QED
    BY <1>6, <2>2, <2>3 DEF HandleCall
<1>7. ASSUME Respond PROVE TypeOK'
  <2>1. channel' \in [Posts -> [sender : BOOLEAN, holds : Response \cup {None}]]
    BY <1>7 DEF Respond, Drop
  <2> QED
    BY <1>7, <2>1 DEF Respond, Done
<1>8. ASSUME DropSender PROVE TypeOK'
  <2>1. channel' \in [Posts -> [sender : BOOLEAN, holds : Response \cup {None}]]
    BY <1>8 DEF DropSender, Drop
  <2> QED
    BY <1>8, <2>1 DEF DropSender, Done
<1>9. ASSUME UNCHANGED vars PROVE TypeOK'
  BY <1>9 DEF vars
<1> QED
  BY <1>1, <1>2, <1>3, <1>4, <1>5, <1>6, <1>7, <1>8, <1>9 DEF Next, Work

\* Nothing is made yet.
LEMMA OwnInit == Init => OwnInv
BY DEF Init, OwnInv, ServerOwn, HandOwn, HeldOwn, ReplyOwn, ExecutedOwn

\* Every step makes, carries and hands over only what belongs to the post.
LEMMA OwnStep == TypeOK /\ OwnInv /\ [Next]_vars => OwnInv'
<1> SUFFICES ASSUME TypeOK, OwnInv, [Next]_vars PROVE OwnInv'
  OBVIOUS
<1> USE ConstantsAssumption DEF TypeOK, Posts, clients, handling, OwnInv, Own
<1> USE DEF ServerOwn, HandOwn, HeldOwn, ReplyOwn, ExecutedOwn
<1>1. ASSUME NEW c \in Clients, NEW kind \in Kinds, NEW token \in Tokens \cup {None},
             Post(c, kind, token)
      PROVE  OwnInv'
  <2>1. \A n \in 1 .. Len(posted) : n \in 1 .. Len(posted') /\ posted'[n] = posted[n]
    BY <1>1 DEF Post
  <2> QED
    BY <1>1, <2>1 DEF Post
<1>2. ASSUME Enqueue PROVE OwnInv'
  BY <1>2 DEF Enqueue, Place
<1>3. ASSUME NEW c \in Clients, Receive(c) PROVE OwnInv'
  BY <1>3 DEF Receive
<1>4. ASSUME NEW c \in Clients, Disconnect(c) PROVE OwnInv'
  BY <1>4 DEF Disconnect
<1>5. ASSUME Take PROVE OwnInv'
  BY <1>5 DEF Take
<1>6. ASSUME HandleCall PROVE OwnInv'
  BY <1>6 DEF HandleCall
<1>7. ASSUME Respond PROVE OwnInv'
  BY <1>7 DEF Respond, Drop, Done
<1>8. ASSUME DropSender PROVE OwnInv'
  BY <1>8 DEF DropSender, Drop, Done
<1>9. ASSUME UNCHANGED vars PROVE OwnInv'
  BY <1>9 DEF vars
<1> QED
  BY <1>1, <1>2, <1>3, <1>4, <1>5, <1>6, <1>7, <1>8, <1>9 DEF Next, Work

\* Nobody stands in the line yet.
LEMMA LineInit == Init => Line
BY DEF Init, Line, ExecutedFirst, HandFirst, QueueFirst, FirstComeFirstServed

\* What the types say of the numbers in the line.
LEMMA Numbers ==
    ASSUME TypeOK
    PROVE  /\ Len(posted) \in Nat /\ task \in 0 .. Len(posted) /\ sending \subseteq 1 .. Len(posted)
           /\ Len(queue) \in Nat /\ DOMAIN queue = 1 .. Len(queue)
           /\ \A l \in DOMAIN queue : queue[l] \in 1 .. Len(posted)
           /\ Len(executed) \in Nat /\ DOMAIN executed = 1 .. Len(executed)
           /\ \A k \in DOMAIN executed : executed[k].post \in Nat
<1>1. Len(posted) \in Nat /\ task \in 0 .. Len(posted) /\ sending \subseteq 1 .. Len(posted)
  BY DEF TypeOK
<1>2. /\ Len(queue) \in Nat /\ DOMAIN queue = 1 .. Len(queue)
      /\ \A l \in DOMAIN queue : queue[l] \in 1 .. Len(posted)
  BY DEF TypeOK
<1>3. /\ Len(executed) \in Nat /\ DOMAIN executed = 1 .. Len(executed)
      /\ \A k \in DOMAIN executed : executed[k].post \in Nat
  <2> DEFINE Calls == [post : Posts, under : Tokens]
  <2>1. executed \in Seq(Calls)
    BY DEF TypeOK
  <2>2. \A call \in Calls : call.post \in Nat
    BY ConstantsAssumption DEF Posts
  <2> HIDE DEF Calls
  <2>3. /\ Len(executed) \in Nat /\ DOMAIN executed = 1 .. Len(executed)
        /\ \A k \in 1 .. Len(executed) : executed[k] \in Calls
    BY <2>1
  <2> QED
    BY <2>2, <2>3
<1> QED
  BY <1>1, <1>2, <1>3

\* A post joins the line at its end, leaves it anywhere, and advances in order.
LEMMA LineStep == TypeOK /\ Line /\ [Next]_vars => Line'
<1> SUFFICES ASSUME TypeOK, Line, [Next]_vars PROVE Line'
  OBVIOUS
<1> USE Numbers DEF Line, ExecutedFirst, HandFirst, QueueFirst, FirstComeFirstServed
<1>1. ASSUME NEW c \in Clients, NEW kind \in Kinds, NEW token \in Tokens \cup {None},
             Post(c, kind, token)
      PROVE  Line'
  <2>1. Len(posted') = Len(posted) + 1
    BY <1>1 DEF Post, TypeOK
  <2>2. /\ sending' = sending \cup {Len(posted')}
        /\ UNCHANGED <<queue, task, answer, executed>>
    BY <1>1 DEF Post, handling
  <2> QED
    BY <2>1, <2>2
<1>2. ASSUME Enqueue PROVE Line'
  <2>1. PICK n \in sending : (\A k \in sending : n <= k) /\ Place(n)
    BY <1>2 DEF Enqueue
  <2>2. /\ DOMAIN queue' = 1 .. Len(queue) + 1
        /\ \A l \in DOMAIN queue' : queue'[l] = IF l = Len(queue) + 1 THEN n ELSE queue[l]
    BY <2>1 DEF Place, TypeOK
  <2>3. UNCHANGED <<posted, task, answer, executed>>
    BY <2>1 DEF Place, handling
  <2>4. sending' = sending \ {n} /\ \A k \in sending' : n < k
    BY <2>1 DEF Place
  <2>5. ExecutedFirst'
    BY <2>2, <2>3, <2>4
  <2>6. HandFirst'
    BY <2>2, <2>3, <2>4
  <2>7. QueueFirst'
    BY <2>2, <2>4
  <2> QED
    BY <2>3, <2>5, <2>6, <2>7
<1>3. ASSUME NEW c \in Clients, Receive(c) PROVE Line'
  BY <1>3 DEF Receive, handling
<1>4. ASSUME NEW c \in Clients, Disconnect(c) PROVE Line'
  BY <1>4 DEF Disconnect, handling
<1>5. ASSUME Take PROVE Line'
  <2>1. task = 0 /\ task' = queue[1] /\ 1 \in DOMAIN queue
    BY <1>5 DEF Take, TypeOK
  <2>2. /\ DOMAIN queue' = 1 .. Len(queue) - 1
        /\ \A l \in DOMAIN queue' : queue'[l] = queue[l + 1]
    BY <1>5 DEF Take, TypeOK
  <2>3. UNCHANGED <<posted, sending, answer, executed>>
    BY <1>5 DEF Take, clients
  <2>4. \A l \in DOMAIN queue' : l + 1 \in DOMAIN queue /\ l + 1 > 1 /\ queue'[l] = queue[l + 1]
    BY <2>2
  <2>5. ExecutedFirst'
    BY <2>1, <2>3, <2>4
  <2>6. HandFirst'
    BY <2>1, <2>3, <2>4
  <2>7. QueueFirst'
    <3>1. \A l, k \in DOMAIN queue' : l < k => queue'[l] < queue'[k]
      BY <2>2, <2>4
    <3> QED
      BY <2>3, <2>4, <3>1
  <2> QED
    BY <2>3, <2>5, <2>6, <2>7
<1>6. ASSUME HandleCall PROVE Line'
  <2>1. /\ task # 0 /\ answer = None
        /\ UNCHANGED <<posted, sending, queue, task>>
    BY <1>6 DEF HandleCall, clients
  <2>2. CASE server = None
    BY <1>6, <2>1, <2>2 DEF HandleCall
  <2>3. CASE server # None
    <3>1. executed' = Append(executed, [post |-> task, under |-> server])
      BY <1>6, <2>3 DEF HandleCall
    <3>2. /\ DOMAIN executed' = 1 .. Len(executed) + 1
          /\ \A k \in DOMAIN executed' :
                executed'[k].post = IF k = Len(executed) + 1 THEN task ELSE executed[k].post
      BY <3>1 DEF TypeOK
    <3>3. answer' # None
      BY <1>6, ConstantsAssumption DEF HandleCall, TypeOK, Response, Posts
    <3> QED
      BY <2>1, <3>2, <3>3
  <2> QED
    BY <2>2, <2>3
<1>7. ASSUME Respond PROVE Line'
  BY <1>7 DEF Respond, Done, clients
<1>8. ASSUME DropSender PROVE Line'
  BY <1>8 DEF DropSender, Done, clients
<1>9. ASSUME UNCHANGED vars PROVE Line'
  BY <1>9 DEF vars, clients, handling
<1> QED
  BY <1>1, <1>2, <1>3, <1>4, <1>5, <1>6, <1>7, <1>8, <1>9 DEF Next, Work

\* The types hold in every reachable state.
THEOREM Typing == Spec => []TypeOK
BY TypeInit, TypeStep, PTL DEF Spec

\* Whatever waits in the channel and whoever has left, no answer crosses over to
\* another request or is made under another token.
THEOREM NoCrossing == Spec => []AnswersBelong
<1>1. TypeOK /\ OwnInv => AnswersBelong
  BY DEF TypeOK, OwnInv, ReplyOwn, Own, AnswersBelong
<1> QED
  BY Typing, OwnInit, OwnStep, <1>1, PTL DEF Spec

\* No tool is executed under a token that its request did not carry.
THEOREM OwnTokenOnly == Spec => []ExecutedUnderOwnToken
<1>1. OwnInv => ExecutedUnderOwnToken
  BY DEF OwnInv, ExecutedOwn, ExecutedUnderOwnToken
<1> QED
  BY Typing, OwnInit, OwnStep, <1>1, PTL DEF Spec

\* The transport's error is only for what the server does not answer.
THEOREM NoCallDropped == Spec => []CallsAreAnswered
<1>1. OwnInv => CallsAreAnswered
  BY DEF OwnInv, ReplyOwn, CallsAreAnswered
<1> QED
  BY Typing, OwnInit, OwnStep, <1>1, PTL DEF Spec

\* Calls are executed at most once and in the order in which they were posted.
THEOREM InOrder == Spec => []FirstComeFirstServed
<1>1. Line => FirstComeFirstServed
  BY DEF Line
<1> QED
  BY Typing, LineInit, LineStep, <1>1, PTL DEF Spec

=============================================================================
