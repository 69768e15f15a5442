---------------------------- MODULE BridgeProofs ----------------------------
(***************************************************************************)
(* The table of commands and the handler of a session, for any number of   *)
(* callers, Discord processes, connections, commands and starts of the     *)
(* core.                                                                   *)
(***************************************************************************)
EXTENDS Bridge, TLAPS

\* The parts of TypeOK.
ServerTyped ==
    /\ life \in 0..MaxLives /\ control \in 0..life /\ up \in BOOLEAN
    /\ closed \in BOOLEAN /\ nextID \in 0..MaxCommands /\ pending \subseteq Ids
HandlersTyped ==
    /\ handler \in [1..MaxConns -> {"none", "hello", "serving", "deliver", "over"}]
    /\ holding \in [1..MaxConns -> 0..MaxCommands]
CallsTyped ==
    /\ pc \in [Callers -> {"idle", "waiting", "expired"}]
    /\ id \in [Callers -> 0..nextID]
    /\ slot \in [Callers -> {"empty", "answered", "disconnected"}]
ConnsTyped ==
    /\ conns \in 0..MaxConns /\ session \in 0..conns /\ closing \subseteq Conns
    /\ cut \subseteq Conns /\ greeted \subseteq Conns
    /\ socket \in [Clients -> 0..conns]
WiresTyped ==
    /\ toServer \in [1..MaxConns -> Seq(0..MaxCommands)]
    /\ toClient \in [1..MaxConns -> Seq(1..MaxCommands)]
    /\ running \in [Clients -> SUBSET (1..MaxCommands)]

Types == ServerTyped /\ HandlersTyped /\ CallsTyped /\ ConnsTyped /\ WiresTyped

\* Only a core that runs has calls and handlers, and only on connections.
Served ==
    /\ ~up => /\ \A k \in Callers : pc[k] = "idle"
              /\ \A c \in 1..MaxConns : handler[c] \in {"none", "over"}
    /\ \A c \in 1..MaxConns : handler[c] # "none" => c <= conns

\* A call has an id of its own, and an empty channel while it is in the table.
Calls ==
    \A k \in Callers :
        /\ pc[k] = "idle" <=> id[k] = 0
        /\ pc[k] = "idle" => slot[k] = "empty"
        /\ id[k] \in pending => slot[k] = "empty"
        /\ \A l \in Callers : id[k] = id[l] => k = l \/ id[k] = 0

\* A result on its way has left the table, is in one handler's hands, and its
\* channel is empty.
Deliveries ==
    \A c \in 1..MaxConns :
        /\ handler[c] = "deliver" <=> holding[c] # 0
        /\ holding[c] <= nextID /\ holding[c] \notin pending
        /\ \A d \in 1..MaxConns : holding[c] = holding[d] => c = d \/ holding[c] = 0
        /\ \A k \in Callers : holding[c] # 0 /\ id[k] = holding[c] => slot[k] = "empty"

\* The two halves of TableIsExact.
Listed ==
    up => \A k \in Callers : pc[k] = "waiting" =>
             \/ id[k] \in pending
             \/ slot[k] # "empty"
             \/ \E c \in 1..MaxConns : handler[c] = "deliver" /\ holding[c] = id[k]
Known == up => \A i \in pending : \E k \in Callers : pc[k] # "idle" /\ id[k] = i

Table == Served /\ Calls /\ Deliveries /\ Listed /\ Known

LEMMA InitTypes == Init => Types
<1> USE BoundsAssumption DEF Init, Conns, Ids
<1> SUFFICES ASSUME Init PROVE Types
  OBVIOUS
<1>1. /\ ServerTyped
      /\ HandlersTyped
      /\ CallsTyped
  <2>1. 0 \in 0..MaxLives /\ 0 \in 0..0 /\ 0 \in 0..MaxCommands
    OBVIOUS
  <2>2. ServerTyped
    BY <2>1 DEF ServerTyped
  <2>3. HandlersTyped
    BY <2>1 DEF HandlersTyped
  <2>4. CallsTyped
    BY <2>1 DEF CallsTyped
  <2> QED
    BY <2>2, <2>3, <2>4
<1>2. ConnsTyped
  BY DEF ConnsTyped
<1>3. WiresTyped
  BY DEF WiresTyped
<1> QED
  BY <1>1, <1>2, <1>3 DEF Types

\* Taking a message from a queue, and adding one.
LEMMA Taking ==
    ASSUME NEW S, NEW N, NEW q \in [N -> Seq(S)], NEW c \in N, q[c] # <<>>
    PROVE  /\ Head(q[c]) \in S
           /\ [q EXCEPT ![c] = Tail(@)] \in [N -> Seq(S)]
<1>1. q[c] \in Seq(S)
  OBVIOUS
<1>2. Head(q[c]) \in S /\ Tail(q[c]) \in Seq(S)
  BY <1>1
<1> QED
  BY <1>2

LEMMA Adding ==
    ASSUME NEW S, NEW N, NEW q \in [N -> Seq(S)], NEW c \in N, NEW m \in S
    PROVE  [q EXCEPT ![c] = Append(@, m)] \in [N -> Seq(S)]
<1>1. Append(q[c], m) \in Seq(S)
  OBVIOUS
<1> QED
  BY <1>1

LEMMA InitTable == Init => Table
  BY BoundsAssumption DEF Init, Table, Served, Calls, Deliveries, Listed, Known

\* The life of the server keeps the types.
LEMMA ServerTypes ==
    ASSUME Types, Table, Start \/ CloseBegins \/ CloseEnds \/ CoreEnds
    PROVE  Types'
<1> USE BoundsAssumption DEF Types, Conns, Ids, Hello, serverVars, handlerVars,
    callVars, wireVars, scriptVars
<1>1. CASE Start
  <2>1. ServerTyped'
    <3>1. life' \in 0..MaxLives /\ life' = life + 1
      BY <1>1 DEF Start, ServerTyped
    <3>2. control' \in 0..life'
      BY <1>1, <3>1 DEF Start, ServerTyped
    <3>3. nextID' \in 0..MaxCommands /\ pending' \subseteq 1..nextID'
      BY <1>1 DEF Start
    <3> QED
      BY <1>1, <3>1, <3>2, <3>3 DEF Start, ServerTyped
  <2>2. HandlersTyped'
    BY <1>1 DEF Start, HandlersTyped, WiresTyped, ConnsTyped
  <2>3. CallsTyped'
    BY <1>1 DEF Start, CallsTyped, ServerTyped, Table, Served, Calls
  <2>4. ConnsTyped'
    BY <1>1 DEF Start, ConnsTyped, WiresTyped
  <2>5. WiresTyped'
    BY <1>1 DEF Start, WiresTyped, ServerTyped, ConnsTyped
  <2> QED
    BY <2>1, <2>2, <2>3, <2>4, <2>5
<1>2. CASE CloseBegins
  <2>1. ServerTyped'
    BY <1>2 DEF CloseBegins, SessionConn, FailPendingLocked, Fill, ServerTyped
  <2>2. HandlersTyped'
    BY <1>2 DEF CloseBegins, SessionConn, FailPendingLocked, Fill,
       HandlersTyped, WiresTyped, ConnsTyped
  <2>3. CallsTyped'
    BY <1>2 DEF CloseBegins, SessionConn, FailPendingLocked, Fill, CallsTyped,
       ServerTyped
  <2>4. ConnsTyped'
    BY <1>2 DEF CloseBegins, SessionConn, FailPendingLocked, Fill, ConnsTyped,
       WiresTyped
  <2>5. WiresTyped'
    BY <1>2 DEF CloseBegins, SessionConn, FailPendingLocked, Fill, WiresTyped,
       ServerTyped, ConnsTyped
  <2> QED
    BY <2>1, <2>2, <2>3, <2>4, <2>5
<1>3. CASE CloseEnds
  <2>1. ServerTyped'
    BY <1>3 DEF CloseEnds, Cut, ServerTyped
  <2>2. HandlersTyped'
    BY <1>3 DEF CloseEnds, Cut, HandlersTyped, WiresTyped, ConnsTyped
  <2>3. CallsTyped'
    BY <1>3 DEF CloseEnds, Cut, CallsTyped, ServerTyped
  <2>4. ConnsTyped'
    BY <1>3 DEF CloseEnds, Cut, ConnsTyped, WiresTyped
  <2>5. WiresTyped'
    BY <1>3 DEF CloseEnds, Cut, WiresTyped, ServerTyped, ConnsTyped
  <2> QED
    BY <2>1, <2>2, <2>3, <2>4, <2>5
<1>4. CASE CoreEnds
  <2>1. ServerTyped'
    BY <1>4 DEF CoreEnds, Cut, ServerTyped
  <2>2. HandlersTyped'
    BY <1>4 DEF CoreEnds, Cut, HandlersTyped, WiresTyped, ConnsTyped
  <2>3. CallsTyped'
    BY <1>4 DEF CoreEnds, Cut, CallsTyped, ServerTyped
  <2>4. ConnsTyped'
    BY <1>4 DEF CoreEnds, Cut, ConnsTyped, WiresTyped
  <2>5. WiresTyped'
    BY <1>4 DEF CoreEnds, Cut, WiresTyped, ServerTyped, ConnsTyped
  <2> QED
    BY <2>1, <2>2, <2>3, <2>4, <2>5
<1> QED
  BY <1>1, <1>2, <1>3, <1>4

\* So do the calls,
LEMMA CallTypes ==
    ASSUME Types, Table, NEW k \in Callers,
           \/ CommandSends(k) \/ CommandEncodeFails(k)
           \/ CommandExpires(k) \/ CommandSteps(k)
    PROVE  Types'
<1> USE BoundsAssumption DEF Types, Conns, Ids, Hello, serverVars, handlerVars,
    callVars, wireVars, scriptVars
<1>1. CASE CommandSends(k)
  <2>1. ServerTyped'
    BY <1>1 DEF CommandSends, Unavailable, ServerTyped
  <2>2. HandlersTyped'
    BY <1>1 DEF CommandSends, Unavailable, HandlersTyped, WiresTyped, ConnsTyped
  <2>3. CallsTyped'
    BY <1>1 DEF CommandSends, Unavailable, CallsTyped, ServerTyped
  <2>4. ConnsTyped'
    BY <1>1 DEF CommandSends, Unavailable, ConnsTyped, WiresTyped
  <2>5. WiresTyped'
    BY <1>1 DEF CommandSends, Unavailable, WiresTyped, ServerTyped, ConnsTyped
  <2> QED
    BY <2>1, <2>2, <2>3, <2>4, <2>5
<1>2. CASE CommandEncodeFails(k)
  <2>1. ServerTyped'
    BY <1>2 DEF CommandEncodeFails, Unavailable, ServerTyped
  <2>2. HandlersTyped'
    BY <1>2 DEF CommandEncodeFails, Unavailable, HandlersTyped, WiresTyped,
       ConnsTyped
  <2>3. CallsTyped'
    BY <1>2 DEF CommandEncodeFails, Unavailable, CallsTyped, ServerTyped
  <2>4. ConnsTyped'
    BY <1>2 DEF CommandEncodeFails, Unavailable, ConnsTyped, WiresTyped
  <2>5. WiresTyped'
    BY <1>2 DEF CommandEncodeFails, Unavailable, WiresTyped, ServerTyped,
       ConnsTyped
  <2> QED
    BY <2>1, <2>2, <2>3, <2>4, <2>5
<1>3. CASE CommandExpires(k)
  <2>1. ServerTyped'
    BY <1>3 DEF CommandExpires, ServerTyped
  <2>2. HandlersTyped'
    BY <1>3 DEF CommandExpires, HandlersTyped, WiresTyped, ConnsTyped
  <2>3. CallsTyped'
    BY <1>3 DEF CommandExpires, CallsTyped, ServerTyped
  <2>4. ConnsTyped'
    BY <1>3 DEF CommandExpires, ConnsTyped, WiresTyped
  <2>5. WiresTyped'
    BY <1>3 DEF CommandExpires, WiresTyped, ServerTyped, ConnsTyped
  <2> QED
    BY <2>1, <2>2, <2>3, <2>4, <2>5
<1>4. CASE CommandReturns(k)
  <2>1. ServerTyped'
    BY <1>4 DEF CommandReturns, CallEnds, ServerTyped
  <2>2. HandlersTyped'
    BY <1>4 DEF CommandReturns, CallEnds, HandlersTyped, WiresTyped, ConnsTyped
  <2>3. CallsTyped'
    BY <1>4 DEF CommandReturns, CallEnds, CallsTyped, ServerTyped
  <2>4. ConnsTyped'
    BY <1>4 DEF CommandReturns, CallEnds, ConnsTyped, WiresTyped
  <2>5. WiresTyped'
    BY <1>4 DEF CommandReturns, CallEnds, WiresTyped, ServerTyped, ConnsTyped
  <2> QED
    BY <2>1, <2>2, <2>3, <2>4, <2>5
<1>5. CASE CommandGivesUp(k)
  <2>1. ServerTyped'
    BY <1>5 DEF CommandGivesUp, CallEnds, ServerTyped
  <2>2. HandlersTyped'
    BY <1>5 DEF CommandGivesUp, CallEnds, HandlersTyped, WiresTyped, ConnsTyped
  <2>3. CallsTyped'
    BY <1>5 DEF CommandGivesUp, CallEnds, CallsTyped, ServerTyped
  <2>4. ConnsTyped'
    BY <1>5 DEF CommandGivesUp, CallEnds, ConnsTyped, WiresTyped
  <2>5. WiresTyped'
    BY <1>5 DEF CommandGivesUp, CallEnds, WiresTyped, ServerTyped, ConnsTyped
  <2> QED
    BY <2>1, <2>2, <2>3, <2>4, <2>5
<1> QED
  BY <1>1, <1>2, <1>3, <1>4, <1>5 DEF CommandSteps

\* the handlers
LEMMA HandlerTypes ==
    ASSUME Types, Table, NEW c \in Conns, HandlerSteps(c)
    PROVE  Types'
<1> USE BoundsAssumption DEF Types, Conns, Ids, Hello, serverVars, handlerVars,
    callVars, wireVars, scriptVars
<1>1. CASE Accept(c)
  <2>1. ServerTyped'
    BY <1>1 DEF Accept, SetHandler, ServerTyped
  <2>2. HandlersTyped'
    BY <1>1 DEF Accept, SetHandler, HandlersTyped, WiresTyped, ConnsTyped
  <2>3. CallsTyped'
    BY <1>1 DEF Accept, SetHandler, CallsTyped, ServerTyped
  <2>4. ConnsTyped'
    BY <1>1 DEF Accept, SetHandler, ConnsTyped, WiresTyped
  <2>5. WiresTyped'
    BY <1>1 DEF Accept, SetHandler, WiresTyped, ServerTyped, ConnsTyped
  <2> QED
    BY <2>1, <2>2, <2>3, <2>4, <2>5
<1>2. CASE HelloAccepted(c)
  <2>1. ServerTyped'
    BY <1>2 DEF HelloAccepted, SetHandler, Greets, ServerTyped
  <2>2. HandlersTyped'
    BY <1>2 DEF HelloAccepted, SetHandler, Greets, HandlersTyped, WiresTyped,
       ConnsTyped
  <2>3. CallsTyped'
    BY <1>2 DEF HelloAccepted, SetHandler, Greets, CallsTyped, ServerTyped
  <2>4. ConnsTyped'
    BY <1>2 DEF HelloAccepted, SetHandler, Greets, ConnsTyped, WiresTyped
  <2>5. WiresTyped'
    <3>1. c \in 1..MaxConns /\ toServer[c] # <<>>
      BY <1>2 DEF HelloAccepted, Greets, ConnsTyped
    <3>2. [toServer EXCEPT ![c] = Tail(@)] \in [1..MaxConns -> Seq(0..MaxCommands)]
      BY <3>1, Taking DEF WiresTyped
    <3> QED
      BY <1>2, <3>1, <3>2 DEF HelloAccepted, Greets, WiresTyped
  <2> QED
    BY <2>1, <2>2, <2>3, <2>4, <2>5
<1>3. CASE HelloRejected(c)
  <2>1. ServerTyped'
    BY <1>3 DEF HelloRejected, SetHandler, Cut, ServerTyped
  <2>2. HandlersTyped'
    BY <1>3 DEF HelloRejected, SetHandler, Cut, HandlersTyped, WiresTyped,
       ConnsTyped
  <2>3. CallsTyped'
    BY <1>3 DEF HelloRejected, SetHandler, Cut, CallsTyped, ServerTyped
  <2>4. ConnsTyped'
    BY <1>3 DEF HelloRejected, SetHandler, Cut, ConnsTyped, WiresTyped
  <2>5. WiresTyped'
    BY <1>3 DEF HelloRejected, SetHandler, Cut, WiresTyped, ServerTyped,
       ConnsTyped
  <2> QED
    BY <2>1, <2>2, <2>3, <2>4, <2>5
<1>4. CASE ResultFound(c)
  <2>1. ServerTyped'
    BY <1>4 DEF ResultFound, SetHandler, ServerTyped
  <2>2. HandlersTyped'
    <3>1. c \in 1..MaxConns /\ toServer[c] # <<>>
      BY <1>4 DEF ResultFound, ConnsTyped
    <3>2. Head(toServer[c]) \in 0..MaxCommands
      BY <3>1, Taking DEF WiresTyped
    <3> QED
      BY <1>4, <3>1, <3>2 DEF ResultFound, SetHandler, HandlersTyped
  <2>3. CallsTyped'
    BY <1>4 DEF ResultFound, SetHandler, CallsTyped, ServerTyped
  <2>4. ConnsTyped'
    BY <1>4 DEF ResultFound, SetHandler, ConnsTyped, WiresTyped
  <2>5. WiresTyped'
    <3>1. c \in 1..MaxConns /\ toServer[c] # <<>>
      BY <1>4 DEF ResultFound, ConnsTyped
    <3>2. [toServer EXCEPT ![c] = Tail(@)] \in [1..MaxConns -> Seq(0..MaxCommands)]
      BY <3>1, Taking DEF WiresTyped
    <3> QED
      BY <1>4, <3>1, <3>2 DEF ResultFound, WiresTyped
  <2> QED
    BY <2>1, <2>2, <2>3, <2>4, <2>5
<1>5. CASE ResultIgnored(c)
  <2>1. ServerTyped'
    BY <1>5 DEF ResultIgnored, ServerTyped
  <2>2. HandlersTyped'
    BY <1>5 DEF ResultIgnored, HandlersTyped, WiresTyped, ConnsTyped
  <2>3. CallsTyped'
    BY <1>5 DEF ResultIgnored, CallsTyped, ServerTyped
  <2>4. ConnsTyped'
    BY <1>5 DEF ResultIgnored, ConnsTyped, WiresTyped
  <2>5. WiresTyped'
    <3>1. c \in 1..MaxConns /\ toServer[c] # <<>>
      BY <1>5 DEF ResultIgnored, ConnsTyped
    <3>2. [toServer EXCEPT ![c] = Tail(@)] \in [1..MaxConns -> Seq(0..MaxCommands)]
      BY <3>1, Taking DEF WiresTyped
    <3> QED
      BY <1>5, <3>1, <3>2 DEF ResultIgnored, WiresTyped
  <2> QED
    BY <2>1, <2>2, <2>3, <2>4, <2>5
<1>6. CASE Deliver(c)
  <2>1. ServerTyped'
    BY <1>6 DEF Deliver, SetHandler, Fill, ServerTyped
  <2>2. HandlersTyped'
    BY <1>6 DEF Deliver, SetHandler, Fill, HandlersTyped, WiresTyped, ConnsTyped
  <2>3. CallsTyped'
    BY <1>6 DEF Deliver, SetHandler, Fill, CallsTyped, ServerTyped
  <2>4. ConnsTyped'
    BY <1>6 DEF Deliver, SetHandler, Fill, ConnsTyped, WiresTyped
  <2>5. WiresTyped'
    BY <1>6 DEF Deliver, SetHandler, Fill, WiresTyped, ServerTyped, ConnsTyped
  <2> QED
    BY <2>1, <2>2, <2>3, <2>4, <2>5
<1>7. CASE Disconnect(c)
  <2>1. ServerTyped'
    BY <1>7 DEF Disconnect, SetHandler, FailPendingLocked, Fill, ServerTyped
  <2>2. HandlersTyped'
    BY <1>7 DEF Disconnect, SetHandler, FailPendingLocked, Fill, HandlersTyped,
       WiresTyped, ConnsTyped
  <2>3. CallsTyped'
    BY <1>7 DEF Disconnect, SetHandler, FailPendingLocked, Fill, CallsTyped,
       ServerTyped
  <2>4. ConnsTyped'
    BY <1>7 DEF Disconnect, SetHandler, FailPendingLocked, Fill, ConnsTyped,
       WiresTyped
  <2>5. WiresTyped'
    BY <1>7 DEF Disconnect, SetHandler, FailPendingLocked, Fill, WiresTyped,
       ServerTyped, ConnsTyped
  <2> QED
    BY <2>1, <2>2, <2>3, <2>4, <2>5
<1> QED
  BY <1>1, <1>2, <1>3, <1>4, <1>5, <1>6, <1>7 DEF HandlerSteps

\* and the scripts.
LEMMA ScriptTypes ==
    ASSUME Types, Table, NEW d \in Clients, ScriptSteps(d) \/ DiscordRestarts(d)
    PROVE  Types'
<1> USE BoundsAssumption DEF Types, Conns, Ids, Hello, serverVars, handlerVars,
    callVars, wireVars, scriptVars
<1>1. CASE Connect(d)
  <2>1. ServerTyped'
    BY <1>1 DEF Connect, ServerTyped
  <2>2. HandlersTyped'
    BY <1>1 DEF Connect, HandlersTyped, WiresTyped, ConnsTyped
  <2>3. CallsTyped'
    BY <1>1 DEF Connect, CallsTyped, ServerTyped
  <2>4. ConnsTyped'
    BY <1>1 DEF Connect, ConnsTyped, WiresTyped
  <2>5. WiresTyped'
    BY <1>1 DEF Connect, WiresTyped, ServerTyped, ConnsTyped
  <2> QED
    BY <2>1, <2>2, <2>3, <2>4, <2>5
<1>2. CASE Greet(d)
  <2>1. ServerTyped'
    BY <1>2 DEF Greet, Say, ServerTyped
  <2>2. HandlersTyped'
    BY <1>2 DEF Greet, Say, HandlersTyped, WiresTyped, ConnsTyped
  <2>3. CallsTyped'
    BY <1>2 DEF Greet, Say, CallsTyped, ServerTyped
  <2>4. ConnsTyped'
    <3>1. socket[d] \in 1..conns
      BY <1>2 DEF Greet, ConnsTyped
    <3>2. greeted' \subseteq 1..conns
      BY <1>2, <3>1 DEF Greet, ConnsTyped
    <3> QED
      BY <1>2, <3>2 DEF Greet, ConnsTyped
  <2>5. WiresTyped'
    BY <1>2 DEF Greet, Say, WiresTyped, ServerTyped, ConnsTyped
  <2> QED
    BY <2>1, <2>2, <2>3, <2>4, <2>5
<1>3. CASE Receive(d)
  <2>1. ServerTyped'
    BY <1>3 DEF Receive, ServerTyped
  <2>2. HandlersTyped'
    BY <1>3 DEF Receive, HandlersTyped, WiresTyped, ConnsTyped
  <2>3. CallsTyped'
    BY <1>3 DEF Receive, CallsTyped, ServerTyped
  <2>4. ConnsTyped'
    BY <1>3 DEF Receive, ConnsTyped, WiresTyped
  <2>5. WiresTyped'
    <3>1. socket[d] \in 1..MaxConns /\ toClient[socket[d]] # <<>>
      BY <1>3 DEF Receive, ConnsTyped
    <3>2. /\ Head(toClient[socket[d]]) \in 1..MaxCommands
          /\ [toClient EXCEPT ![socket[d]] = Tail(@)]
               \in [1..MaxConns -> Seq(1..MaxCommands)]
      BY <3>1, Taking DEF WiresTyped
    <3>3. running' \in [Clients -> SUBSET (1..MaxCommands)]
      BY <1>3, <3>2 DEF Receive, WiresTyped
    <3> QED
      BY <1>3, <3>2, <3>3 DEF Receive, WiresTyped
  <2> QED
    BY <2>1, <2>2, <2>3, <2>4, <2>5
<1>4. CASE SocketCloses(d)
  <2>1. ServerTyped'
    BY <1>4 DEF SocketCloses, ServerTyped
  <2>2. HandlersTyped'
    BY <1>4 DEF SocketCloses, HandlersTyped, WiresTyped, ConnsTyped
  <2>3. CallsTyped'
    BY <1>4 DEF SocketCloses, CallsTyped, ServerTyped
  <2>4. ConnsTyped'
    BY <1>4 DEF SocketCloses, ConnsTyped, WiresTyped
  <2>5. WiresTyped'
    BY <1>4 DEF SocketCloses, WiresTyped, ServerTyped, ConnsTyped
  <2> QED
    BY <2>1, <2>2, <2>3, <2>4, <2>5
<1>5. CASE DiscordRestarts(d)
  <2>1. ServerTyped'
    BY <1>5 DEF DiscordRestarts, Cut, ServerTyped
  <2>2. HandlersTyped'
    BY <1>5 DEF DiscordRestarts, Cut, HandlersTyped, WiresTyped, ConnsTyped
  <2>3. CallsTyped'
    BY <1>5 DEF DiscordRestarts, Cut, CallsTyped, ServerTyped
  <2>4. ConnsTyped'
    <3>1. socket[d] \in 0..conns /\ socket' \in [Clients -> 0..conns]
      BY <1>5 DEF DiscordRestarts, ConnsTyped
    <3>2. cut' \subseteq 1..conns
      <4>1. {socket[d]} \ {0} \subseteq 1..conns
        BY <3>1 DEF ConnsTyped
      <4> QED
        BY <1>5, <4>1 DEF DiscordRestarts, Cut, ConnsTyped
    <3> QED
      BY <1>5, <3>1, <3>2 DEF DiscordRestarts, ConnsTyped
  <2>5. WiresTyped'
    BY <1>5 DEF DiscordRestarts, Cut, WiresTyped, ServerTyped, ConnsTyped
  <2> QED
    BY <2>1, <2>2, <2>3, <2>4, <2>5
<1>6. ASSUME NEW i \in 1..MaxCommands, Reply(d, i) PROVE Types'
  <2>1. ServerTyped'
    BY <1>6 DEF Reply, Say, ServerTyped
  <2>2. HandlersTyped'
    BY <1>6 DEF Reply, Say, HandlersTyped, WiresTyped, ConnsTyped
  <2>3. CallsTyped'
    BY <1>6 DEF Reply, Say, CallsTyped, ServerTyped
  <2>4. ConnsTyped'
    BY <1>6 DEF Reply, Say, ConnsTyped, WiresTyped
  <2>5. WiresTyped'
    <3>1. running' \in [Clients -> SUBSET (1..MaxCommands)]
      BY <1>6 DEF Reply, WiresTyped
    <3>2. toServer' \in [1..MaxConns -> Seq(0..MaxCommands)]
      <4>1. CASE UNCHANGED toServer
        BY <4>1 DEF WiresTyped
      <4>2. CASE /\ socket[d] # 0
                 /\ toServer' = [toServer EXCEPT ![socket[d]] = Append(@, i)]
        <5>1. socket[d] \in 1..MaxConns /\ i \in 0..MaxCommands
          BY <4>2 DEF ConnsTyped
        <5> QED
          BY <4>2, <5>1, Adding DEF WiresTyped
      <4> QED
        BY <1>6, <4>1, <4>2 DEF Reply, Say
    <3> QED
      BY <1>6, <3>1, <3>2 DEF Reply, WiresTyped
  <2> QED
    BY <2>1, <2>2, <2>3, <2>4, <2>5
<1> QED
  BY <1>1, <1>2, <1>3, <1>4, <1>5, <1>6 DEF ScriptSteps

\* The life of the server keeps the table.
LEMMA ServerTable ==
    ASSUME Types, Table, Start \/ CloseBegins \/ CloseEnds \/ CoreEnds
    PROVE  Table'
<1> USE BoundsAssumption DEF Types, ServerTyped, HandlersTyped, CallsTyped,
    ConnsTyped, WiresTyped, Table, Conns, Ids, Hello, serverVars, handlerVars,
    callVars, wireVars, scriptVars
<1>1. CASE Start
  <2>1. Served'
    BY <1>1 DEF Start, Served
  <2>2. Calls'
    BY <1>1 DEF Start, Served, Calls, Deliveries
  <2>3. Deliveries'
    <3>1. \A c \in 1..MaxConns : handler[c] # "deliver" /\ holding[c] = 0
      BY <1>1 DEF Start, Served, Deliveries
    <3>2. UNCHANGED <<handler, holding, id, slot>> /\ nextID' = 0 /\ pending' = {}
      BY <1>1 DEF Start
    <3> QED
      BY <3>1, <3>2 DEF Deliveries
  <2>4. Listed'
    BY <1>1 DEF Start, Served, Calls, Deliveries, Listed
  <2>5. Known'
    BY <1>1 DEF Start, Served, Calls, Known
  <2> QED
    BY <2>1, <2>2, <2>3, <2>4, <2>5
<1>2. CASE CloseBegins
  <2>1. Served'
    BY <1>2 DEF CloseBegins, SessionConn, FailPendingLocked, Fill, Served
  <2>2. Calls'
    BY <1>2 DEF CloseBegins, SessionConn, FailPendingLocked, Fill, Served,
       Calls, Deliveries
  <2>3. Deliveries'
    BY <1>2 DEF CloseBegins, SessionConn, FailPendingLocked, Fill, Served,
       Deliveries
  <2>4. Listed'
    BY <1>2 DEF CloseBegins, SessionConn, FailPendingLocked, Fill, Served,
       Calls, Deliveries, Listed
  <2>5. Known'
    BY <1>2 DEF CloseBegins, SessionConn, FailPendingLocked, Fill, Served,
       Calls, Known
  <2> QED
    BY <2>1, <2>2, <2>3, <2>4, <2>5
<1>3. CASE CloseEnds
  <2>1. Served'
    BY <1>3 DEF CloseEnds, Cut, Served
  <2>2. Calls'
    BY <1>3 DEF CloseEnds, Cut, Served, Calls, Deliveries
  <2>3. Deliveries'
    BY <1>3 DEF CloseEnds, Cut, Served, Deliveries
  <2>4. Listed'
    BY <1>3 DEF CloseEnds, Cut, Served, Calls, Deliveries, Listed
  <2>5. Known'
    BY <1>3 DEF CloseEnds, Cut, Served, Calls, Known
  <2> QED
    BY <2>1, <2>2, <2>3, <2>4, <2>5
<1>4. CASE CoreEnds
  <2>1. Served'
    BY <1>4 DEF CoreEnds, Cut, Served
  <2>2. Calls'
    BY <1>4 DEF CoreEnds, Cut, Served, Calls, Deliveries
  <2>3. Deliveries'
    BY <1>4 DEF CoreEnds, Cut, Served, Deliveries
  <2>4. Listed'
    BY <1>4 DEF CoreEnds, Cut, Served, Calls, Deliveries, Listed
  <2>5. Known'
    BY <1>4 DEF CoreEnds, Cut, Served, Calls, Known
  <2> QED
    BY <2>1, <2>2, <2>3, <2>4, <2>5
<1> QED
  BY <1>1, <1>2, <1>3, <1>4

\* So do the calls
LEMMA CallTable ==
    ASSUME Types, Table, NEW k \in Callers,
           \/ CommandSends(k) \/ CommandEncodeFails(k)
           \/ CommandExpires(k) \/ CommandSteps(k)
    PROVE  Table'
<1> USE BoundsAssumption DEF Types, ServerTyped, HandlersTyped, CallsTyped,
    ConnsTyped, WiresTyped, Table, Conns, Ids, Hello, serverVars, handlerVars,
    callVars, wireVars, scriptVars
<1>1. CASE CommandSends(k)
  <2>1. Served'
    BY <1>1 DEF CommandSends, Unavailable, Served
  <2>2. Calls'
    BY <1>1 DEF CommandSends, Unavailable, Served, Calls, Deliveries
  <2>3. Deliveries'
    <3>1. UNCHANGED <<handler, holding, slot>> /\ nextID \in Nat /\ nextID' = nextID + 1
      BY <1>1 DEF CommandSends, ServerTyped
    <3>2. /\ pending' = pending \cup {nextID'} /\ id' = [id EXCEPT ![k] = nextID']
          /\ \A c \in 1..MaxConns : holding[c] \in Nat /\ holding[c] <= nextID
      BY <1>1 DEF CommandSends, Deliveries, HandlersTyped
    <3> QED
      BY <3>1, <3>2, SMTT(60) DEF Deliveries, CallsTyped
  <2>4. Listed'
    BY <1>1 DEF CommandSends, Unavailable, Served, Calls, Deliveries, Listed
  <2>5. Known'
    BY <1>1 DEF CommandSends, Unavailable, Served, Calls, Known
  <2> QED
    BY <2>1, <2>2, <2>3, <2>4, <2>5
<1>2. CASE CommandEncodeFails(k)
  <2>1. Served'
    BY <1>2 DEF CommandEncodeFails, Unavailable, Served
  <2>2. Calls'
    BY <1>2 DEF CommandEncodeFails, Unavailable, Served, Calls, Deliveries
  <2>3. Deliveries'
    BY <1>2 DEF CommandEncodeFails, Unavailable, Served, Deliveries
  <2>4. Listed'
    BY <1>2 DEF CommandEncodeFails, Unavailable, Served, Calls, Deliveries,
       Listed
  <2>5. Known'
    BY <1>2 DEF CommandEncodeFails, Unavailable, Served, Calls, Known
  <2> QED
    BY <2>1, <2>2, <2>3, <2>4, <2>5
<1>3. CASE CommandExpires(k)
  <2>1. Served'
    BY <1>3 DEF CommandExpires, Served
  <2>2. Calls'
    BY <1>3 DEF CommandExpires, Served, Calls, Deliveries
  <2>3. Deliveries'
    BY <1>3 DEF CommandExpires, Served, Deliveries
  <2>4. Listed'
    BY <1>3 DEF CommandExpires, Served, Calls, Deliveries, Listed
  <2>5. Known'
    BY <1>3 DEF CommandExpires, Served, Calls, Known
  <2> QED
    BY <2>1, <2>2, <2>3, <2>4, <2>5
<1>4. CASE CommandReturns(k)
  <2>1. Served'
    BY <1>4 DEF CommandReturns, CallEnds, Served
  <2>2. Calls'
    BY <1>4 DEF CommandReturns, CallEnds, Served, Calls, Deliveries
  <2>3. Deliveries'
    BY <1>4 DEF CommandReturns, CallEnds, Served, Deliveries
  <2>4. Listed'
    BY <1>4 DEF CommandReturns, CallEnds, Served, Calls, Deliveries, Listed
  <2>5. Known'
    BY <1>4 DEF CommandReturns, CallEnds, Served, Calls, Known
  <2> QED
    BY <2>1, <2>2, <2>3, <2>4, <2>5
<1>5. CASE CommandGivesUp(k)
  <2>1. Served'
    BY <1>5 DEF CommandGivesUp, CallEnds, Served
  <2>2. Calls'
    BY <1>5 DEF CommandGivesUp, CallEnds, Served, Calls, Deliveries
  <2>3. Deliveries'
    BY <1>5 DEF CommandGivesUp, CallEnds, Served, Deliveries
  <2>4. Listed'
    BY <1>5 DEF CommandGivesUp, CallEnds, Served, Calls, Deliveries, Listed
  <2>5. Known'
    BY <1>5 DEF CommandGivesUp, CallEnds, Served, Calls, Known
  <2> QED
    BY <2>1, <2>2, <2>3, <2>4, <2>5
<1> QED
  BY <1>1, <1>2, <1>3, <1>4, <1>5 DEF CommandSteps

\* and the handlers.
LEMMA HandlerTable ==
    ASSUME Types, Table, NEW c \in Conns, HandlerSteps(c)
    PROVE  Table'
<1> USE BoundsAssumption DEF Types, ServerTyped, HandlersTyped, CallsTyped,
    ConnsTyped, WiresTyped, Table, Conns, Ids, Hello, serverVars, handlerVars,
    callVars, wireVars, scriptVars
<1>1. CASE Accept(c)
  <2>1. Served'
    BY <1>1 DEF Accept, SetHandler, Served
  <2>2. Calls'
    BY <1>1 DEF Accept, SetHandler, Served, Calls, Deliveries
  <2>3. Deliveries'
    BY <1>1 DEF Accept, SetHandler, Served, Deliveries
  <2>4. Listed'
    BY <1>1 DEF Accept, SetHandler, Served, Calls, Deliveries, Listed
  <2>5. Known'
    BY <1>1 DEF Accept, SetHandler, Served, Calls, Known
  <2> QED
    BY <2>1, <2>2, <2>3, <2>4, <2>5
<1>2. CASE HelloAccepted(c)
  <2>1. Served'
    BY <1>2 DEF HelloAccepted, SetHandler, Greets, Served
  <2>2. Calls'
    BY <1>2 DEF HelloAccepted, SetHandler, Greets, Served, Calls, Deliveries
  <2>3. Deliveries'
    BY <1>2 DEF HelloAccepted, SetHandler, Greets, Served, Deliveries
  <2>4. Listed'
    BY <1>2 DEF HelloAccepted, SetHandler, Greets, Served, Calls, Deliveries,
       Listed
  <2>5. Known'
    BY <1>2 DEF HelloAccepted, SetHandler, Greets, Served, Calls, Known
  <2> QED
    BY <2>1, <2>2, <2>3, <2>4, <2>5
<1>3. CASE HelloRejected(c)
  <2>1. Served'
    BY <1>3 DEF HelloRejected, SetHandler, Cut, Served
  <2>2. Calls'
    BY <1>3 DEF HelloRejected, SetHandler, Cut, Served, Calls, Deliveries
  <2>3. Deliveries'
    BY <1>3 DEF HelloRejected, SetHandler, Cut, Served, Deliveries
  <2>4. Listed'
    BY <1>3 DEF HelloRejected, SetHandler, Cut, Served, Calls, Deliveries,
       Listed
  <2>5. Known'
    BY <1>3 DEF HelloRejected, SetHandler, Cut, Served, Calls, Known
  <2> QED
    BY <2>1, <2>2, <2>3, <2>4, <2>5
<1>4. CASE ResultFound(c)
  <2>1. Served'
    BY <1>4 DEF ResultFound, SetHandler, Served
  <2>2. Calls'
    BY <1>4 DEF ResultFound, SetHandler, Served, Calls, Deliveries
  <2>3. Deliveries'
    <3> DEFINE r == Head(toServer[c])
    <3>1. /\ c \in 1..MaxConns /\ r \in pending /\ pending' = pending \ {r}
          /\ handler[c] = "serving" /\ handler' = [handler EXCEPT ![c] = "deliver"]
          /\ holding' = [holding EXCEPT ![c] = r]
          /\ UNCHANGED <<nextID, id, slot>>
      BY <1>4 DEF ResultFound, SetHandler, ConnsTyped
    <3>2. r \in Nat /\ r # 0 /\ r <= nextID
      <4>1. \A i \in pending : i \in Nat /\ i # 0 /\ i <= nextID
        BY DEF ServerTyped
      <4> QED
        BY <3>1, <4>1
    <3>3. \A b \in 1..MaxConns : holding[b] # r
      BY <3>1 DEF Deliveries
    <3>4. \A k \in Callers : id[k] = r => slot[k] = "empty"
      BY <3>1 DEF Calls
    <3> HIDE DEF r
    <3> QED
      BY <3>1, <3>2, <3>3, <3>4 DEF Deliveries, HandlersTyped
  <2>4. Listed'
    BY <1>4 DEF ResultFound, SetHandler, Served, Calls, Deliveries, Listed
  <2>5. Known'
    BY <1>4 DEF ResultFound, SetHandler, Served, Calls, Known
  <2> QED
    BY <2>1, <2>2, <2>3, <2>4, <2>5
<1>5. CASE ResultIgnored(c)
  <2>1. Served'
    BY <1>5 DEF ResultIgnored, Served
  <2>2. Calls'
    BY <1>5 DEF ResultIgnored, Served, Calls, Deliveries
  <2>3. Deliveries'
    BY <1>5 DEF ResultIgnored, Served, Deliveries
  <2>4. Listed'
    BY <1>5 DEF ResultIgnored, Served, Calls, Deliveries, Listed
  <2>5. Known'
    BY <1>5 DEF ResultIgnored, Served, Calls, Known
  <2> QED
    BY <2>1, <2>2, <2>3, <2>4, <2>5
<1>6. CASE Deliver(c)
  <2>1. Served'
    BY <1>6 DEF Deliver, SetHandler, Fill, Served
  <2>2. Calls'
    BY <1>6 DEF Deliver, SetHandler, Fill, Served, Calls, Deliveries
  <2>3. Deliveries'
    BY <1>6 DEF Deliver, SetHandler, Fill, Served, Deliveries
  <2>4. Listed'
    BY <1>6 DEF Deliver, SetHandler, Fill, Served, Calls, Deliveries, Listed
  <2>5. Known'
    BY <1>6 DEF Deliver, SetHandler, Fill, Served, Calls, Known
  <2> QED
    BY <2>1, <2>2, <2>3, <2>4, <2>5
<1>7. CASE Disconnect(c)
  <2>1. Served'
    BY <1>7 DEF Disconnect, SetHandler, FailPendingLocked, Fill, Served
  <2>2. Calls'
    BY <1>7 DEF Disconnect, SetHandler, FailPendingLocked, Fill, Served, Calls,
       Deliveries
  <2>3. Deliveries'
    BY <1>7, SMTT(60) DEF Disconnect, SetHandler, FailPendingLocked, Fill,
       Served, Deliveries
  <2>4. Listed'
    <3>1. CASE session = c
      <4>1. /\ handler[c] = "serving" /\ handler' = [handler EXCEPT ![c] = "over"]
            /\ UNCHANGED <<up, holding, pc, id>>
        BY <1>7 DEF Disconnect, SetHandler
      <4>2. slot' = [k \in Callers |-> IF /\ id[k] \in pending /\ pc[k] # "idle"
                                         /\ slot[k] = "empty"
                                      THEN "disconnected" ELSE slot[k]]
        BY <1>7, <3>1 DEF Disconnect, FailPendingLocked, Fill
      <4>3. ASSUME NEW b \in 1..MaxConns, handler[b] = "deliver"
            PROVE  handler'[b] = "deliver"
        BY <4>1, <4>3 DEF HandlersTyped
      <4>4. ASSUME NEW k \in Callers, pc[k] = "waiting", id[k] \in pending
            PROVE  slot'[k] # "empty"
        BY <4>2, <4>4
      <4>5. ASSUME NEW k \in Callers, slot[k] # "empty" PROVE slot'[k] # "empty"
        BY <4>2, <4>5
      <4> QED
        BY <4>1, <4>3, <4>4, <4>5 DEF Listed
    <3>2. CASE session # c
      BY <1>7, <3>2 DEF Disconnect, SetHandler, Listed, HandlersTyped,
         ConnsTyped
    <3> QED
      BY <3>1, <3>2
  <2>5. Known'
    BY <1>7 DEF Disconnect, SetHandler, FailPendingLocked, Fill, Served, Calls,
       Known
  <2> QED
    BY <2>1, <2>2, <2>3, <2>4, <2>5
<1> QED
  BY <1>1, <1>2, <1>3, <1>4, <1>5, <1>6, <1>7 DEF HandlerSteps

\* A step that leaves the server and its calls alone, and opens connections at
\* most, keeps the table.
LEMMA TableApart ==
    ASSUME Types, Table, conns' \in Nat, conns' >= conns,
           UNCHANGED <<serverVars, handlerVars, callVars>>
    PROVE  Table'
<1> USE BoundsAssumption DEF Types, ServerTyped, HandlersTyped, CallsTyped,
    ConnsTyped, WiresTyped, Table, serverVars, handlerVars, callVars
<1>1. Served'
  BY DEF Served
<1>2. Calls' /\ Deliveries' /\ Listed' /\ Known'
  BY DEF Calls, Deliveries, Listed, Known
<1> QED
  BY <1>1, <1>2

LEMMA ScriptTable ==
    ASSUME Types, Table, NEW d \in Clients, ScriptSteps(d) \/ DiscordRestarts(d)
    PROVE  Table'
<1>1. conns' \in Nat /\ conns' >= conns
  BY BoundsAssumption DEF Types, ServerTyped, HandlersTyped, CallsTyped,
     ConnsTyped, WiresTyped, ScriptSteps, Connect, Greet, Receive, SocketCloses,
     Reply, DiscordRestarts, wireVars, Cut
<1>2. UNCHANGED <<serverVars, handlerVars, callVars>>
  BY DEF ScriptSteps, Connect, Greet, Receive, SocketCloses, Reply,
     DiscordRestarts
<1> QED
  BY <1>1, <1>2, TableApart

LEMMA Inductive == Spec => [](Types /\ Table)
<1>1. ASSUME Types, Table, [Next]_vars PROVE Types' /\ Table'
  <2>1. CASE Next
    BY <1>1, <2>1, ServerTypes, CallTypes, HandlerTypes, ScriptTypes,
       ServerTable, CallTable, HandlerTable, ScriptTable DEF Next
  <2>2. CASE UNCHANGED vars
    <3>1. Types'
      BY <1>1, <2>2 DEF Types, ServerTyped, HandlersTyped, CallsTyped,
         ConnsTyped, WiresTyped, Conns, Ids, vars, serverVars, handlerVars,
         callVars, wireVars, scriptVars
    <3>2. Table'
      BY <1>1, <2>2, TableApart DEF Types, ServerTyped, HandlersTyped,
         CallsTyped, ConnsTyped, WiresTyped, vars, wireVars
    <3> QED
      BY <3>1, <3>2
  <2> QED
    BY <1>1, <2>1, <2>2
<1> QED
  BY <1>1, InitTypes, InitTable, PTL DEF Spec

\* The types of the server, its calls, the connections and the scripts
\* (server.go:55-72, discord_bridge.js:1-30).
THEOREM TypeCorrect == Spec => []TypeOK
<1>0. ASSUME NEW S, NEW N, NEW q \in [N -> Seq(S)], NEW c \in N, NEW i \in DOMAIN q[c]
      PROVE  q[c][i] \in S
  <2>1. q[c] \in Seq(S)
    BY <1>0
  <2> QED
    BY <1>0, <2>1
<1>1. Types => TypeOK
  BY <1>0 DEF Types, ServerTyped, HandlersTyped, CallsTyped, ConnsTyped,
     WiresTyped, TypeOK
<1> QED
  BY <1>1, Inductive, PTL

\* A caller that waits is in the table, answered or about to be, and the table
\* holds nobody else, however calls, sessions, Close and crashes interleave
\* (server.go:179-200, 307-344).
THEOREM TableStaysExact == Spec => []TableIsExact
<1>1. Types /\ Table => TableIsExact
  BY BoundsAssumption DEF Types, ServerTyped, HandlersTyped, CallsTyped,
     ConnsTyped, WiresTyped, Table, Served, Listed, Known, TableIsExact, Conns
<1> QED
  BY <1>1, Inductive, PTL

\* The goroutine that reads a session never blocks on a caller's channel
\* (server.go:181, 305-320, 336-344).
THEOREM HandlersNeverBlock == Spec => []DeliveryNeverBlocks
<1>1. Types /\ Table => DeliveryNeverBlocks
  BY BoundsAssumption DEF Types, ServerTyped, HandlersTyped, CallsTyped,
     ConnsTyped, WiresTyped, Table, Deliveries, DeliveryNeverBlocks, Conns
<1> QED
  BY <1>1, Inductive, PTL
=============================================================================
