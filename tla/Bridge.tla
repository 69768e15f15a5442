------------------------------- MODULE Bridge -------------------------------
(***************************************************************************)
(* The channel through which the core gives commands to Discord:           *)
(* internal/bridge/server.go and the script injected into Electron's main  *)
(* process, assets/discord_bridge.js.                                      *)
(*                                                                         *)
(*   Callers   goroutines inside Server.command (a recovery, the HUD)      *)
(*   Clients   Discord processes with the script                           *)
(*                                                                         *)
(* Server.mu is held for one action.  A connection is a number; each way   *)
(* it is a queue, and once an end has closed it the other end may still    *)
(* read what is queued, or lose it.  The core may crash at any time and be *)
(* started again: that is a new life, with new ids and a new port.         *)
(***************************************************************************)
EXTENDS Naturals, Sequences, FiniteSets

CONSTANTS
    Callers,
    Clients,
    MaxConns,       \* bound: connections in a behaviour
    MaxCommands,    \* bound: commands in one life
    MaxLives        \* bound: starts of the core

ASSUME BoundsAssumption == MaxConns \in Nat /\ MaxCommands \in Nat /\ MaxLives \in Nat

VARIABLES
    \* Server
    up, life,       \* the core runs; which start of it
    control,        \* the control file: the life it leads to (0: no file)
    session,        \* Server.conn (0: nil)
    nextID, pending,
    closed,         \* Server.closed
    closing,        \* Close between its critical section and its end
    handler,        \* handleClient, by connection
    holding,        \* the result a handler has looked up and not sent yet
    \* callers of command
    pc, id, slot,   \* slot: the buffered channel of a command
    \* connections and scripts
    conns,          \* connections so far
    cut,            \* connections some end has closed
    toServer, toClient,
    socket,         \* the script's socket (0: null)
    greeted,        \* connections whose hello is sent
    running         \* commands a script is executing

serverVars == <<up, life, control, session, nextID, pending, closed, closing>>
handlerVars == <<handler, holding>>
callVars == <<pc, id, slot>>
wireVars == <<conns, cut, toServer, toClient>>
scriptVars == <<socket, greeted, running>>
vars == <<serverVars, handlerVars, callVars, wireVars, scriptVars>>

Conns == 1..conns
Hello == 0          \* on the wire a result is the id it answers
Cut(cs) == cut' = cut \cup cs

Init ==
    /\ up = FALSE /\ life = 0 /\ control = 0 /\ session = 0
    /\ nextID = 0 /\ pending = {} /\ closed = FALSE /\ closing = {}
    /\ handler = [c \in 1..MaxConns |-> "none"]
    /\ holding = [c \in 1..MaxConns |-> 0]
    /\ pc = [k \in Callers |-> "idle"]
    /\ id = [k \in Callers |-> 0]
    /\ slot = [k \in Callers |-> "empty"]
    /\ conns = 0 /\ cut = {}
    /\ toServer = [c \in 1..MaxConns |-> <<>>]
    /\ toClient = [c \in 1..MaxConns |-> <<>>]
    /\ socket = [d \in Clients |-> 0]
    /\ greeted = {}
    /\ running = [d \in Clients |-> {}]

\* The channel of a command is found through pending.
Fill(ids, value) ==
    slot' = [k \in Callers |->
                IF id[k] \in ids /\ pc[k] # "idle" /\ slot[k] = "empty"
                THEN value ELSE slot[k]]

FailPendingLocked == Fill(pending, "disconnected") /\ pending' = {}

-----------------------------------------------------------------------------
(* Start and Close of the server, and the end of the core.                 *)

Start ==
    /\ ~up /\ life < MaxLives
    /\ up' = TRUE
    /\ life' = life + 1
    /\ control' = life'
    /\ session' = 0 /\ nextID' = 0 /\ pending' = {}
    /\ closed' = FALSE /\ closing' = {}
    /\ UNCHANGED <<handlerVars, callVars, wireVars, scriptVars>>

\* Bug: the connection is closed without asking whether there is one.
SessionConnUnchecked == {session}

SessionConn == {c \in Conns : session = c}

CloseBegins ==
    /\ up /\ ~closed
    /\ closed' = TRUE
    /\ session' = 0
    /\ FailPendingLocked
    /\ closing' = SessionConn
    /\ UNCHANGED <<up, life, control, nextID, handlerVars, pc, id, wireVars,
                   scriptVars>>

\* The session and the listener are closed, with the connections nobody has
\* accepted; the control file is removed.
CloseEnds ==
    /\ up /\ closed /\ control # 0
    /\ Cut(closing \cup {c \in Conns : handler[c] = "none"})
    /\ closing' = {}
    /\ control' = 0
    /\ UNCHANGED <<up, life, session, nextID, pending, closed, handlerVars,
                   callVars, conns, toServer, toClient, scriptVars>>

\* The process ends, with or without Close.
CoreEnds ==
    /\ up
    /\ up' = FALSE
    /\ Cut(Conns)
    /\ handler' = [c \in 1..MaxConns |-> IF c \in Conns THEN "over" ELSE "none"]
    /\ holding' = [c \in 1..MaxConns |-> 0]
    /\ pc' = [k \in Callers |-> "idle"]
    /\ id' = [k \in Callers |-> 0]
    /\ slot' = [k \in Callers |-> "empty"]
    /\ UNCHANGED <<life, control, session, nextID, pending, closed, closing,
                   conns, toServer, toClient, scriptVars>>

-----------------------------------------------------------------------------
(* command.                                                                *)

Unavailable == session = 0 \/ closed

\* Encode queues the message, or loses it on a connection that was closed.
CommandSends(k) ==
    /\ up /\ pc[k] = "idle"
    /\ ~Unavailable
    /\ nextID < MaxCommands
    /\ nextID' = nextID + 1
    /\ id' = [id EXCEPT ![k] = nextID']
    /\ pending' = pending \cup {nextID'}
    /\ toClient' = IF session \in cut THEN toClient
                   ELSE [toClient EXCEPT ![session] = Append(@, nextID')]
    /\ pc' = [pc EXCEPT ![k] = "waiting"]
    /\ UNCHANGED <<up, life, control, session, closed, closing, handlerVars,
                   slot, conns, cut, toServer, scriptVars>>

CommandEncodeFails(k) ==
    /\ up /\ pc[k] = "idle"
    /\ ~Unavailable
    /\ session \in cut
    /\ nextID < MaxCommands
    /\ nextID' = nextID + 1
    /\ UNCHANGED <<up, life, control, session, pending, closed, closing,
                   handlerVars, callVars, wireVars, scriptVars>>

\* The call returns and its channel is garbage.
CallEnds(k) ==
    /\ pc' = [pc EXCEPT ![k] = "idle"]
    /\ id' = [id EXCEPT ![k] = 0]
    /\ slot' = [slot EXCEPT ![k] = "empty"]

CommandReturns(k) ==
    /\ pc[k] = "waiting"
    /\ slot[k] # "empty"
    /\ CallEnds(k)
    /\ UNCHANGED <<serverVars, handlerVars, wireVars, scriptVars>>

CommandExpires(k) ==
    /\ pc[k] = "waiting"
    /\ pc' = [pc EXCEPT ![k] = "expired"]
    /\ UNCHANGED <<serverVars, handlerVars, id, slot, wireVars, scriptVars>>

\* Bug: a command that expired stays in the table.
CommandLeaves(k) ==
    /\ pc[k] = "expired"
    /\ CallEnds(k)
    /\ UNCHANGED <<serverVars, handlerVars, wireVars, scriptVars>>

CommandGivesUp(k) ==
    /\ pc[k] = "expired"
    /\ pending' = pending \ {id[k]}
    /\ CallEnds(k)
    /\ UNCHANGED <<up, life, control, session, nextID, closed, closing,
                   handlerVars, wireVars, scriptVars>>

-----------------------------------------------------------------------------
(* acceptLoop and handleClient.                                            *)

SetHandler(c, label) == handler' = [handler EXCEPT ![c] = label]

Accept(c) ==
    /\ up /\ control # 0
    /\ c \in Conns
    /\ handler[c] = "none"
    /\ SetHandler(c, "hello")
    /\ UNCHANGED <<serverVars, holding, callVars, wireVars, scriptVars>>

Greets(c) == IF toServer[c] = <<>> THEN FALSE ELSE Head(toServer[c]) = Hello

HelloAccepted(c) ==
    /\ handler[c] = "hello"
    /\ Greets(c)
    /\ ~closed /\ session = 0
    /\ session' = c
    /\ toServer' = [toServer EXCEPT ![c] = Tail(@)]
    /\ SetHandler(c, "serving")
    /\ UNCHANGED <<up, life, control, nextID, pending, closed, closing, holding,
                   callVars, conns, cut, toClient, scriptVars>>

\* Another session, a closed server, a first message that is no hello, no
\* message in time, or the other end has gone.
HelloRejected(c) ==
    /\ handler[c] = "hello"
    /\ closed \/ session # 0 \/ c \in cut \/ ~Greets(c)
    /\ Cut({c})
    /\ SetHandler(c, "over")
    /\ UNCHANGED <<serverVars, holding, callVars, conns, toServer, toClient,
                   scriptVars>>

\* Bug: the result is looked up and stays pending until it is delivered.
ResultKept(c) ==
    /\ handler[c] = "serving"
    /\ toServer[c] # <<>>
    /\ holding' = [holding EXCEPT
                     ![c] = IF Head(toServer[c]) \in pending
                            THEN Head(toServer[c]) ELSE 0]
    /\ toServer' = [toServer EXCEPT ![c] = Tail(@)]
    /\ SetHandler(c, IF Head(toServer[c]) \in pending THEN "deliver" ELSE "serving")
    /\ UNCHANGED <<serverVars, callVars, conns, cut, toClient, scriptVars>>

ResultFound(c) ==
    /\ handler[c] = "serving"
    /\ toServer[c] # <<>>
    /\ Head(toServer[c]) \in pending
    /\ pending' = pending \ {Head(toServer[c])}
    /\ holding' = [holding EXCEPT ![c] = Head(toServer[c])]
    /\ toServer' = [toServer EXCEPT ![c] = Tail(@)]
    /\ SetHandler(c, "deliver")
    /\ UNCHANGED <<up, life, control, session, nextID, closed, closing,
                   callVars, conns, cut, toClient, scriptVars>>

\* A second hello, or the answer to a command that has given up.
ResultIgnored(c) ==
    /\ handler[c] = "serving"
    /\ toServer[c] # <<>>
    /\ Head(toServer[c]) \notin pending
    /\ toServer' = [toServer EXCEPT ![c] = Tail(@)]
    /\ UNCHANGED <<serverVars, handlerVars, callVars, conns, cut, toClient,
                   scriptVars>>

\* The channel has room for one result; a second one would block the handler.
Deliver(c) ==
    /\ handler[c] = "deliver"
    /\ \A k \in Callers : id[k] = holding[c] => slot[k] = "empty"
    /\ Fill({holding[c]}, "answered")
    /\ holding' = [holding EXCEPT ![c] = 0]
    /\ SetHandler(c, "serving")
    /\ UNCHANGED <<serverVars, pc, id, wireVars, scriptVars>>

\* Decode fails once the connection is closed; disconnect.
Disconnect(c) ==
    /\ handler[c] = "serving"
    /\ c \in cut
    /\ IF session = c THEN session' = 0 /\ FailPendingLocked
                      ELSE UNCHANGED <<session, pending, slot>>
    /\ SetHandler(c, "over")
    /\ UNCHANGED <<up, life, control, nextID, closed, closing, holding, pc, id,
                   wireVars, scriptVars>>

-----------------------------------------------------------------------------
(* The script.                                                             *)

\* connect: the control file leads to a core that runs; otherwise it retries.
Connect(d) ==
    /\ socket[d] = 0
    /\ conns < MaxConns
    /\ up /\ control = life
    /\ conns' = conns + 1
    /\ socket' = [socket EXCEPT ![d] = conns']
    /\ UNCHANGED <<serverVars, handlerVars, callVars, cut, toServer, toClient,
                   greeted, running>>

Say(d, message) ==
    toServer' = IF socket[d] \in cut THEN toServer
                ELSE [toServer EXCEPT ![socket[d]] = Append(@, message)]

Greet(d) ==
    /\ socket[d] # 0
    /\ socket[d] \notin greeted
    /\ Say(d, Hello)
    /\ greeted' = greeted \cup {socket[d]}
    /\ UNCHANGED <<serverVars, handlerVars, callVars, conns, cut, toClient,
                   socket, running>>

Receive(d) ==
    /\ socket[d] # 0
    /\ toClient[socket[d]] # <<>>
    /\ running' = [running EXCEPT ![d] = @ \cup {Head(toClient[socket[d]])}]
    /\ toClient' = [toClient EXCEPT ![socket[d]] = Tail(@)]
    /\ UNCHANGED <<serverVars, handlerVars, callVars, conns, cut, toServer,
                   socket, greeted>>

\* Bug: an operation that fails is not answered.
ReplyToSome(d, i) ==
    /\ i \in running[d]
    /\ running' = [running EXCEPT ![d] = @ \ {i}]
    /\ (IF socket[d] = 0 THEN UNCHANGED toServer ELSE Say(d, i)) \/ UNCHANGED toServer
    /\ UNCHANGED <<serverVars, handlerVars, callVars, conns, cut, toClient,
                   socket, greeted>>

\* The operation ends, well or badly.  The answer goes to the socket there is by
\* then, which may be another one than the command came from.
Reply(d, i) ==
    /\ i \in running[d]
    /\ running' = [running EXCEPT ![d] = @ \ {i}]
    /\ IF socket[d] = 0 THEN UNCHANGED toServer ELSE Say(d, i)
    /\ UNCHANGED <<serverVars, handlerVars, callVars, conns, cut, toClient,
                   socket, greeted>>

\* Bug: the reconnection is scheduled before the socket is forgotten.
SocketKept(d) ==
    /\ socket[d] \in cut
    /\ UNCHANGED vars

\* The close event: the socket is forgotten and connect scheduled.
SocketCloses(d) ==
    /\ socket[d] \in cut
    /\ socket' = [socket EXCEPT ![d] = 0]
    /\ UNCHANGED <<serverVars, handlerVars, callVars, wireVars, greeted, running>>

\* Discord is closed and opened again.
DiscordRestarts(d) ==
    /\ socket[d] # 0 \/ running[d] # {}
    /\ Cut({socket[d]} \ {0})
    /\ socket' = [socket EXCEPT ![d] = 0]
    /\ running' = [running EXCEPT ![d] = {}]
    /\ UNCHANGED <<serverVars, handlerVars, callVars, conns, toServer, toClient,
                   greeted>>

-----------------------------------------------------------------------------
CommandSteps(k) == CommandReturns(k) \/ CommandGivesUp(k)
HandlerSteps(c) ==
    \/ Accept(c) \/ HelloAccepted(c) \/ HelloRejected(c)
    \/ ResultFound(c) \/ ResultIgnored(c) \/ Deliver(c) \/ Disconnect(c)
ScriptSteps(d) ==
    \/ Connect(d) \/ Greet(d) \/ Receive(d) \/ SocketCloses(d)
    \/ \E i \in 1..MaxCommands : Reply(d, i)

Next ==
    \/ Start \/ CloseBegins \/ CloseEnds \/ CoreEnds
    \/ \E k \in Callers :
         CommandSends(k) \/ CommandEncodeFails(k) \/ CommandExpires(k) \/ CommandSteps(k)
    \/ \E c \in Conns : HandlerSteps(c)
    \/ \E d \in Clients : ScriptSteps(d) \/ DiscordRestarts(d)

Spec == Init /\ [][Next]_vars

\* The core's goroutines and the script's callbacks run; an operation of
\* Electron ends; the script retries.  No command's context ever ends, and
\* nothing is started, closed or restarted.
Fairness ==
    /\ \A k \in Callers : WF_vars(CommandSteps(k))
    /\ \A c \in 1..MaxConns : WF_vars(c \in Conns /\ HandlerSteps(c))
    /\ \A d \in Clients : WF_vars(ScriptSteps(d))
    /\ WF_vars(CloseEnds)

FairSpec == Spec /\ Fairness

-----------------------------------------------------------------------------
Ids == 1..nextID

TypeOK ==
    /\ life \in 0..MaxLives /\ control \in 0..life /\ up \in BOOLEAN
    /\ session \in 0..conns /\ closing \subseteq Conns /\ closed \in BOOLEAN
    /\ nextID \in 0..MaxCommands /\ pending \subseteq Ids
    /\ handler \in [1..MaxConns -> {"none", "hello", "serving", "deliver", "over"}]
    /\ holding \in [1..MaxConns -> 0..MaxCommands]
    /\ pc \in [Callers -> {"idle", "waiting", "expired"}]
    /\ id \in [Callers -> 0..nextID]
    /\ slot \in [Callers -> {"empty", "answered", "disconnected"}]
    /\ conns \in 0..MaxConns /\ cut \subseteq Conns /\ greeted \subseteq Conns
    /\ \A c \in 1..MaxConns : \A i \in DOMAIN toServer[c] :
         toServer[c][i] \in 0..MaxCommands
    /\ \A c \in 1..MaxConns : \A i \in DOMAIN toClient[c] :
         toClient[c][i] \in 1..MaxCommands
    /\ socket \in [Clients -> 0..conns]
    /\ running \in [Clients -> SUBSET (1..MaxCommands)]

\* Whoever waits is known: its id is in the table, or its result is on the way to
\* its channel or in it.  And nobody else is in the table: no entry outlives its
\* call (server.go:179-200, 307-320).
TableIsExact ==
    up =>
        /\ \A k \in Callers : pc[k] = "waiting" =>
             \/ id[k] \in pending
             \/ slot[k] # "empty"
             \/ \E c \in Conns : handler[c] = "deliver" /\ holding[c] = id[k]
        /\ \A i \in pending : \E k \in Callers : pc[k] # "idle" /\ id[k] = i

\* A handler never finds a full channel: a result is delivered once, to whom Close
\* and disconnect have not failed already, so the goroutine that reads the
\* session is never stuck (server.go:181, 305-320, 336-344).
DeliveryNeverBlocks ==
    \A c \in Conns : \A k \in Callers :
        handler[c] = "deliver" /\ id[k] = holding[c] => slot[k] = "empty"

\* A command ends even if its context never does: with an answer, or because its
\* session ends.
CommandsEnd == \A k \in Callers : (pc[k] = "waiting") ~> (pc[k] # "waiting")

\* A core that runs gets a session with a Discord that runs, whatever sessions,
\* crashes and restarts came before.
Alone == up /\ ~closed /\ session = 0 /\ conns < MaxConns
ClientComesBack == Alone ~> ~Alone
=============================================================================
