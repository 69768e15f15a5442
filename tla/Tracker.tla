------------------------------ MODULE Tracker ------------------------------
(***************************************************************************)
(* The registry of live tunnels (internal/relay/tracker.go) as its callers *)
(* drive it concurrently.                                                  *)
(*                                                                         *)
(* The relay tracks each tunnel it opens.  A Closer is a goroutine that    *)
(* closes tunnels: a relay goroutine closing its own connection, or the    *)
(* heartbeat's CloseEndpoint.  A Recoverer is a goroutine running          *)
(* RecoveryCoordinator.Recover, the only caller of WaitForConnection: it   *)
(* reads the generation, closes every tunnel and waits for a newer one.    *)
(*                                                                         *)
(* Tracker.mu is held for one action at a time.  The steps between two     *)
(* critical sections are separate actions: a close is a snapshot, then for *)
(* each target sync.Once, remove (locked) and the socket's Close.          *)
(***************************************************************************)
EXTENDS Naturals, FiniteSets

CONSTANTS
    Endpoints,      \* proxy endpoints
    Closers,        \* goroutines that close one tunnel or one endpoint's
    Recoverers,     \* goroutines that rotate the route
    MaxTracks       \* bound: tunnels opened in a behaviour

ASSUME ThreadsAssumption == Closers \cap Recoverers = {}
ASSUME MaxTracksAssumption == MaxTracks \in Nat

VARIABLES
    generation,     \* Tracker.generation; nextID always has the same value
    endpointOf,     \* trackedConn.endpoint, by id
    entries,        \* ids in Tracker.entries
    epoch,          \* channels closed by signalLocked; names Tracker.changed
    entered,        \* ids whose sync.Once a goroutine has entered
    closed,         \* ids whose sync.Once has completed (socket closed)
    pc,             \* where each goroutine is
    targets,        \* tunnels a close loop has still to visit
    current,        \* the tunnel a goroutine is inside sync.Once of (0: none)
    won,            \* tunnels for which this call's closeOnce returned true
    after,          \* Recoverer: the generation it read
    seen            \* Recoverer: the channel WaitForConnection captured

vars == <<generation, endpointOf, entries, epoch, entered, closed,
          pc, targets, current, won, after, seen>>

Threads == Closers \cup Recoverers
Ids == 1..generation
Closing == {"closing", "removing", "shutting"}

Init ==
    /\ generation = 0
    /\ endpointOf = [i \in {} |-> 0]
    /\ entries = {}
    /\ epoch = 0
    /\ entered = {}
    /\ closed = {}
    /\ pc = [t \in Threads |-> "idle"]
    /\ targets = [t \in Threads |-> {}]
    /\ current = [t \in Threads |-> 0]
    /\ won = [t \in Threads |-> {}]
    /\ after = [r \in Recoverers |-> 0]
    /\ seen = [r \in Recoverers |-> 0]

\* Bug: the channel is not replaced, nobody is told.
SignalNobody == epoch' = epoch

\* close(t.changed) and a new channel: every waiter on an older one wakes.
SignalLocked == epoch' = epoch + 1

Goto(t, label) == pc' = [pc EXCEPT ![t] = label]

Track(e) ==
    /\ generation < MaxTracks
    /\ generation' = generation + 1
    /\ endpointOf' = [i \in 1..(generation + 1) |->
                        IF i = generation + 1 THEN e ELSE endpointOf[i]]
    /\ entries' = entries \cup {generation + 1}
    /\ SignalLocked
    /\ UNCHANGED <<entered, closed, pc, targets, current, won, after, seen>>

-----------------------------------------------------------------------------
(* Closing: matching takes the snapshot, closeOnce visits each target.     *)

StartLoop(t, ids) ==
    /\ targets' = [targets EXCEPT ![t] = ids]
    /\ won' = [won EXCEPT ![t] = {}]
    /\ Goto(t, "closing")
    /\ UNCHANGED <<generation, endpointOf, entries, epoch, entered, closed,
                   current, seen>>

Close(t, id) ==
    /\ pc[t] = "idle"
    /\ StartLoop(t, {id})
    /\ UNCHANGED after

CloseEndpoint(t, e) ==
    /\ pc[t] = "idle"
    /\ StartLoop(t, {i \in entries : endpointOf[i] = e})
    /\ UNCHANGED after

\* Bug: the mark is the id the next tunnel will get.
ReadNextId(r) ==
    /\ pc[r] \in {"idle", "connected", "timedOut"}
    /\ after' = [after EXCEPT ![r] = generation + 1]
    /\ Goto(r, "marked")
    /\ UNCHANGED <<generation, endpointOf, entries, epoch, entered, closed,
                   targets, current, won, seen>>

ReadGeneration(r) ==
    /\ pc[r] \in {"idle", "connected", "timedOut"}
    /\ after' = [after EXCEPT ![r] = generation]
    /\ Goto(r, "marked")
    /\ UNCHANGED <<generation, endpointOf, entries, epoch, entered, closed,
                   targets, current, won, seen>>

CloseAll(r) ==
    /\ pc[r] = "marked"
    /\ StartLoop(r, entries)
    /\ UNCHANGED after

\* Bug: closeOnce without sync.Once.
EnterTwice(t, id) ==
    /\ pc[t] = "closing"
    /\ id \in targets[t] \ closed
    /\ entered' = entered \cup {id}
    /\ current' = [current EXCEPT ![t] = id]
    /\ Goto(t, "removing")
    /\ UNCHANGED <<generation, endpointOf, entries, epoch, closed, targets,
                   won, after, seen>>

EnterOnce(t, id) ==
    /\ pc[t] = "closing"
    /\ id \in targets[t] \ entered
    /\ entered' = entered \cup {id}
    /\ current' = [current EXCEPT ![t] = id]
    /\ Goto(t, "removing")
    /\ UNCHANGED <<generation, endpointOf, entries, epoch, closed, targets,
                   won, after, seen>>

Remove(t) ==
    /\ pc[t] = "removing"
    /\ entries' = entries \ {current[t]}
    /\ SignalLocked
    /\ Goto(t, "shutting")
    /\ UNCHANGED <<generation, endpointOf, entered, closed, targets, current,
                   won, after, seen>>

\* Bug: the close never completes its sync.Once.
CloseSocketOnly(t) ==
    /\ pc[t] = "shutting"
    /\ targets' = [targets EXCEPT ![t] = @ \ {current[t]}]
    /\ current' = [current EXCEPT ![t] = 0]
    /\ Goto(t, "closing")
    /\ UNCHANGED <<generation, endpointOf, entries, epoch, entered, closed, won,
                   after, seen>>

CloseSocket(t) ==
    /\ pc[t] = "shutting"
    /\ closed' = closed \cup {current[t]}
    /\ won' = [won EXCEPT ![t] = @ \cup {current[t]}]
    /\ targets' = [targets EXCEPT ![t] = @ \ {current[t]}]
    /\ current' = [current EXCEPT ![t] = 0]
    /\ Goto(t, "closing")
    /\ UNCHANGED <<generation, endpointOf, entries, epoch, entered, after,
                   seen>>

\* Bug: a second caller returns at once (an atomic flag for the sync.Once).
JoinEarly(t, id) ==
    /\ pc[t] = "closing"
    /\ id \in targets[t] \cap entered
    /\ targets' = [targets EXCEPT ![t] = @ \ {id}]
    /\ UNCHANGED <<generation, endpointOf, entries, epoch, entered, closed,
                   pc, current, won, after, seen>>

\* once.Do by a second caller: it blocks until the first has returned.
JoinOnce(t, id) ==
    /\ pc[t] = "closing"
    /\ id \in targets[t] \cap closed
    /\ targets' = [targets EXCEPT ![t] = @ \ {id}]
    /\ UNCHANGED <<generation, endpointOf, entries, epoch, entered, closed,
                   pc, current, won, after, seen>>

EndLoop(t) ==
    /\ pc[t] = "closing"
    /\ targets[t] = {}
    /\ Goto(t, IF t \in Recoverers THEN "check" ELSE "idle")
    /\ UNCHANGED <<generation, endpointOf, entries, epoch, entered, closed,
                   targets, current, won, after, seen>>

-----------------------------------------------------------------------------
(* WaitForConnection.                                                      *)

\* Bug: a tunnel that has already gone counts as a connection.
ReadyByGeneration(r) == generation > after[r]

Ready(r) == generation > after[r] /\ entries # {}

WaitReturns(r) ==
    /\ pc[r] = "check"
    /\ Ready(r)
    /\ Goto(r, "connected")
    /\ UNCHANGED <<generation, endpointOf, entries, epoch, entered, closed,
                   targets, current, won, after, seen>>

\* changed is captured in the critical section that found nothing.
WaitParks(r) ==
    /\ pc[r] = "check"
    /\ ~Ready(r)
    /\ seen' = [seen EXCEPT ![r] = epoch]
    /\ Goto(r, "parked")
    /\ UNCHANGED <<generation, endpointOf, entries, epoch, entered, closed,
                   targets, current, won, after>>

WaitWakes(r) ==
    /\ pc[r] = "parked"
    /\ seen[r] # epoch
    /\ Goto(r, "check")
    /\ UNCHANGED <<generation, endpointOf, entries, epoch, entered, closed,
                   targets, current, won, after, seen>>

\* The context may end at any time; select is free to prefer it.
WaitTimesOut(r) ==
    /\ pc[r] = "parked"
    /\ Goto(r, "timedOut")
    /\ UNCHANGED <<generation, endpointOf, entries, epoch, entered, closed,
                   targets, current, won, after, seen>>

-----------------------------------------------------------------------------
CloseSteps(t) ==
    \/ \E id \in Ids : EnterOnce(t, id) \/ JoinOnce(t, id)
    \/ Remove(t)
    \/ CloseSocket(t)
    \/ EndLoop(t)

WaitSteps(r) == CloseAll(r) \/ WaitReturns(r) \/ WaitParks(r) \/ WaitWakes(r)

Next ==
    \/ \E e \in Endpoints : Track(e)
    \/ \E t \in Closers :
         \/ \E id \in Ids : Close(t, id)
         \/ \E e \in Endpoints : CloseEndpoint(t, e)
    \/ \E t \in Threads : CloseSteps(t)
    \/ \E r \in Recoverers :
         ReadGeneration(r) \/ WaitSteps(r) \/ WaitTimesOut(r)

Spec == Init /\ [][Next]_vars

\* A goroutine in the middle of a call keeps running (Go's scheduler, and a
\* socket's Close that returns).  Nothing forces a new tunnel, a new call or
\* the end of a context.
Fairness ==
    /\ \A t \in Threads : WF_vars(CloseSteps(t))
    /\ \A r \in Recoverers : WF_vars(WaitSteps(r))

FairSpec == Spec /\ Fairness

-----------------------------------------------------------------------------
Labels == {"idle", "marked", "check", "parked", "connected", "timedOut"}
            \cup Closing

\* Types of the registry and of the goroutines' local state.
TypeOK ==
    /\ generation \in 0..MaxTracks
    /\ endpointOf \in [Ids -> Endpoints]
    /\ entries \subseteq Ids
    /\ epoch \in Nat
    /\ entered \subseteq Ids
    /\ closed \subseteq Ids
    /\ pc \in [Threads -> Labels]
    /\ targets \in [Threads -> SUBSET Ids]
    /\ current \in [Threads -> {0} \cup Ids]
    /\ won \in [Threads -> SUBSET Ids]
    /\ after \in [Recoverers -> 0..generation]
    /\ seen \in [Recoverers -> 0..epoch]

\* A goroutine parked in WaitForConnection on the channel that is still open
\* is never one whose condition holds: a tunnel tracked between its check and
\* its select has closed the channel it captured (tracker.go:65-76).
NoLostWakeup ==
    \A r \in Recoverers :
        pc[r] = "parked" /\ seen[r] = epoch => ~Ready(r)

\* When Recover starts waiting, every tunnel as old as the generation it read
\* is gone from the registry and somebody has begun closing it, even the ones
\* another goroutine was closing at the same time (sync.Once blocks the second
\* caller).  So the tunnel it then finds is newer than the rotation.
OldTunnelsGone ==
    \A r \in Recoverers :
        pc[r] \in {"check", "parked"} =>
            /\ 1..after[r] \subseteq entered
            /\ \A id \in entries : id > after[r]

\* Concurrent closes of a tunnel remove it once and only one of them counts
\* it, so the number CloseEndpoint returns, which decides whether OnDead
\* reports a reconnection, never counts a tunnel somebody else closed.
ClosedOnce ==
    /\ \A t, u \in Threads : t # u => won[t] \cap won[u] = {}
    /\ \A t, u \in Threads :
         t # u /\ current[t] # 0 => current[t] # current[u]

InWait == Closing \cup {"marked", "check", "parked"}

Phase == [r \in Recoverers |-> IF pc[r] \in InWait THEN "waiting" ELSE pc[r]]

Promise == INSTANCE TunnelPromise WITH
    opened <- generation, live <- entries, mark <- after, phase <- Phase

\* What WaitForConnection and CloseAll promise Recover together: it reports
\* a new connection only while a tunnel opened after it began is registered
\* (recovery.go:91-110).
PromiseSpec == Promise!Spec

\* A close loop ends whatever the other loops are closing: callers that wait
\* on one another's sync.Once never wait in a circle.
CloseEnds == \A t \in Threads : (pc[t] \in Closing) ~> (pc[t] \notin Closing)
=============================================================================
