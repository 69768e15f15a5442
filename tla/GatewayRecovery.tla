-------------------------- MODULE GatewayRecovery --------------------------
(***************************************************************************)
(* The route of the gateway and the status the HUD shows: the relay's      *)
(* connector (internal/app/gateway.go), the recovery coordinator           *)
(* (internal/app/recovery.go) and the OnDead callback (internal/app/run.go)*)
(* over the proxy pool and the tunnel registry, which ManagedPool and      *)
(* Tracker model in detail and which are short here:                       *)
(*                                                                         *)
(*   - the pool is what PoolPromise says, a hunt one step;                 *)
(*   - CloseAll and CloseEndpoint are one step each, and the generation    *)
(*     Recover reads is reduced to whether a tunnel was tracked since.     *)
(*                                                                         *)
(* A Client is one gateway connection of Discord: it dials through the     *)
(* relay, stays open, closes, and dials again.                             *)
(***************************************************************************)
EXTENDS Naturals, Sequences, FiniteSets

CONSTANTS
    Endpoints,
    Clients,
    Hearts,         \* the heartbeat goroutine, or no goroutine
    PoolSize,
    None

ASSUME NoneAssumption == None \notin Endpoints \cup Clients
ASSUME SizeAssumption == PoolSize \in Nat \ {0}    \* Config.normalized

VARIABLES
    pool,           \* Pool.Entries
    status,         \* runtimeStatusStore: the state the HUD shows
    writer,         \* history: the goroutine that wrote it last
    pc,             \* of a client's connection in the relay
    picked,         \* the endpoint a client's dial has chosen
    left,           \* attempts left in Pool.DialWithEndpoint
    hunted,         \* the dial has refreshed the pool
    dialing,        \* holder of dialMu
    before,         \* endpoints pooled before the dial
    dead,           \* endpoints a failed dial still hands to OnDead
    open,           \* the endpoint of a client's tracked tunnel
    beat, victim,   \* the heartbeat, and the endpoint it evicts
    rec,            \* the recovery in progress
    moved,          \* a tunnel was tracked since Recover read the generation
    newer,          \* history: clients whose tunnel was tracked since then
    promoted        \* the endpoint PromoteReserve moved to the tail

reports == <<before, dead>>
dialVars == <<pc, picked, left, hunted, dialing, reports>>
beatVars == <<beat, victim>>
recVars == <<rec, moved, newer, promoted>>
shown == <<status, writer>>
vars == <<pool, shown, dialVars, open, beatVars, recVars>>

\* The pool changes as it promises to.
Pool == INSTANCE PoolPromise

Pooled == {pool[i] : i \in DOMAIN pool}
Goto(c, label) == pc' = [pc EXCEPT ![c] = label]
Show(state, who) == status' = state /\ writer' = who
Live == {c \in Clients : open[c] # None}

\* Close of tracked tunnels by another goroutine; the relay notices later.
CloseTunnels(cs) ==
    /\ open' = [c \in Clients |-> IF c \in cs THEN None ELSE open[c]]
    /\ newer' = newer \ cs

\* Run: with no verified proxy the core starts in no_proxy.
Init ==
    /\ pool \in Pool!Pools
    /\ status = IF pool = <<>> THEN "no_proxy" ELSE "starting"
    /\ writer = "Run"
    /\ pc = [c \in Clients |-> "idle"]
    /\ picked = [c \in Clients |-> None]
    /\ left = [c \in Clients |-> 0]
    /\ hunted = [c \in Clients |-> FALSE]
    /\ dialing = None
    /\ before = [c \in Clients |-> {}]
    /\ dead = [c \in Clients |-> {}]
    /\ open = [c \in Clients |-> None]
    /\ beat = "idle" /\ victim = None
    /\ rec = "idle" /\ moved = FALSE /\ newer = {} /\ promoted = None

-----------------------------------------------------------------------------
(* gatewayConnector.Dial, and the pool's dials inside it.  Locals of a call *)
(* that has returned are reset.                                            *)

\* Discord opens a connection and the relay dials: status, then the pool.
DialStart(c) ==
    /\ pc[c] = "idle"
    /\ Show("reconnecting", "dial")
    /\ Goto(c, "begin")
    /\ UNCHANGED <<pool, picked, left, hunted, dialing, reports, open,
                   beatVars, recVars>>

DialBegin(c) ==
    /\ pc[c] = "begin"
    /\ before' = [before EXCEPT ![c] = Pooled]
    /\ Goto(c, "lock")
    /\ UNCHANGED <<pool, shown, picked, left, hunted, dialing, dead, open,
                   beatVars, recVars>>

DialLock(c) ==
    /\ pc[c] = "lock"
    /\ dialing = None
    /\ dialing' = c
    /\ left' = [left EXCEPT ![c] = Len(pool)]
    /\ Goto(c, "attempt")
    /\ UNCHANGED <<pool, shown, picked, hunted, reports, open, beatVars,
                   recVars>>

DialPick(c) ==
    /\ pc[c] = "attempt"
    /\ left[c] > 0 /\ pool # <<>>
    /\ picked' = [picked EXCEPT ![c] = Head(pool)]
    /\ Goto(c, "dialing")
    /\ UNCHANGED <<pool, shown, left, hunted, dialing, reports, open, beatVars,
                   recVars>>

DialFails(c) ==
    /\ pc[c] = "dialing"
    /\ Pool!Drop(picked[c])
    /\ picked' = [picked EXCEPT ![c] = None]
    /\ left' = [left EXCEPT ![c] = @ - 1]
    /\ Goto(c, "attempt")
    /\ UNCHANGED <<shown, hunted, dialing, reports, open, beatVars, recVars>>

DialSucceeds(c) ==
    /\ pc[c] = "dialing"
    /\ dialing' = None
    /\ left' = [left EXCEPT ![c] = 0]
    /\ hunted' = [hunted EXCEPT ![c] = FALSE]
    /\ before' = [before EXCEPT ![c] = {}]
    /\ Goto(c, "dialed")
    /\ UNCHANGED <<pool, shown, picked, dead, open, beatVars, recVars>>

\* Bug: dialMu is not released on the error path.
DialGivesUpLocked(c) ==
    /\ pc[c] = "attempt"
    /\ Goto(c, "gaveUp")
    /\ UNCHANGED <<pool, shown, picked, left, hunted, dialing, reports, open,
                   beatVars, recVars>>

\* The attempts are used up or the context has ended.
DialGivesUp(c) ==
    /\ pc[c] = "attempt"
    /\ dialing' = None
    /\ left' = [left EXCEPT ![c] = 0]
    /\ Goto(c, "gaveUp")
    /\ UNCHANGED <<pool, shown, picked, hunted, reports, open, beatVars,
                   recVars>>

\* reportDialRemovals: OnDead for each endpoint that has left the pool.
DialCompares(c) ==
    /\ pc[c] = "gaveUp"
    /\ dead' = [dead EXCEPT ![c] = before[c] \ Pooled]
    /\ before' = [before EXCEPT ![c] = {}]
    /\ Goto(c, "report")
    /\ UNCHANGED <<pool, shown, picked, left, hunted, dialing, open, beatVars,
                   recVars>>

ReportCloses(c, e) ==
    LET hit == {d \in Clients : open[d] = e} IN
    /\ pc[c] = "report"
    /\ e \in dead[c]
    /\ CloseTunnels(hit)
    /\ dead' = [dead EXCEPT ![c] = @ \ {e}]
    /\ Goto(c, IF hit = {} THEN "report" ELSE "reportClosed")
    /\ UNCHANGED <<pool, shown, picked, left, hunted, dialing, before,
                   beatVars, rec, moved, promoted>>

ReportShows(c) ==
    /\ pc[c] = "reportClosed"
    /\ Show("reconnecting", "dial")
    /\ Goto(c, "report")
    /\ UNCHANGED <<pool, picked, left, hunted, dialing, reports, open,
                   beatVars, recVars>>

\* ManagedPool.DialWithEndpoint refreshes once and dials again.
DialHunts(c) ==
    /\ pc[c] = "report" /\ dead[c] = {}
    /\ ~hunted[c]
    /\ Pool!Merge
    /\ hunted' = [hunted EXCEPT ![c] = TRUE]
    /\ Goto(c, "begin")
    /\ UNCHANGED <<shown, picked, left, dialing, reports, open, beatVars,
                   recVars>>

\* Bug: the error path returns without a status.
DialFailsSilently(c) ==
    /\ pc[c] = "report" /\ dead[c] = {}
    /\ hunted' = [hunted EXCEPT ![c] = FALSE]
    /\ Goto(c, "idle")
    /\ UNCHANGED <<pool, shown, picked, left, dialing, reports, open, beatVars,
                   recVars>>

DialNoProxy(c) ==
    /\ pc[c] = "report" /\ dead[c] = {}
    /\ Show("no_proxy", "dial")
    /\ hunted' = [hunted EXCEPT ![c] = FALSE]
    /\ Goto(c, "idle")
    /\ UNCHANGED <<pool, picked, left, dialing, reports, open, beatVars,
                   recVars>>

Track(c) ==
    /\ pc[c] = "dialed"
    /\ open' = [open EXCEPT ![c] = picked[c]]
    /\ picked' = [picked EXCEPT ![c] = None]
    /\ moved' = TRUE
    /\ newer' = newer \cup {c}
    /\ Goto(c, "tracked")
    /\ UNCHANGED <<pool, shown, left, hunted, dialing, reports, beatVars, rec,
                   promoted>>

DialProtected(c) ==
    /\ pc[c] = "tracked"
    /\ Show("protected", "dial")
    /\ Goto(c, "relaying")
    /\ UNCHANGED <<pool, picked, left, hunted, dialing, reports, open,
                   beatVars, recVars>>

\* The tunnel closes while it relays: Discord or the proxy closed it.  Nothing
\* tells the status store.
TunnelCloses(c) ==
    /\ pc[c] = "relaying"
    /\ open' = [open EXCEPT ![c] = None]
    /\ newer' = newer \ {c}
    /\ Goto(c, "idle")
    /\ UNCHANGED <<pool, shown, picked, left, hunted, dialing, reports,
                   beatVars, rec, moved, promoted>>

-----------------------------------------------------------------------------
(* HeartbeatOnce, and the OnDead callback of Run.                          *)

BeatEvicts(e) ==
    /\ beat = "idle"
    /\ Hearts # {}
    /\ e \in Pooled
    /\ Pool!Drop(e)
    /\ victim' = e
    /\ beat' = "onDead"
    /\ UNCHANGED <<shown, dialVars, open, recVars>>

\* The status is written after the tunnels are closed, if there were any.
OnDeadCloses ==
    LET hit == {c \in Clients : open[c] = victim} IN
    /\ beat = "onDead"
    /\ CloseTunnels(hit)
    /\ victim' = None
    /\ beat' = IF hit = {} THEN "topUp" ELSE "closed"
    /\ UNCHANGED <<pool, shown, dialVars, rec, moved, promoted>>

OnDeadShows ==
    /\ beat = "closed"
    /\ Show("reconnecting", "heartbeat")
    /\ beat' = "topUp"
    /\ UNCHANGED <<pool, dialVars, open, victim, recVars>>

\* The next result, or the background refresh; it may find nothing.
BeatRefills ==
    /\ beat = "topUp"
    /\ Pool!Merge \/ UNCHANGED pool
    /\ beat' = "idle"
    /\ UNCHANGED <<shown, dialVars, open, victim, recVars>>

-----------------------------------------------------------------------------
(* RecoveryCoordinator.Recover; its gate admits one at a time.             *)

RecoverBegin ==
    /\ rec = "idle"
    /\ Show("reconnecting", "Recover")
    /\ rec' = IF pool = <<>> THEN "refresh" ELSE "mark"
    /\ UNCHANGED <<pool, dialVars, open, beatVars, moved, newer, promoted>>

RecoverRefreshes ==
    /\ rec = "refresh"
    /\ Pool!Merge
    /\ rec' = "mark"
    /\ UNCHANGED <<shown, dialVars, open, beatVars, moved, newer, promoted>>

RecoverNoProxy ==
    /\ rec = "refresh"
    /\ Show("no_proxy", "Recover")
    /\ rec' = "idle"
    /\ UNCHANGED <<pool, dialVars, open, beatVars, moved, newer, promoted>>

\* before := Generation()
RecoverMarks ==
    /\ rec = "mark"
    /\ moved' = FALSE
    /\ newer' = {}
    /\ rec' = "promote"
    /\ UNCHANGED <<pool, shown, dialVars, open, beatVars, promoted>>

RecoverPromotes ==
    /\ rec = "promote"
    /\ IF Len(pool) >= 2
       THEN Pool!Promote /\ promoted' = Head(pool)
       ELSE UNCHANGED <<pool, promoted>>
    /\ rec' = "closeAll"
    /\ UNCHANGED <<shown, dialVars, open, beatVars, moved, newer>>

\* Bug: the old tunnels are left to the bridge.
RecoverKeepsTunnels ==
    /\ rec = "closeAll"
    /\ rec' = "wait"
    /\ UNCHANGED <<pool, shown, dialVars, open, beatVars, moved, newer,
                   promoted>>

\* CloseAll; then the bridge asks Discord to close its own connections, which
\* makes clients close and dial again, as they may at any time.
RecoverCloses ==
    /\ rec = "closeAll"
    /\ CloseTunnels(Clients)
    /\ rec' = "wait"
    /\ UNCHANGED <<pool, shown, dialVars, beatVars, moved, promoted>>

RecoverSucceeds ==
    /\ rec = "wait"
    /\ moved /\ Live # {}
    /\ rec' = "connected"
    /\ UNCHANGED <<pool, shown, dialVars, open, beatVars, moved, newer,
                   promoted>>

RecoverTimesOut ==
    /\ rec = "wait"
    /\ rec' = "timedOut"
    /\ UNCHANGED <<pool, shown, dialVars, open, beatVars, moved, newer,
                   promoted>>

RecoverShows ==
    /\ rec \in {"connected", "timedOut"}
    /\ Show(IF rec = "connected" THEN "protected" ELSE "failed", "Recover")
    /\ rec' = "idle"
    /\ promoted' = None
    /\ moved' = FALSE /\ newer' = {}
    /\ UNCHANGED <<pool, dialVars, open, beatVars>>

-----------------------------------------------------------------------------
DialSteps(c) ==
    \/ DialBegin(c) \/ DialPick(c) \/ DialFails(c) \/ DialSucceeds(c)
    \/ DialGivesUp(c) \/ DialCompares(c)
    \/ (\E e \in Endpoints : ReportCloses(c, e)) \/ ReportShows(c)
    \/ DialHunts(c) \/ DialNoProxy(c) \/ Track(c) \/ DialProtected(c)

\* The context of Recover ends by its deadline, so it does not wait for ever.
RecoverSteps ==
    \/ RecoverRefreshes \/ RecoverNoProxy \/ RecoverMarks \/ RecoverPromotes
    \/ RecoverCloses \/ RecoverSucceeds \/ RecoverTimesOut \/ RecoverShows

BeatSteps == OnDeadCloses \/ OnDeadShows \/ BeatRefills

Next ==
    \/ \E c \in Clients :
         DialStart(c) \/ DialLock(c) \/ DialSteps(c) \/ TunnelCloses(c)
    \/ \E e \in Endpoints : BeatEvicts(e)
    \/ BeatSteps
    \/ RecoverBegin \/ RecoverSteps

Spec == Init /\ [][Next]_vars

\* The core's goroutines keep running; a relay whose tunnel was closed notices;
\* Discord opens its gateway connection again when it has lost it.
Fairness ==
    /\ \A c \in Clients :
         /\ WF_vars(DialSteps(c)) /\ SF_vars(DialLock(c))
         /\ WF_vars(DialStart(c))
         /\ WF_vars(open[c] = None /\ TunnelCloses(c))
    /\ WF_vars(BeatSteps)
    /\ WF_vars(RecoverSteps)

FairSpec == Spec /\ Fairness

-----------------------------------------------------------------------------
States == {"starting", "protected", "reconnecting", "no_proxy", "failed"}

\* Types, a pool without duplicates, dialMu held by the one client that dials.
TypeOK ==
    /\ pool \in Pool!Pools
    /\ status \in States
    /\ \A c \in Clients : pc[c] \in {"attempt", "dialing"} <=> dialing = c
    /\ \A c \in Clients : open[c] \in Endpoints \cup {None}
    /\ \A c \in Clients : open[c] # None => pc[c] \in {"tracked", "relaying"}
    /\ victim \in Endpoints \cup {None} /\ promoted \in Endpoints \cup {None}
    /\ newer \subseteq Live /\ moved \in BOOLEAN

\* Recover reports a new protected route only while a tunnel opened after it
\* began closing the old ones is there (recovery.go:91-120).
RecoveredHasTunnel ==
    [][rec = "wait" /\ rec' = "connected" => newer # {}]_vars

\* The HUD does not stay in "reconnecting" for ever (README.md:12).
ReconnectingEnds == (status = "reconnecting") ~> (status # "reconnecting")

\* Whoever else shows "reconnecting", a recovery, a dial, or a dial reporting
\* the endpoints it removed, replaces it before everything is quiet, whatever
\* ran at the same time: only the heartbeat's callback leaves it behind
\* (gateway.go:33-71, recovery.go:83-121, run.go:134-141).
Quiet ==
    /\ rec = "idle" /\ beat = "idle"
    /\ \A c \in Clients : pc[c] \in {"idle", "relaying"}
OnlyHeartbeatLingers ==
    Quiet /\ status = "reconnecting" => writer = "heartbeat"

\* A reconnection changes the proxy (README.md:11): when Recover succeeds after
\* promoting a reserve that is still in the pool, a tunnel uses another
\* endpoint than the one it replaced.
RecoverySwapsRoute ==
    [][rec = "wait" /\ rec' = "connected" /\ promoted # None
         /\ Pooled \ {promoted} # {} =>
            \E c \in Live : open[c] # promoted]_vars
=============================================================================
