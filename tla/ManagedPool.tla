---------------------------- MODULE ManagedPool ----------------------------
(***************************************************************************)
(* The pool of verified proxies (internal/proxy/pool.go) and its manager   *)
(* (internal/proxy/managed.go), driven by the goroutines that share it:    *)
(*                                                                         *)
(*   Dialers     relay connections: DialWithEndpoint, then Tracker.Track   *)
(*   Hearts      the heartbeat goroutine: HeartbeatOnce, again and again   *)
(*   Recoverers  Recover: Refresh when the pool is empty, PromoteReserve   *)
(*                                                                         *)
(* Pool.Mu, ManagedPool.mu and stateSaveMu are held for one action; dialMu *)
(* is the variable dialing, because it is held over the network.  A proxy  *)
(* is its endpoint: latency, country and time of check are left out.  The  *)
(* network answers a dial, a probe or a hunt as it likes.                  *)
(***************************************************************************)
EXTENDS Naturals, FiniteSets, SequencesExt

CONSTANTS
    Endpoints,
    Dialers, Hearts, Recoverers,
    PoolSize, MinReserves,
    None

ASSUME SizesAssumption == PoolSize \in Nat \ {0} /\ MinReserves \in Nat
ASSUME ThreadsAssumption ==
    /\ Dialers \cap Hearts = {}
    /\ Dialers \cap Recoverers = {}
    /\ Hearts \cap Recoverers = {}
    /\ None \notin Dialers \cup Hearts \cup Recoverers
    /\ \A h, k \in Hearts : h = k      \* Start runs one heartbeat at a time

Threads == Dialers \cup Hearts \cup Recoverers

VARIABLES
    entries,    \* Pool.Entries; the first one is dialled
    saved,      \* holders of a copy of the current pool: goroutines between
                \* their snapshot and their save, and "disk", the state file
    tunnels,    \* endpoints with a tracked tunnel (Tracker.InUse)
    pc,         \* where each goroutine is
    ret,        \* where a call of notifyChange returns to
    \* DialWithEndpoint
    dialing,    \* holder of dialMu
    before,     \* endpoints pooled before the dial, for reportDialRemovals
    limit,      \* maxAttempts
    attempts,
    picked,     \* the entry being dialled
    expired,    \* the caller's context has ended
    second,     \* this is the dial after the refresh
    dead,       \* endpoints still to hand to OnDead
    fresh,      \* history: endpoints merged since the dialer took dialMu
    \* Refresh
    flight,     \* the leader of the flight in progress
    answer,     \* what a Refresh has returned, or will to a follower
    cooling,    \* lastFailed is more recent than huntCooldown
    \* HeartbeatOnce
    pending,    \* probe results not handled yet
    failed,     \* the ones that are failures
    victim,     \* the endpoint being evicted
    misses,
    changed

dialVars == <<dialing, before, limit, attempts, picked, second, dead, fresh>>
refreshVars == <<flight, answer, cooling>>
beatVars == <<pending, failed, victim, misses, changed>>
vars == <<entries, saved, tunnels, pc, expired, ret, dialVars,
          refreshVars, beatVars>>

Goto(t, label) == pc' = [pc EXCEPT ![t] = label]
Pooled == {entries[i] : i \in DOMAIN entries}

\* Bug: merging without looking for duplicates.
FirstEntries(s, max) == SubSeq(s, 1, IF Len(s) < max THEN Len(s) ELSE max)

\* uniqueEntries: first occurrences, in order, at most max of them.
UniqueEntries(s, max) ==
    LET keep[i \in 0..Len(s)] ==
          IF i = 0 THEN <<>>
          ELSE LET kept == keep[i - 1] IN
               IF Len(kept) = max \/ \E k \in DOMAIN kept : kept[k] = s[i]
               THEN kept ELSE Append(kept, s[i])
    IN  keep[Len(s)]

\* Orders in which a hunt may return what it verified, fastest first.
Findings == {s \in UNION {[1..n -> Endpoints] : n \in 1..PoolSize} :
                \A i, j \in DOMAIN s : s[i] = s[j] => i = j}

\* A changed pool makes every copy of it out of date.
PoolBecomes(new) ==
    /\ entries' = new
    /\ saved' = IF new = entries THEN saved ELSE {}

Invalidate(e) == PoolBecomes(RemoveFirst(entries, e))

Init ==
    /\ entries \in Findings \cup {<<>>}
    /\ saved = {"disk"}
    /\ tunnels = {}
    /\ pc = [t \in Threads |-> "idle"]
    /\ ret = [t \in Threads |-> "idle"]
    /\ dialing = None
    /\ before = [d \in Dialers |-> {}]
    /\ limit = [d \in Dialers |-> 0]
    /\ attempts = [d \in Dialers |-> 0]
    /\ picked = [d \in Dialers |-> None]
    /\ expired = [d \in Dialers |-> FALSE]
    /\ second = [d \in Dialers |-> FALSE]
    /\ dead = [d \in Dialers |-> {}]
    /\ fresh = [d \in Dialers |-> {}]
    /\ flight = None
    /\ answer = [t \in Threads |-> "none"]
    /\ cooling = FALSE
    /\ pending = {}
    /\ failed = {}
    /\ victim = None
    /\ misses = [e \in Endpoints |-> 0]
    /\ changed = FALSE

-----------------------------------------------------------------------------
(* notifyChange: a snapshot, then OnChange saves it under its own mutex.   *)

NotifyChange(t) ==
    /\ pc[t] = "notify"
    /\ saved' = saved \cup {t}
    /\ Goto(t, "save")
    /\ UNCHANGED <<entries, tunnels, expired, ret, dialVars, refreshVars,
                   beatVars>>

SaveState(t) ==
    /\ pc[t] = "save"
    /\ saved' = IF t \in saved THEN (saved \cup {"disk"}) \ {t}
                ELSE saved \ {"disk"}
    /\ Goto(t, ret[t])
    /\ ret' = [ret EXCEPT ![t] = "idle"]
    /\ UNCHANGED <<entries, tunnels, expired, dialVars, refreshVars, beatVars>>

\* Goes through notifyChange to label, or straight there.
NotifyIf(cond, t, label) ==
    IF cond THEN Goto(t, "notify") /\ ret' = [ret EXCEPT ![t] = label]
            ELSE Goto(t, label) /\ UNCHANGED ret

-----------------------------------------------------------------------------
(* DialWithEndpoint of the manager and of the pool.                        *)

DialBegin(d) ==
    /\ pc[d] = "idle"
    /\ before' = [before EXCEPT ![d] = Pooled]
    /\ Goto(d, "lock")
    /\ UNCHANGED <<entries, saved, tunnels, expired, ret, dialing, limit,
                   attempts, picked, second, dead, fresh, refreshVars,
                   beatVars>>

\* The call returns; its locals die.
Return(d) ==
    /\ second' = [second EXCEPT ![d] = FALSE]
    /\ expired' = [expired EXCEPT ![d] = FALSE]
    /\ Goto(d, "idle")

\* Bug: dials without dialMu.
DialUnlocked(d) ==
    /\ pc[d] = "lock"
    /\ dialing' = d
    /\ limit' = [limit EXCEPT ![d] = Len(entries)]
    /\ Goto(d, "attempt")
    /\ UNCHANGED <<entries, saved, tunnels, expired, ret, before, attempts,
                   picked, second, dead, fresh, refreshVars, beatVars>>

\* Bug: the last entry is kept for later.
DialLockSkipsLast(d) ==
    /\ pc[d] = "lock"
    /\ dialing = None
    /\ dialing' = d
    /\ limit' = [limit EXCEPT ![d] = IF entries = <<>> THEN 0 ELSE Len(entries) - 1]
    /\ Goto(d, "attempt")
    /\ UNCHANGED <<entries, saved, tunnels, expired, ret, before, attempts,
                   picked, second, dead, fresh, refreshVars, beatVars>>

DialLock(d) ==
    /\ pc[d] = "lock"
    /\ dialing = None
    /\ dialing' = d
    /\ limit' = [limit EXCEPT ![d] = Len(entries)]
    /\ Goto(d, "attempt")
    /\ UNCHANGED <<entries, saved, tunnels, expired, ret, before, attempts,
                   picked, second, dead, fresh, refreshVars, beatVars>>

\* dialMu is released, and the loop's locals with it.
Unlock(d) ==
    /\ dialing' = None
    /\ limit' = [limit EXCEPT ![d] = 0]
    /\ attempts' = [attempts EXCEPT ![d] = 0]
    /\ fresh' = [fresh EXCEPT ![d] = {}]

DialPick(d) ==
    /\ pc[d] = "attempt"
    /\ attempts[d] < limit[d]
    /\ ~expired[d]
    /\ entries # <<>>
    /\ picked' = [picked EXCEPT ![d] = Head(entries)]
    /\ Goto(d, "dialing")
    /\ UNCHANGED <<entries, saved, tunnels, expired, ret, dialing, before,
                   limit, attempts, second, dead, fresh, refreshVars,
                   beatVars>>

\* The attempt fails, or the context ends while it runs.
DialFails(d) ==
    /\ pc[d] = "dialing"
    /\ Invalidate(picked[d])
    /\ picked' = [picked EXCEPT ![d] = None]
    /\ attempts' = [attempts EXCEPT ![d] = @ + 1]
    /\ Goto(d, "attempt")
    /\ UNCHANGED <<tunnels, expired, ret, dialing, before, limit,
                   second, dead, fresh, refreshVars, beatVars>>

DialGivesUp(d) ==
    /\ pc[d] = "attempt"
    /\ attempts[d] = limit[d] \/ expired[d] \/ entries = <<>>
    /\ Unlock(d)
    /\ Goto(d, "gaveUp")
    /\ UNCHANGED <<entries, saved, tunnels, expired, ret, before, picked,
                   second, dead, refreshVars, beatVars>>

DialSucceeds(d) ==
    /\ pc[d] = "dialing"
    /\ Unlock(d)
    /\ Goto(d, "dialed")
    /\ UNCHANGED <<entries, saved, tunnels, expired, ret, before, picked,
                   second, dead, refreshVars, beatVars>>

\* gatewayConnector.Dial hands the connection to the tracker.
Track(d) ==
    /\ pc[d] = "dialed"
    /\ tunnels' = tunnels \cup {picked[d]}
    /\ picked' = [picked EXCEPT ![d] = None]
    /\ before' = [before EXCEPT ![d] = {}]
    /\ Return(d)
    /\ UNCHANGED <<entries, saved, ret, dialing, limit, attempts, dead,
                   fresh, refreshVars, beatVars>>

\* reportDialRemovals compares the pool with the one before the dial.
ReportDialRemovals(d) ==
    /\ pc[d] = "gaveUp"
    /\ dead' = [dead EXCEPT ![d] = before[d] \ Pooled]
    /\ before' = [before EXCEPT ![d] = {}]
    /\ Goto(d, IF before[d] \subseteq Pooled THEN "reported" ELSE "report")
    /\ UNCHANGED <<entries, saved, tunnels, expired, ret, dialing, limit,
                   attempts, picked, second, fresh, refreshVars, beatVars>>

ReportDead(d, e) ==
    /\ pc[d] = "report"
    /\ e \in dead[d]
    /\ tunnels' = tunnels \ {e}
    /\ dead' = [dead EXCEPT ![d] = @ \ {e}]
    /\ IF dead[d] = {e} THEN NotifyIf(TRUE, d, "reported")
                        ELSE UNCHANGED <<pc, ret>>
    /\ UNCHANGED <<entries, saved, expired, dialing, before, limit,
                   attempts, picked, second, fresh, refreshVars, beatVars>>

DialAfterReport(d) ==
    /\ pc[d] = "reported"
    /\ IF expired[d] \/ second[d]
       THEN Return(d)
       ELSE Goto(d, "refresh") /\ UNCHANGED <<second, expired>>
    /\ UNCHANGED <<entries, saved, tunnels, ret, dialing, before, limit,
                   attempts, picked, dead, fresh, refreshVars, beatVars>>

DialRefreshed(d) ==
    /\ pc[d] = "refreshed"
    /\ IF answer[d] = "ok"
       THEN /\ before' = [before EXCEPT ![d] = Pooled]
            /\ second' = [second EXCEPT ![d] = TRUE]
            /\ Goto(d, "lock")
            /\ UNCHANGED expired
       ELSE Return(d) /\ UNCHANGED before
    /\ answer' = [answer EXCEPT ![d] = "none"]
    /\ UNCHANGED <<entries, saved, tunnels, ret, dialing, limit, attempts,
                   picked, dead, fresh, flight, cooling, beatVars>>

\* The deadline of the client's connection (relay Timeout).
ContextEnds(d) ==
    /\ pc[d] # "idle"
    /\ ~expired[d]
    /\ expired' = [expired EXCEPT ![d] = TRUE]
    /\ UNCHANGED <<entries, saved, tunnels, pc, ret, dialVars, refreshVars,
                   beatVars>>

-----------------------------------------------------------------------------
(* Refresh: one hunt at a time.  Only the heartbeat does not force it.     *)

Forced(t) == t \notin Hearts
Enough == Len(entries) >= PoolSize

RefreshJoins(t) ==
    /\ pc[t] = "refresh"
    /\ flight # None
    /\ Goto(t, "joined")
    /\ UNCHANGED <<entries, saved, tunnels, expired, ret, dialVars,
                   refreshVars, beatVars>>

RefreshSkips(t) ==
    /\ pc[t] = "refresh"
    /\ flight = None
    /\ ~Forced(t) /\ (Enough \/ cooling)
    /\ answer' = [answer EXCEPT ![t] = IF Enough THEN "ok" ELSE "failed"]
    /\ Goto(t, "refreshed")
    /\ UNCHANGED <<entries, saved, tunnels, expired, ret, dialVars, flight,
                   cooling, beatVars>>

\* Bug: the flight is looked up in another critical section.
RefreshLeadsToo(t) ==
    /\ pc[t] = "refresh"
    /\ Forced(t) \/ ~(Enough \/ cooling)
    /\ flight' = t
    /\ Goto(t, "hunt")
    /\ UNCHANGED <<entries, saved, tunnels, expired, ret, dialVars, answer,
                   cooling, beatVars>>

RefreshLeads(t) ==
    /\ pc[t] = "refresh"
    /\ flight = None
    /\ Forced(t) \/ ~(Enough \/ cooling)
    /\ flight' = t
    /\ Goto(t, "hunt")
    /\ UNCHANGED <<entries, saved, tunnels, expired, ret, dialVars, answer,
                   cooling, beatVars>>

\* The hunt returns verified endpoints: Merge, then notifyChange.
HuntFinds(t, found) ==
    LET merged == UniqueEntries(entries \o found, PoolSize)
        new == {merged[i] : i \in DOMAIN merged} \ Pooled
    IN
    /\ pc[t] = "hunt"
    /\ PoolBecomes(merged)
    /\ fresh' = [d \in Dialers |-> IF d = dialing THEN fresh[d] \cup new
                                   ELSE fresh[d]]
    /\ NotifyIf(TRUE, t, "found")
    /\ UNCHANGED <<tunnels, expired, dialing, before, limit,
                   attempts, picked, second, dead, refreshVars, pending,
                   failed, victim, misses, changed>>

HuntFails(t) ==
    /\ pc[t] = "hunt"
    /\ Goto(t, "notFound")
    /\ UNCHANGED <<entries, saved, tunnels, expired, ret, dialVars,
                   refreshVars, beatVars>>

\* Bug: the flight is cleared but its channel is not closed.
RefreshLandsAlone(t) ==
    LET outcome == IF pc[t] = "found" THEN "ok" ELSE "failed" IN
    /\ pc[t] \in {"found", "notFound"}
    /\ flight' = None
    /\ cooling' = (outcome = "failed")
    /\ answer' = [answer EXCEPT ![t] = outcome]
    /\ Goto(t, "refreshed")
    /\ UNCHANGED <<entries, saved, tunnels, expired, ret, dialVars, beatVars>>

\* The flight lands: its error is published and its channel closed.
RefreshLands(t) ==
    LET outcome == IF pc[t] = "found" THEN "ok" ELSE "failed" IN
    /\ pc[t] \in {"found", "notFound"}
    /\ flight' = None
    /\ cooling' = (outcome = "failed")
    /\ answer' = [u \in Threads |->
                    IF u = t \/ (pc[u] = "joined" /\ answer[u] = "none")
                    THEN outcome ELSE answer[u]]
    /\ Goto(t, "refreshed")
    /\ UNCHANGED <<entries, saved, tunnels, expired, ret, dialVars, beatVars>>

FollowerReturns(t) ==
    /\ pc[t] = "joined"
    /\ answer[t] # "none"
    /\ Goto(t, "refreshed")
    /\ UNCHANGED <<entries, saved, tunnels, expired, ret, dialVars,
                   refreshVars, beatVars>>

\* A dialer's wait budget or a recovery's context ends; the heartbeat's lasts
\* as long as the core.
FollowerTimesOut(t) ==
    /\ pc[t] = "joined"
    /\ t \notin Hearts
    /\ answer' = [answer EXCEPT ![t] = "failed"]
    /\ Goto(t, "refreshed")
    /\ UNCHANGED <<entries, saved, tunnels, expired, ret, dialVars, flight,
                   cooling, beatVars>>

CooldownEnds ==
    /\ cooling
    /\ cooling' = FALSE
    /\ UNCHANGED <<entries, saved, tunnels, pc, expired, ret, dialVars,
                   flight, answer, beatVars>>

-----------------------------------------------------------------------------
(* HeartbeatOnce.                                                          *)

BeatBegin(h) ==
    /\ pc[h] = "idle"
    /\ pending' = Pooled
    /\ changed' = FALSE
    /\ Goto(h, IF Pooled = {} THEN "topUp" ELSE "probe")
    /\ UNCHANGED <<entries, saved, tunnels, expired, ret, dialVars,
                   refreshVars, failed, victim, misses>>

\* Every probe has answered; the results come in any order.
BeatProbed(h, bad) ==
    /\ pc[h] = "probe"
    /\ bad \subseteq pending
    /\ failed' = bad
    /\ Goto(h, "judge")
    /\ UNCHANGED <<entries, saved, tunnels, expired, ret, dialVars,
                   refreshVars, pending, victim, misses, changed>>

Judge(h, e) ==
    LET threshold == IF e \in tunnels THEN 1 ELSE 2
        evict == e \in failed /\ misses[e] + 1 >= threshold
    IN
    /\ pc[h] = "judge"
    /\ e \in pending
    /\ misses' = [misses EXCEPT ![e] = IF e \in failed THEN @ + 1 ELSE 0]
    /\ pending' = pending \ {e}
    /\ victim' = IF evict THEN e ELSE None
    /\ Goto(h, IF evict THEN "evict" ELSE "judge")
    /\ UNCHANGED <<entries, saved, tunnels, expired, ret, dialVars,
                   refreshVars, failed, changed>>

\* Invalidate and the reset of misses, which only this goroutine touches.
Evict(h) ==
    /\ pc[h] = "evict"
    /\ Invalidate(victim)
    /\ misses' = [misses EXCEPT ![victim] = 0]
    /\ changed' = TRUE
    /\ Goto(h, "onDead")
    /\ UNCHANGED <<tunnels, expired, ret, dialVars, refreshVars,
                   pending, failed, victim>>

OnDead(h) ==
    /\ pc[h] = "onDead"
    /\ tunnels' = tunnels \ {victim}
    /\ victim' = None
    /\ Goto(h, "judge")
    /\ UNCHANGED <<entries, saved, expired, ret, dialVars, refreshVars,
                   pending, failed, misses, changed>>

BeatJudged(h) ==
    /\ pc[h] = "judge"
    /\ pending = {}
    /\ NotifyIf(changed, h, "topUp")
    /\ changed' = FALSE
    /\ failed' = {}
    /\ UNCHANGED <<entries, saved, tunnels, expired, dialVars,
                   refreshVars, pending, victim, misses>>

TopUp(h) ==
    LET desired == IF 1 + MinReserves > PoolSize THEN PoolSize
                   ELSE 1 + MinReserves
    IN
    /\ pc[h] = "topUp"
    /\ Goto(h, IF Len(entries) < desired THEN "refresh" ELSE "idle")
    /\ UNCHANGED <<entries, saved, tunnels, expired, ret, dialVars,
                   refreshVars, beatVars>>

BeatRefreshed(h) ==
    /\ pc[h] = "refreshed"
    /\ answer' = [answer EXCEPT ![h] = "none"]
    /\ Goto(h, "idle")
    /\ UNCHANGED <<entries, saved, tunnels, expired, ret, dialVars, flight,
                   cooling, beatVars>>

-----------------------------------------------------------------------------
(* Recover, as far as it touches the pool.                                 *)

RecoverBegin(r) ==
    /\ pc[r] = "idle"
    /\ Goto(r, IF entries = <<>> THEN "refresh" ELSE "promote")
    /\ UNCHANGED <<entries, saved, tunnels, expired, ret, dialVars,
                   refreshVars, beatVars>>

RecoverRefreshed(r) ==
    /\ pc[r] = "refreshed"
    /\ Goto(r, IF answer[r] = "ok" THEN "promote" ELSE "idle")
    /\ answer' = [answer EXCEPT ![r] = "none"]
    /\ UNCHANGED <<entries, saved, tunnels, expired, ret, dialVars, flight,
                   cooling, beatVars>>

PromoteReserve(r) ==
    /\ pc[r] = "promote"
    /\ PoolBecomes(IF Len(entries) < 2 THEN entries
                   ELSE Append(Tail(entries), Head(entries)))
    /\ NotifyIf(Len(entries) >= 2, r, "idle")
    /\ UNCHANGED <<tunnels, expired, dialVars, refreshVars, beatVars>>

\* A client closes the last tunnel of an endpoint, or CloseAll does.
TunnelsClose(e) ==
    /\ e \in tunnels
    /\ tunnels' = tunnels \ {e}
    /\ UNCHANGED <<entries, saved, pc, expired, ret, dialVars, refreshVars,
                   beatVars>>

-----------------------------------------------------------------------------
DialSteps(d) ==
    \/ DialPick(d) \/ DialFails(d) \/ DialGivesUp(d) \/ DialSucceeds(d)
    \/ Track(d) \/ ReportDialRemovals(d) \/ \E e \in Endpoints : ReportDead(d, e)
    \/ DialAfterReport(d) \/ DialRefreshed(d)

RefreshSteps(t) ==
    \/ RefreshJoins(t) \/ RefreshSkips(t) \/ RefreshLeads(t)
    \/ \E found \in Findings : HuntFinds(t, found)
    \/ HuntFails(t) \/ RefreshLands(t) \/ FollowerReturns(t)
    \/ NotifyChange(t) \/ SaveState(t)

BeatSteps(h) ==
    \/ \E bad \in SUBSET Endpoints : BeatProbed(h, bad)
    \/ \E e \in Endpoints : Judge(h, e)
    \/ Evict(h) \/ OnDead(h) \/ BeatJudged(h) \/ TopUp(h) \/ BeatRefreshed(h)

RecoverSteps(r) == RecoverRefreshed(r) \/ PromoteReserve(r)

Next ==
    \/ \E d \in Dialers :
         DialBegin(d) \/ DialLock(d) \/ DialSteps(d) \/ ContextEnds(d)
    \/ \E h \in Hearts : BeatBegin(h) \/ BeatSteps(h)
    \/ \E r \in Recoverers : RecoverBegin(r) \/ RecoverSteps(r)
    \/ \E t \in Threads : RefreshSteps(t) \/ FollowerTimesOut(t)
    \/ CooldownEnds
    \/ \E e \in Endpoints : TunnelsClose(e)

Spec == Init /\ [][Next]_vars

\* A call in progress keeps running: dials, probes and hunts have timeouts, so
\* the network always answers.  A goroutine waiting for dialMu gets it even
\* when others keep taking it: Go's mutex hands over to a starving waiter.
Fairness ==
    /\ \A d \in Dialers : WF_vars(DialSteps(d)) /\ SF_vars(DialLock(d))
    /\ \A h \in Hearts : WF_vars(BeatSteps(h))
    /\ \A r \in Recoverers : WF_vars(RecoverSteps(r))
    /\ \A t \in Threads : WF_vars(RefreshSteps(t))

FairSpec == Spec /\ Fairness

-----------------------------------------------------------------------------
Labels == {"idle", "notify", "save", "lock", "attempt", "dialing", "gaveUp",
           "dialed", "report", "reported", "refresh", "joined", "hunt", "found",
           "notFound", "refreshed", "probe", "judge", "evict", "onDead",
           "topUp", "promote"}

\* Types, and a pool that never holds an endpoint twice or more than PoolSize.
TypeOK ==
    /\ entries \in Findings \cup {<<>>}
    /\ saved \subseteq Threads \cup {"disk"}
    /\ tunnels \subseteq Endpoints
    /\ pc \in [Threads -> Labels]
    /\ ret \in [Threads -> {"idle", "reported", "found", "topUp"}]
    /\ dialing \in Dialers \cup {None}
    /\ before \in [Dialers -> SUBSET Endpoints]
    /\ limit \in [Dialers -> 0..PoolSize]
    /\ attempts \in [Dialers -> 0..PoolSize]
    /\ picked \in [Dialers -> Endpoints \cup {None}]
    /\ expired \in [Dialers -> BOOLEAN] /\ second \in [Dialers -> BOOLEAN]
    /\ dead \in [Dialers -> SUBSET Endpoints]
    /\ fresh \in [Dialers -> SUBSET Endpoints]
    /\ flight \in Threads \cup {None}
    /\ answer \in [Threads -> {"none", "ok", "failed"}]
    /\ cooling \in BOOLEAN
    /\ pending \subseteq Endpoints /\ failed \subseteq Endpoints
    /\ victim \in Endpoints \cup {None}
    /\ misses \in [Endpoints -> 0..2]
    /\ changed \in BOOLEAN

\* The goroutine that leads a flight, from its hunt to the landing.
Leads(t) ==
    \/ pc[t] \in {"hunt", "found", "notFound"}
    \/ pc[t] \in {"notify", "save"} /\ ret[t] = "found"

\* Never two hunts at once, and a follower that has no answer yet waits for a
\* flight that is still in the air: closing the flight's channel and clearing
\* m.flight in one critical section leaves nobody behind (managed.go:173-184).
OneFlight ==
    /\ \A t \in Threads : Leads(t) <=> flight = t
    /\ \A t \in Threads : pc[t] = "joined" /\ answer[t] = "none" => flight # None

\* A dial that gives up because it has used its attempts, and during which no
\* hunt landed, leaves the pool empty: it counted the entries once, before the
\* loop, but no rotation or eviction since then makes it skip one
\* (pool.go:52-86).
AttemptsCoverPool ==
    \A d \in Dialers :
        pc[d] = "attempt" /\ attempts[d] = limit[d] /\ fresh[d] = {} => Pooled = {}

\* A dial returns an endpoint nobody has removed while it was being dialled
\* (TestPoolConcurrentFailureCannotReturnRemovedActiveEndpoint).
ReturnedIsPooled ==
    [][\A d \in Dialers :
         pc[d] = "dialing" /\ pc'[d] = "dialed" => picked[d] \in Pooled]_vars

\* Whatever dials, hunts, the heartbeat and recoveries do at the same time, the
\* pool changes as GatewayRecovery takes it to: an endpoint leaves, new ones come
\* behind, or the first becomes the last (pool.go:89-119, managed.go:283-289).
Promise == INSTANCE PoolPromise WITH pool <- entries
PromiseSpec == Promise!Spec

\* Every dial, heartbeat and recovery ends: nobody waits forever for dialMu or
\* for a flight.
CallsEnd == \A t \in Threads : (pc[t] # "idle") ~> (pc[t] = "idle")
=============================================================================
