----------------------- MODULE GatewayRecoveryProofs -----------------------
(***************************************************************************)
(* What the HUD shows, and what a recovery may report, for any clients,    *)
(* endpoints and pool size, with or without a heartbeat.                   *)
(***************************************************************************)
EXTENDS GatewayRecovery, WellFoundedInduction, SequenceTheorems, TLAPS

Busy == {"begin", "lock", "attempt", "dialing", "dialed", "gaveUp", "report",
         "reportClosed", "tracked"}

\* pc and open are functions on the clients.
Shape ==
    /\ pc \in [Clients -> Busy \cup {"idle", "relaying"}]
    /\ open = [c \in Clients |-> open[c]]

\* Whoever showed "reconnecting" is still at work, unless it was the
\* heartbeat.
ReconnectingHasAnAuthor ==
    status = "reconnecting" =>
        \/ writer = "heartbeat"
        \/ writer = "Recover" /\ rec # "idle"
        \/ writer = "dial" /\ \E c \in Clients : pc[c] \in Busy

\* Once CloseAll is done, every open tunnel was tracked after the mark.
OnlyNewTunnels ==
    rec \in {"wait", "connected", "timedOut"} => Live \subseteq newer

IInv == Shape /\ ReconnectingHasAnAuthor /\ OnlyNewTunnels

LEMMA InitIInv == Init => IInv
  BY DEF Init, IInv, Shape, ReconnectingHasAnAuthor, OnlyNewTunnels

\* A dial that goes on from one busy label to another.
LEMMA StillBusy ==
    ASSUME IInv, NEW c \in Clients, pc[c] \in Busy, NEW l \in Busy, Goto(c, l),
           UNCHANGED <<shown, open, recVars>>
    PROVE  IInv'
  BY DEF IInv, Shape, ReconnectingHasAnAuthor, OnlyNewTunnels, Goto, shown,
     recVars, Live

\* The steps of one dial.
LEMMA DialStep ==
    ASSUME IInv, NEW c \in Clients,
           DialStart(c) \/ DialLock(c) \/ DialSteps(c) \/ TunnelCloses(c)
    PROVE  IInv'
<1> USE DEF Busy
<1>1. CASE DialStart(c)
  BY <1>1 DEF DialStart, Show, Goto, recVars, IInv, Shape,
     ReconnectingHasAnAuthor, OnlyNewTunnels, Live
<1>2. CASE DialLock(c)
  BY <1>2, StillBusy DEF DialLock
<1>3. CASE DialPick(c)
  BY <1>3, StillBusy DEF DialPick
<1>4. CASE DialFails(c)
  BY <1>4, StillBusy DEF DialFails
<1>5. CASE DialSucceeds(c)
  BY <1>5, StillBusy DEF DialSucceeds
<1>6. CASE DialGivesUp(c)
  BY <1>6, StillBusy DEF DialGivesUp
<1>7. CASE DialHunts(c)
  BY <1>7, StillBusy DEF DialHunts
<1>8. CASE DialNoProxy(c)
  BY <1>8 DEF DialNoProxy, Show, Goto, recVars, IInv, Shape,
     ReconnectingHasAnAuthor, OnlyNewTunnels, Live
<1>9. CASE Track(c)
  BY <1>9 DEF Track, Goto, shown, IInv, Shape, ReconnectingHasAnAuthor,
     OnlyNewTunnels, Live
<1>10. CASE DialProtected(c)
  BY <1>10 DEF DialProtected, Show, Goto, recVars, IInv, Shape,
     ReconnectingHasAnAuthor, OnlyNewTunnels, Live
<1>11. CASE DialBegin(c)
  BY <1>11, StillBusy DEF DialBegin
<1>12. CASE DialCompares(c)
  BY <1>12, StillBusy DEF DialCompares
<1>13. ASSUME NEW e \in Endpoints, ReportCloses(c, e) PROVE IInv'
  BY <1>13 DEF ReportCloses, CloseTunnels, Goto, shown, IInv, Shape,
     ReconnectingHasAnAuthor, OnlyNewTunnels, Live
<1>14. CASE ReportShows(c)
  BY <1>14 DEF ReportShows, Show, Goto, recVars, IInv, Shape,
     ReconnectingHasAnAuthor, OnlyNewTunnels, Live
<1>15. CASE TunnelCloses(c)
  BY <1>15 DEF TunnelCloses, Goto, shown, IInv, Shape, ReconnectingHasAnAuthor,
     OnlyNewTunnels, Live
<1> QED
  BY <1>1, <1>2, <1>3, <1>4, <1>5, <1>6, <1>7, <1>8, <1>9, <1>10, <1>11,
     <1>12, <1>13, <1>14, <1>15
  DEF DialSteps

\* The heartbeat closes tunnels and never opens one.
LEMMA BeatStep ==
    ASSUME IInv, (\E e \in Endpoints : BeatEvicts(e)) \/ BeatSteps
    PROVE  IInv'
<1> USE DEF IInv, Shape, ReconnectingHasAnAuthor, OnlyNewTunnels, Live
<1>1. ASSUME NEW e \in Endpoints, BeatEvicts(e) PROVE IInv'
  BY <1>1 DEF BeatEvicts, shown, dialVars, recVars
<1>2. CASE OnDeadCloses
  BY <1>2 DEF OnDeadCloses, CloseTunnels, shown, dialVars
<1>3. CASE OnDeadShows
  BY <1>3 DEF OnDeadShows, Show, dialVars, recVars
<1>4. CASE BeatRefills
  BY <1>4 DEF BeatRefills, shown, dialVars, recVars
<1> QED
  BY <1>1, <1>2, <1>3, <1>4 DEF BeatSteps

LEMMA RecoverStep ==
    ASSUME IInv, RecoverBegin \/ RecoverSteps
    PROVE  IInv'
<1> USE DEF IInv, Shape, ReconnectingHasAnAuthor, OnlyNewTunnels, Live
<1>1. CASE RecoverBegin
  BY <1>1 DEF RecoverBegin, Show, dialVars
<1>2. CASE RecoverRefreshes
  BY <1>2 DEF RecoverRefreshes, shown, dialVars
<1>3. CASE RecoverNoProxy
  BY <1>3 DEF RecoverNoProxy, Show, dialVars
<1>4. CASE RecoverMarks
  BY <1>4 DEF RecoverMarks, shown, dialVars
<1>5. CASE RecoverPromotes
  BY <1>5 DEF RecoverPromotes, shown, dialVars
<1>6. CASE RecoverCloses
  BY <1>6 DEF RecoverCloses, CloseTunnels, shown, dialVars
<1>7. CASE RecoverSucceeds
  BY <1>7 DEF RecoverSucceeds, shown, dialVars
<1>8. CASE RecoverTimesOut
  BY <1>8 DEF RecoverTimesOut, shown, dialVars
<1>9. CASE RecoverShows
  BY <1>9 DEF RecoverShows, Show, dialVars
<1> QED
  BY <1>1, <1>2, <1>3, <1>4, <1>5, <1>6, <1>7, <1>8, <1>9 DEF RecoverSteps

LEMMA StepIInv == IInv /\ [Next]_vars => IInv'
<1>1. ASSUME IInv, UNCHANGED vars PROVE IInv'
  BY <1>1 DEF vars, shown, dialVars, recVars, IInv, Shape,
     ReconnectingHasAnAuthor, OnlyNewTunnels, Live
<1> QED
  BY <1>1, DialStep, BeatStep, RecoverStep DEF Next

LEMMA Invariance == Spec => []IInv
  BY InitIInv, StepIInv, PTL DEF Spec

\* Only the heartbeat can leave "reconnecting" on the HUD when nothing is in
\* progress.
THEOREM ReconnectingIsReplaced == Spec => []OnlyHeartbeatLingers
<1>1. IInv => OnlyHeartbeatLingers
  BY DEF IInv, ReconnectingHasAnAuthor, OnlyHeartbeatLingers, Quiet, Busy
<1> QED
  BY <1>1, Invariance, PTL

\* A recovery reports success only over a tunnel opened after its mark.
THEOREM RecoveryFindsNewTunnel == Spec => RecoveredHasTunnel
<1>1. IInv /\ [Next]_vars =>
        [rec = "wait" /\ rec' = "connected" => newer # {}]_vars
  <2> SUFFICES ASSUME IInv, [Next]_vars, rec = "wait", rec' = "connected"
               PROVE  newer # {}
    OBVIOUS
  <2>1. RecoverSucceeds
    BY DEF Next, DialStart, DialLock, DialSteps, DialPick, DialFails,
       DialSucceeds, DialGivesUp, DialHunts, DialNoProxy, Track, DialProtected,
       DialBegin, DialCompares, ReportCloses, ReportShows, TunnelCloses,
       BeatEvicts, BeatSteps, OnDeadCloses, OnDeadShows, BeatRefills,
       RecoverBegin, RecoverSteps, RecoverRefreshes, RecoverNoProxy,
       RecoverMarks, RecoverPromotes, RecoverCloses, RecoverTimesOut,
       RecoverShows, vars, recVars
  <2> QED
    BY <2>1 DEF RecoverSucceeds, IInv, OnlyNewTunnels
<1> QED
  BY <1>1, Invariance, PTL DEF Spec, RecoveredHasTunnel

-----------------------------------------------------------------------------
(* What eviction and promotion leave of a pool.                            *)

\* Induction over the natural numbers, as a fact about sets of them: what
\* fails for some number fails for a least one.
LEMMA LeastNumber ==
    ASSUME NEW T, T \subseteq Nat, T # {}
    PROVE  \E m \in T : \A k \in T : m <= k
<1>1. IsWellFoundedOn(OpToRel(<,Nat), Nat)
  BY NatLessThanWellFounded
<1>2. PICK m \in T : \A k \in T : ~(<<k,m>> \in OpToRel(<,Nat))
  BY <1>1, WFMin
<1>3. \A k \in T : ~(k < m)
  BY <1>2 DEF OpToRel
<1> QED
  BY <1>3

LEMMA PoolMeaning ==
    ASSUME NEW s
    PROVE  s \in Pool!Pools <=>
             s \in Seq(Endpoints) /\ Len(s) <= PoolSize /\ Pool!IsInjective(s)
<1>1. ASSUME s \in Pool!Pools
      PROVE  s \in Seq(Endpoints) /\ Len(s) <= PoolSize /\ Pool!IsInjective(s)
  <2>1. PICK n \in 0..PoolSize : s \in [1..n -> Endpoints]
    BY <1>1 DEF Pool!Pools
  <2>2. n \in Nat /\ n <= PoolSize
    BY <2>1, SizeAssumption
  <2>3. s \in Seq(Endpoints)
    BY <2>1, <2>2, SeqDef
  <2>4. Len(s) = n
    BY <2>1, <2>2, <2>3, LenProperties
  <2> QED
    BY <1>1, <2>2, <2>3, <2>4 DEF Pool!Pools
<1>2. ASSUME s \in Seq(Endpoints), Len(s) <= PoolSize, Pool!IsInjective(s)
      PROVE  s \in Pool!Pools
  <2>1. Len(s) \in 0..PoolSize /\ s \in [1..Len(s) -> Endpoints]
    BY <1>2, SizeAssumption, LenProperties
  <2> QED
    BY <1>2, <2>1 DEF Pool!Pools
<1> QED
  BY <1>1, <1>2

\* Invalidate: the index its loop stops at, and what append leaves.
LEMMA FirstIndex ==
    ASSUME NEW s \in Seq(Endpoints), NEW e, \E i \in DOMAIN s : s[i] = e
    PROVE  \E i \in 1..Len(s) : s[i] = e /\ Pool!RemoveFirst(s, e) = Pool!RemoveAt(s, i)
<1> DEFINE T == {i \in 1..Len(s) : s[i] = e}
<1>1. DOMAIN s = 1..Len(s) /\ Len(s) \in Nat
  BY LenProperties
<1>2. T \subseteq Nat /\ T # {}
  BY <1>1
<1>3. Pool!Min(T) \in T
  <2> HIDE DEF T
  <2>1. \E m \in T : \A k \in T : m <= k
    BY <1>2, LeastNumber
  <2> QED
    BY <2>1 DEF Pool!Min
<1>4. Pool!RemoveFirst(s, e) = Pool!RemoveAt(s, Pool!Min(T))
  BY <1>1, <1>2 DEF Pool!RemoveFirst, Pool!SelectInSeq
<1> HIDE DEF T
<1>5. Pool!Min(T) \in 1..Len(s) /\ s[Pool!Min(T)] = e
  BY <1>3 DEF T
<1> QED
  BY <1>4, <1>5

LEMMA RemoveAtMeaning ==
    ASSUME NEW s \in Seq(Endpoints), NEW i \in 1..Len(s)
    PROVE  /\ Pool!RemoveAt(s, i) \in Seq(Endpoints)
           /\ Len(Pool!RemoveAt(s, i)) = Len(s) - 1
           /\ \A k \in 1..(Len(s) - 1) :
                Pool!RemoveAt(s, i)[k] = IF k < i THEN s[k] ELSE s[k + 1]
<1> DEFINE a == SubSeq(s, 1, i - 1)
           b == SubSeq(s, i + 1, Len(s))
<1>0. /\ Len(s) \in Nat /\ i \in Int /\ i - 1 \in Int /\ i + 1 \in Int
      /\ \A k \in 1..Len(s) : s[k] \in Endpoints
  BY LenProperties, ElementOfSeq
<1>1. /\ a \in Seq(Endpoints) /\ Len(a) = i - 1
      /\ \A k \in 1..(i - 1) : a[k] = s[k]
  <2>1. \A k \in 1..(i - 1) : s[k] \in Endpoints
    BY <1>0
  <2>2. /\ a \in Seq(Endpoints) /\ Len(a) = IF 1 <= i - 1 THEN (i - 1) - 1 + 1 ELSE 0
        /\ \A k \in 1..((i - 1) - 1 + 1) : a[k] = s[1 + k - 1]
    BY <1>0, <2>1, SubSeqProperties
  <2> HIDE DEF a
  <2> QED
    BY <1>0, <2>2
<1>2. /\ b \in Seq(Endpoints) /\ Len(b) = Len(s) - i
      /\ \A k \in 1..(Len(s) - i) : b[k] = s[i + k]
  <2>1. \A k \in (i + 1)..Len(s) : s[k] \in Endpoints
    BY <1>0
  <2>2. /\ b \in Seq(Endpoints)
        /\ Len(b) = IF i + 1 <= Len(s) THEN Len(s) - (i + 1) + 1 ELSE 0
        /\ \A k \in 1..(Len(s) - (i + 1) + 1) : b[k] = s[(i + 1) + k - 1]
    BY <1>0, <2>1, SubSeqProperties
  <2> HIDE DEF b
  <2> QED
    BY <1>0, <2>2
<1> HIDE DEF a, b
<1>3. /\ a \o b \in Seq(Endpoints)
      /\ Len(a \o b) = Len(a) + Len(b)
      /\ \A k \in 1..(Len(a) + Len(b)) :
            (a \o b)[k] = IF k <= Len(a) THEN a[k] ELSE b[k - Len(a)]
  BY <1>1, <1>2, ConcatProperties
<1>4. Pool!RemoveAt(s, i) = a \o b
  BY DEF Pool!RemoveAt, a, b
<1>5. ASSUME NEW k \in 1..(Len(s) - 1)
      PROVE  (a \o b)[k] = IF k < i THEN s[k] ELSE s[k + 1]
  <2>1. CASE k < i
    BY <1>0, <1>1, <1>2, <1>3, <2>1
  <2>2. CASE ~(k < i)
    <3>1. (a \o b)[k] = b[k - (i - 1)]
      BY <1>0, <1>1, <1>2, <1>3, <2>2
    <3>2. k - (i - 1) \in 1..(Len(s) - i) /\ i + (k - (i - 1)) = k + 1
      BY <1>0, <2>2
    <3> QED
      BY <1>2, <2>2, <3>1, <3>2
  <2> QED
    BY <2>1, <2>2
<1>6. Len(a) + Len(b) = Len(s) - 1
  BY <1>0, <1>1, <1>2
<1> QED
  BY <1>3, <1>4, <1>5, <1>6

\* Invalidate leaves a pool.
LEMMA RemovalMeaning ==
    ASSUME NEW e, pool \in Pool!Pools
    PROVE  Pool!RemoveFirst(pool, e) \in Pool!Pools
<1>0. pool \in Seq(Endpoints) /\ Len(pool) <= PoolSize /\ Pool!IsInjective(pool)
  BY PoolMeaning
<1>1. CASE e \notin Pooled
  BY <1>0, <1>1, LenProperties DEF Pool!RemoveFirst, Pooled
<1>2. CASE e \in Pooled
  <2>1. PICK i \in 1..Len(pool) : Pool!RemoveFirst(pool, e) = Pool!RemoveAt(pool, i)
    <3>1. \E j \in DOMAIN pool : pool[j] = e
      BY <1>2 DEF Pooled
    <3> QED
      BY <1>0, <3>1, FirstIndex
  <2> DEFINE r == Pool!RemoveAt(pool, i)
  <2>2. /\ r \in Seq(Endpoints) /\ Len(r) = Len(pool) - 1
        /\ \A k \in 1..(Len(pool) - 1) :
               r[k] = IF k < i THEN pool[k] ELSE pool[k + 1]
    BY <1>0, <2>1, RemoveAtMeaning
  <2>3. Pool!RemoveFirst(pool, e) = r
    BY <2>1 DEF r
  <2> HIDE DEF r
  <2>4. /\ Len(pool) \in Nat /\ DOMAIN pool = 1..Len(pool)
        /\ DOMAIN r = 1..(Len(pool) - 1)
    BY <1>0, <2>2, LenProperties
  <2> DEFINE from(k) == IF k < i THEN k ELSE k + 1
  <2>5. \A k \in DOMAIN r : from(k) \in 1..Len(pool) /\ r[k] = pool[from(k)]
    BY <2>1, <2>2, <2>4
  <2>6. Pool!IsInjective(r)
    <3> SUFFICES ASSUME NEW j \in DOMAIN r, NEW k \in DOMAIN r, r[j] = r[k]
                 PROVE  j = k
      BY DEF Pool!IsInjective
    <3>1. from(j) = from(k)
      BY <1>0, <2>4, <2>5 DEF Pool!IsInjective
    <3> QED
      BY <2>1, <2>4, <3>1
  <2>7. Len(r) <= PoolSize
    BY <1>0, <2>2, <2>4, SizeAssumption
  <2> QED
    BY <2>2, <2>3, <2>6, <2>7, PoolMeaning
<1> QED
  BY <1>1, <1>2

\* PromoteReserve leaves a pool, and what it moved was in it.
LEMMA RotationMeaning ==
    ASSUME pool \in Pool!Pools, Len(pool) >= 2
    PROVE  Append(Tail(pool), Head(pool)) \in Pool!Pools /\ Head(pool) \in Endpoints
<1> DEFINE n == Len(pool)
           t == Tail(pool)
           r == Append(t, Head(pool))
<1>1. /\ pool \in Seq(Endpoints) /\ n <= PoolSize /\ Pool!IsInjective(pool)
      /\ n \in Nat /\ DOMAIN pool = 1..n /\ pool # <<>>
  BY PoolMeaning, LenProperties, EmptySeq
<1>2. /\ Head(pool) \in Endpoints /\ Head(pool) = pool[1]
      /\ t \in Seq(Endpoints) /\ Len(t) = n - 1
      /\ \A i \in 1..Len(t) : t[i] = pool[i + 1]
  BY <1>1, HeadTailProperties
<1> HIDE DEF t
<1>3. /\ r \in Seq(Endpoints) /\ Len(r) = Len(t) + 1
      /\ \A i \in 1..Len(t) : r[i] = t[i]
      /\ r[Len(t) + 1] = pool[1]
  BY <1>2, AppendProperties
<1> HIDE DEF r
<1>4. /\ DOMAIN r = 1..n /\ Len(r) = n /\ r[n] = pool[1]
      /\ \A i \in 1..(n - 1) : r[i] = pool[i + 1]
  BY <1>1, <1>2, <1>3, LenProperties
<1> HIDE DEF n
<1> DEFINE from(k) == IF k = n THEN 1 ELSE k + 1
<1>5. \A k \in 1..n : from(k) \in 1..n /\ r[k] = pool[from(k)]
  BY <1>1, <1>4
<1>6. Pool!IsInjective(r)
  <2> SUFFICES ASSUME NEW j \in 1..n, NEW k \in 1..n, r[j] = r[k] PROVE j = k
    BY <1>4 DEF Pool!IsInjective
  <2>1. /\ from(j) \in DOMAIN pool /\ from(k) \in DOMAIN pool
        /\ pool[from(j)] = pool[from(k)]
    BY <1>1, <1>5
  <2>2. from(j) = from(k)
    <3> HIDE DEF from
    <3> QED
      BY <1>1, <2>1 DEF Pool!IsInjective
  <2> QED
    BY <1>1, <2>2
<1>7. r \in Pool!Pools
  BY <1>1, <1>3, <1>4, <1>6, PoolMeaning
<1> QED
  BY <1>2, <1>7 DEF r, t

-----------------------------------------------------------------------------
(* Types.  The holder of dialMu is the one client between DialLock and the *)
(* end of its dial, and it has chosen an endpoint before it tracks one.    *)
Types ==
    /\ pool \in Pool!Pools
    /\ status \in States
    /\ pc \in [Clients -> Busy \cup {"idle", "relaying"}]
    /\ picked \in [Clients -> Endpoints \cup {None}]
    /\ open \in [Clients -> Endpoints \cup {None}]
    /\ dialing \in Clients \cup {None}
    /\ victim \in Endpoints \cup {None} /\ promoted \in Endpoints \cup {None}
    /\ newer \subseteq Live /\ moved \in BOOLEAN
Holders ==
    \A c \in Clients :
        /\ pc[c] \in {"attempt", "dialing"} <=> dialing = c
        /\ pc[c] \in {"dialing", "dialed"} => picked[c] # None
        /\ open[c] # None => pc[c] \in {"tracked", "relaying"}
TypeInv == Types /\ Holders

LEMMA InitTypeInv == Init => TypeInv
  BY NoneAssumption DEF Init, TypeInv, Types, Holders, States, Busy, Live

\* A step that moves one client between labels and leaves the rest alone.
LEMMA MoveKeepsTypes ==
    ASSUME TypeInv, NEW c \in Clients, NEW l \in Busy \cup {"idle", "relaying"},
           Goto(c, l), UNCHANGED <<open, beatVars, recVars>>,
           pool' \in Pool!Pools, status' \in States,
           picked' \in [Clients -> Endpoints \cup {None}],
           \A d \in Clients : d # c => picked'[d] = picked[d],
           l \in {"dialing", "dialed"} => picked'[c] # None,
           open[c] # None => l \in {"tracked", "relaying"},
           dialing' \in Clients \cup {None},
           \A d \in Clients : d # c => (dialing' = d <=> dialing = d),
           l \in {"attempt", "dialing"} <=> dialing' = c
    PROVE  TypeInv'
<1>1. Types'
  BY DEF TypeInv, Types, Goto, beatVars, recVars, Live
<1>2. Holders'
  BY DEF TypeInv, Types, Holders, Goto
<1> QED
  BY <1>1, <1>2 DEF TypeInv

\* CloseTunnels leaves types alone.
LEMMA ClosingKeepsTypes ==
    ASSUME TypeInv, NEW cs \in SUBSET Clients, CloseTunnels(cs)
    PROVE  /\ open' \in [Clients -> Endpoints \cup {None}]
           /\ \A d \in Clients : open'[d] # None => open[d] # None
           /\ newer' \subseteq Live'
  BY DEF TypeInv, Types, CloseTunnels, Live

LEMMA DialTypes ==
    ASSUME TypeInv, NEW c \in Clients,
           DialStart(c) \/ DialLock(c) \/ DialSteps(c) \/ TunnelCloses(c)
    PROVE  TypeInv'
<1> USE NoneAssumption DEF Busy, States
<1>0. /\ pool \in Pool!Pools /\ status \in States /\ dialing \in Clients \cup {None}
      /\ picked \in [Clients -> Endpoints \cup {None}]
      /\ \A d \in Clients : pc[d] \in {"attempt", "dialing"} <=> dialing = d
      /\ pc[c] \in {"dialing", "dialed"} => picked[c] # None
      /\ open[c] # None => pc[c] \in {"tracked", "relaying"}
  BY DEF TypeInv, Types, Holders
<1>1. CASE DialStart(c)
  BY <1>0, <1>1, MoveKeepsTypes DEF DialStart, Show
<1>2. CASE DialLock(c)
  BY <1>0, <1>2, MoveKeepsTypes DEF DialLock, shown
<1>3. CASE DialPick(c)
  <2>1. Head(pool) \in Endpoints
    BY <1>0, <1>3, PoolMeaning, HeadTailProperties DEF DialPick
  <2> QED
    BY <1>0, <1>3, <2>1, MoveKeepsTypes DEF DialPick, shown
<1>4. CASE DialFails(c)
  BY <1>0, <1>4, RemovalMeaning, MoveKeepsTypes DEF DialFails, Pool!Drop, shown
<1>5. CASE DialSucceeds(c)
  BY <1>0, <1>5, MoveKeepsTypes DEF DialSucceeds, shown
<1>6. CASE DialGivesUp(c)
  BY <1>0, <1>6, MoveKeepsTypes DEF DialGivesUp, shown
<1>7. CASE DialHunts(c)
  BY <1>0, <1>7, MoveKeepsTypes DEF DialHunts, Pool!Merge, shown
<1>8. CASE DialNoProxy(c)
  BY <1>0, <1>8, MoveKeepsTypes DEF DialNoProxy, Show
<1>9. CASE Track(c)
  BY <1>9 DEF Track, Goto, shown, beatVars, TypeInv, Types, Holders, Live
<1>10. CASE DialProtected(c)
  BY <1>0, <1>10, MoveKeepsTypes DEF DialProtected, Show
<1>11. CASE DialBegin(c)
  BY <1>0, <1>11, MoveKeepsTypes DEF DialBegin, shown
<1>12. CASE DialCompares(c)
  BY <1>0, <1>12, MoveKeepsTypes DEF DialCompares, shown
<1>13. ASSUME NEW e \in Endpoints, ReportCloses(c, e) PROVE TypeInv'
  <2>1. CloseTunnels({d \in Clients : open[d] = e})
    BY <1>13 DEF ReportCloses
  <2>2. /\ open' \in [Clients -> Endpoints \cup {None}]
        /\ \A d \in Clients : open'[d] # None => open[d] # None
        /\ newer' \subseteq Live'
    BY <2>1, ClosingKeepsTypes
  <2> QED
    BY <1>13, <2>2 DEF ReportCloses, Goto, shown, beatVars, TypeInv, Types,
       Holders
<1>14. CASE ReportShows(c)
  BY <1>0, <1>14, MoveKeepsTypes DEF ReportShows, Show
<1>15. CASE TunnelCloses(c)
  BY <1>15 DEF TunnelCloses, Goto, shown, beatVars, TypeInv, Types, Holders,
     Live
<1> QED
  BY <1>1, <1>2, <1>3, <1>4, <1>5, <1>6, <1>7, <1>8, <1>9, <1>10, <1>11,
     <1>12, <1>13, <1>14, <1>15
  DEF DialSteps

LEMMA BeatTypes ==
    ASSUME TypeInv, (\E e \in Endpoints : BeatEvicts(e)) \/ BeatSteps
    PROVE  TypeInv'
<1> USE DEF TypeInv, Types, Holders
<1>1. ASSUME NEW e \in Endpoints, BeatEvicts(e) PROVE TypeInv'
  BY <1>1, RemovalMeaning DEF BeatEvicts, Pool!Drop, shown, dialVars, recVars,
     Live
<1>2. CASE OnDeadCloses
  <2>1. CloseTunnels({c \in Clients : open[c] = victim})
    BY <1>2 DEF OnDeadCloses
  <2>2. /\ open' \in [Clients -> Endpoints \cup {None}]
        /\ \A d \in Clients : open'[d] # None => open[d] # None
        /\ newer' \subseteq Live'
    BY <2>1, ClosingKeepsTypes
  <2> QED
    BY <1>2, <2>2 DEF OnDeadCloses, shown, dialVars
<1>3. CASE OnDeadShows
  BY <1>3 DEF OnDeadShows, Show, States, dialVars, recVars, Live
<1>4. CASE BeatRefills
  BY <1>4 DEF BeatRefills, Pool!Merge, shown, dialVars, recVars, Live
<1> QED
  BY <1>1, <1>2, <1>3, <1>4 DEF BeatSteps

LEMMA RecoverTypes ==
    ASSUME TypeInv, RecoverBegin \/ RecoverSteps
    PROVE  TypeInv'
<1> USE DEF TypeInv, Types, Holders, dialVars, beatVars
<1>1. CASE RecoverBegin
  BY <1>1 DEF RecoverBegin, Show, States, Live
<1>2. CASE RecoverRefreshes
  BY <1>2 DEF RecoverRefreshes, Pool!Merge, shown, Live
<1>3. CASE RecoverNoProxy
  BY <1>3 DEF RecoverNoProxy, Show, States, Live
<1>4. CASE RecoverMarks
  BY <1>4 DEF RecoverMarks, shown, Live
<1>5. CASE RecoverPromotes
  <2>1. pool' \in Pool!Pools /\ promoted' \in Endpoints \cup {None}
    BY <1>5, RotationMeaning DEF RecoverPromotes, Pool!Promote
  <2> QED
    BY <1>5, <2>1 DEF RecoverPromotes, shown, Live
<1>6. CASE RecoverCloses
  <2>1. CloseTunnels(Clients)
    BY <1>6 DEF RecoverCloses
  <2>2. /\ open' \in [Clients -> Endpoints \cup {None}]
        /\ \A d \in Clients : open'[d] # None => open[d] # None
        /\ newer' \subseteq Live'
    BY <2>1, ClosingKeepsTypes
  <2> QED
    BY <1>6, <2>2 DEF RecoverCloses, shown
<1>7. CASE RecoverSucceeds
  BY <1>7 DEF RecoverSucceeds, shown, Live
<1>8. CASE RecoverTimesOut
  BY <1>8 DEF RecoverTimesOut, shown, Live
<1>9. CASE RecoverShows
  BY <1>9 DEF RecoverShows, Show, States, Live
<1> QED
  BY <1>1, <1>2, <1>3, <1>4, <1>5, <1>6, <1>7, <1>8, <1>9 DEF RecoverSteps

LEMMA TypeStep == TypeInv /\ [Next]_vars => TypeInv'
<1>1. ASSUME TypeInv, UNCHANGED vars PROVE TypeInv'
  BY <1>1 DEF vars, shown, dialVars, beatVars, recVars, TypeInv, Types, Holders,
     Live
<1> QED
  BY <1>1, DialTypes, BeatTypes, RecoverTypes DEF Next

\* The types of the route and of the status, and one dial at a time under
\* dialMu, for any number of connections.
THEOREM TypeCorrect == Spec => []TypeOK
<1>1. TypeInv => TypeOK
  BY DEF TypeInv, Types, Holders, TypeOK
<1> QED
  BY <1>1, TypeStep, InitTypeInv, PTL DEF Spec

-----------------------------------------------------------------------------
(* Refinement of PoolPromise.                                              *)

\* What is removed without having been there leaves the pool as it is.
LEMMA RemovalDrops ==
    ASSUME pool \in Pool!Pools, NEW e, Pool!Drop(e)
    PROVE  [Pool!Next]_pool
<1>1. pool \in Seq(Endpoints) /\ DOMAIN pool = 1..Len(pool)
  BY PoolMeaning, LenProperties
<1>2. CASE e \in Pooled
  <2>1. e \in Endpoints
    BY <1>1, <1>2, ElementOfSeq DEF Pooled
  <2> QED
    BY <2>1 DEF Pool!Next
<1>3. CASE e \notin Pooled
  BY <1>1, <1>3 DEF Pool!Drop, Pool!RemoveFirst, Pooled
<1> QED
  BY <1>2, <1>3

\* Dials, hunts, the heartbeat and recoveries change the pool only as it
\* promises to: the same promise that ManagedPool's goroutines keep.
THEOREM PoolKeepsPromise == Spec => Pool!Spec
<1>1. ASSUME TypeInv, [Next]_vars PROVE [Pool!Next]_pool
  <2>0. pool \in Pool!Pools
    BY <1>1 DEF TypeInv, Types
  <2>1. ASSUME NEW c \in Clients,
               DialStart(c) \/ DialLock(c) \/ DialSteps(c) \/ TunnelCloses(c)
        PROVE  [Pool!Next]_pool
    <3>1. CASE DialFails(c)
      BY <2>0, <3>1, RemovalDrops DEF DialFails
    <3>2. CASE DialHunts(c)
      BY <3>2 DEF DialHunts, Pool!Next
    <3> QED
      BY <2>1, <3>1, <3>2 DEF DialStart, DialLock, DialSteps, DialBegin,
         DialPick, DialSucceeds, DialGivesUp, DialCompares, ReportCloses,
         ReportShows, DialNoProxy, Track, DialProtected, TunnelCloses
  <2>2. ASSUME NEW e \in Endpoints, BeatEvicts(e) PROVE [Pool!Next]_pool
    BY <2>2 DEF BeatEvicts, Pool!Next
  <2>3. CASE BeatSteps
    BY <2>3 DEF BeatSteps, OnDeadCloses, OnDeadShows, BeatRefills, Pool!Next
  <2>4. CASE RecoverBegin \/ RecoverSteps
    BY <2>4 DEF RecoverBegin, RecoverSteps, RecoverRefreshes, RecoverNoProxy,
       RecoverMarks, RecoverPromotes, RecoverCloses, RecoverSucceeds,
       RecoverTimesOut, RecoverShows, Pool!Next
  <2> QED
    BY <1>1, <2>1, <2>2, <2>3, <2>4 DEF Next, vars
<1>2. TypeInv /\ [Next]_vars => TypeInv'
  BY TypeStep
<1>3. Init => Pool!Init
  BY DEF Init, Pool!Init
<1> QED
  BY <1>1, <1>2, <1>3, InitTypeInv, PTL DEF Spec, Pool!Spec
=============================================================================
