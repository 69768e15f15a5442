--------------------------- MODULE TrackerProofs ---------------------------
(***************************************************************************)
(* Safety of the tunnel registry for any endpoints, any goroutines and any *)
(* bound on the number of tunnels.                                         *)
(***************************************************************************)
EXTENDS Tracker, TLAPS

\* The registry holds every tunnel nobody has begun to close, and none whose
\* socket is closed.
Registry ==
    /\ closed \subseteq entered
    /\ Ids \ entered \subseteq entries
    /\ closed \cap entries = {}

\* The goroutine inside a tunnel's sync.Once is the only one that can finish
\* its close, and the tunnel leaves the registry before its socket closes.
Holders ==
    \A t \in Threads :
        /\ pc[t] \in {"removing", "shutting"} <=> current[t] # 0
        /\ current[t] # 0 => current[t] \in (entered \cap targets[t]) \ closed
        /\ pc[t] = "shutting" => current[t] \notin entries

\* A CloseAll in progress still has to visit every registered tunnel that is
\* as old as the generation its caller read.
Sweep ==
    \A r \in Recoverers :
        pc[r] \in Closing =>
            \A id \in entries : id > after[r] \/ id \in targets[r]

\* What a close loop has won is closed.
WonIsClosed == \A t \in Threads : won[t] \subseteq closed

\* The inductive invariant.
IInv ==
    /\ TypeOK
    /\ NoLostWakeup
    /\ OldTunnelsGone
    /\ ClosedOnce
    /\ Registry
    /\ Holders
    /\ Sweep
    /\ WonIsClosed

LEMMA InitIInv == Init => IInv
  BY ThreadsAssumption, MaxTracksAssumption DEF Init, IInv, TypeOK,
     NoLostWakeup, OldTunnelsGone, ClosedOnce, Registry, Holders, Sweep,
     WonIsClosed, Threads, Ids, Closing, Labels

LEMMA StepTypeOK == IInv /\ [Next]_vars => TypeOK'
<1> USE ThreadsAssumption, MaxTracksAssumption
<1> SUFFICES ASSUME IInv, [Next]_vars PROVE TypeOK'
  OBVIOUS
<1>1. ASSUME NEW e \in Endpoints, Track(e) PROVE TypeOK'
  BY <1>1 DEF IInv, TypeOK, Track, SignalLocked, Ids, Labels, Closing, Threads
<1>2. ASSUME NEW t \in Closers, NEW id \in Ids, Close(t, id) PROVE TypeOK'
  BY <1>2 DEF IInv, TypeOK, Close, StartLoop, Goto, Ids, Labels, Closing,
     Threads
<1>3. ASSUME NEW t \in Closers, NEW e \in Endpoints, CloseEndpoint(t, e)
      PROVE TypeOK'
  BY <1>3 DEF IInv, TypeOK, CloseEndpoint, StartLoop, Goto, Ids, Labels,
     Closing, Threads
<1>4. ASSUME NEW t \in Threads, NEW id \in Ids, EnterOnce(t, id) PROVE TypeOK'
  BY <1>4 DEF IInv, TypeOK, EnterOnce, Goto, Ids, Labels, Closing, Threads
<1>5. ASSUME NEW t \in Threads, NEW id \in Ids, JoinOnce(t, id) PROVE TypeOK'
  BY <1>5 DEF IInv, TypeOK, JoinOnce, Ids, Labels, Closing, Threads
<1>6. ASSUME NEW t \in Threads, Remove(t) PROVE TypeOK'
  <2>1. /\ epoch' = epoch + 1
        /\ pc' = [pc EXCEPT ![t] = "shutting"]
        /\ entries' = entries \ {current[t]}
        /\ UNCHANGED <<generation, endpointOf, entered, closed, targets,
                       current, won, after, seen>>
    BY <1>6 DEF Remove, SignalLocked, Goto
  <2>2. epoch' \in Nat /\ seen' \in [Recoverers -> 0..epoch']
    BY <2>1 DEF IInv, TypeOK
  <2>3. pc' \in [Threads -> Labels]
    BY <2>1 DEF IInv, TypeOK, Labels, Closing
  <2> QED
    BY <2>1, <2>2, <2>3 DEF IInv, TypeOK, Ids
<1>7. ASSUME NEW t \in Threads, CloseSocket(t) PROVE TypeOK'
  BY <1>7 DEF IInv, TypeOK, CloseSocket, Goto, Ids, Labels, Closing, Threads,
     Holders
<1>8. ASSUME NEW t \in Threads, EndLoop(t) PROVE TypeOK'
  BY <1>8 DEF IInv, TypeOK, EndLoop, Goto, Ids, Labels, Closing, Threads
<1>9. ASSUME NEW r \in Recoverers, ReadGeneration(r) PROVE TypeOK'
  BY <1>9 DEF IInv, TypeOK, ReadGeneration, Goto, Ids, Labels, Closing, Threads
<1>10. ASSUME NEW r \in Recoverers, CloseAll(r) PROVE TypeOK'
  BY <1>10 DEF IInv, TypeOK, CloseAll, StartLoop, Goto, Ids, Labels, Closing,
     Threads
<1>11. ASSUME NEW r \in Recoverers, WaitReturns(r) PROVE TypeOK'
  BY <1>11 DEF IInv, TypeOK, WaitReturns, Goto, Ids, Labels, Closing, Threads
<1>12. ASSUME NEW r \in Recoverers, WaitParks(r) PROVE TypeOK'
  BY <1>12 DEF IInv, TypeOK, WaitParks, Goto, Ids, Labels, Closing, Threads
<1>13. ASSUME NEW r \in Recoverers, WaitWakes(r) PROVE TypeOK'
  BY <1>13 DEF IInv, TypeOK, WaitWakes, Goto, Ids, Labels, Closing, Threads
<1>14. ASSUME NEW r \in Recoverers, WaitTimesOut(r) PROVE TypeOK'
  BY <1>14 DEF IInv, TypeOK, WaitTimesOut, Goto, Ids, Labels, Closing, Threads
<1>15. CASE UNCHANGED vars
  BY <1>15 DEF IInv, TypeOK, vars, Ids
<1> QED
  BY <1>1, <1>2, <1>3, <1>4, <1>5, <1>6, <1>7, <1>8, <1>9, <1>10, <1>11,
     <1>12, <1>13, <1>14, <1>15 DEF Next, CloseSteps, WaitSteps

LEMMA StepIInv == IInv /\ [Next]_vars => IInv'
<1> USE ThreadsAssumption, MaxTracksAssumption
<1> SUFFICES ASSUME IInv, [Next]_vars PROVE IInv'
  OBVIOUS
<1> TypeOK'
  BY StepTypeOK
<1>1. ASSUME NEW e \in Endpoints, Track(e) PROVE IInv'
  <2>1. NoLostWakeup'
    BY <1>1 DEF IInv, TypeOK, NoLostWakeup, Ready, Track, SignalLocked, Ids,
       Closing, Labels, Threads
  <2>2. OldTunnelsGone'
    BY <1>1 DEF IInv, TypeOK, OldTunnelsGone, Registry, Sweep, Track,
       SignalLocked, Ids, Closing, Labels, Threads
  <2>3. ClosedOnce'
    BY <1>1 DEF IInv, TypeOK, ClosedOnce, Holders, WonIsClosed, Track,
       SignalLocked, Ids, Closing, Labels, Threads
  <2>4. Registry'
    BY <1>1 DEF IInv, TypeOK, Registry, Holders, Track, SignalLocked, Ids,
       Closing, Labels, Threads
  <2>5. Holders'
    BY <1>1 DEF IInv, TypeOK, Holders, ClosedOnce, Registry, Track,
       SignalLocked, Ids, Closing, Labels, Threads
  <2>6. Sweep'
    BY <1>1 DEF IInv, TypeOK, Sweep, Registry, Holders, OldTunnelsGone, Track,
       SignalLocked, Ids, Closing, Labels, Threads
  <2>7. WonIsClosed'
    BY <1>1 DEF IInv, TypeOK, WonIsClosed, Track, SignalLocked, Ids, Closing,
       Labels, Threads
  <2> QED
    BY <2>1, <2>2, <2>3, <2>4, <2>5, <2>6, <2>7 DEF IInv
<1>2. ASSUME NEW t \in Closers, NEW id \in Ids, Close(t, id) PROVE IInv'
  <2>1. NoLostWakeup'
    BY <1>2 DEF IInv, TypeOK, NoLostWakeup, Ready, Close, StartLoop, Goto, Ids,
       Closing, Labels, Threads
  <2>2. OldTunnelsGone'
    BY <1>2 DEF IInv, TypeOK, OldTunnelsGone, Registry, Sweep, Close, StartLoop,
       Goto, Ids, Closing, Labels, Threads
  <2>3. ClosedOnce'
    BY <1>2 DEF IInv, TypeOK, ClosedOnce, Holders, WonIsClosed, Close,
       StartLoop, Goto, Ids, Closing, Labels, Threads
  <2>4. Registry'
    BY <1>2 DEF IInv, TypeOK, Registry, Holders, Close, StartLoop, Goto, Ids,
       Closing, Labels, Threads
  <2>5. Holders'
    BY <1>2 DEF IInv, TypeOK, Holders, ClosedOnce, Registry, Close, StartLoop,
       Goto, Ids, Closing, Labels, Threads
  <2>6. Sweep'
    BY <1>2 DEF IInv, TypeOK, Sweep, Registry, Holders, OldTunnelsGone, Close,
       StartLoop, Goto, Ids, Closing, Labels, Threads
  <2>7. WonIsClosed'
    BY <1>2 DEF IInv, TypeOK, WonIsClosed, Close, StartLoop, Goto, Ids, Closing,
       Labels, Threads
  <2> QED
    BY <2>1, <2>2, <2>3, <2>4, <2>5, <2>6, <2>7 DEF IInv
<1>3. ASSUME NEW t \in Closers, NEW e \in Endpoints, CloseEndpoint(t, e)
     PROVE IInv'
  <2>1. NoLostWakeup'
    BY <1>3 DEF IInv, TypeOK, NoLostWakeup, Ready, CloseEndpoint, StartLoop,
       Goto, Ids, Closing, Labels, Threads
  <2>2. OldTunnelsGone'
    BY <1>3 DEF IInv, TypeOK, OldTunnelsGone, Registry, Sweep, CloseEndpoint,
       StartLoop, Goto, Ids, Closing, Labels, Threads
  <2>3. ClosedOnce'
    BY <1>3 DEF IInv, TypeOK, ClosedOnce, Holders, WonIsClosed, CloseEndpoint,
       StartLoop, Goto, Ids, Closing, Labels, Threads
  <2>4. Registry'
    BY <1>3 DEF IInv, TypeOK, Registry, Holders, CloseEndpoint, StartLoop, Goto,
       Ids, Closing, Labels, Threads
  <2>5. Holders'
    BY <1>3 DEF IInv, TypeOK, Holders, ClosedOnce, Registry, CloseEndpoint,
       StartLoop, Goto, Ids, Closing, Labels, Threads
  <2>6. Sweep'
    BY <1>3 DEF IInv, TypeOK, Sweep, Registry, Holders, OldTunnelsGone,
       CloseEndpoint, StartLoop, Goto, Ids, Closing, Labels, Threads
  <2>7. WonIsClosed'
    BY <1>3 DEF IInv, TypeOK, WonIsClosed, CloseEndpoint, StartLoop, Goto, Ids,
       Closing, Labels, Threads
  <2> QED
    BY <2>1, <2>2, <2>3, <2>4, <2>5, <2>6, <2>7 DEF IInv
<1>4. ASSUME NEW t \in Threads, NEW id \in Ids, EnterOnce(t, id) PROVE IInv'
  <2>1. NoLostWakeup'
    BY <1>4 DEF IInv, TypeOK, NoLostWakeup, Ready, EnterOnce, Goto, Ids,
       Closing, Labels, Threads
  <2>2. OldTunnelsGone'
    BY <1>4 DEF IInv, TypeOK, OldTunnelsGone, Registry, Sweep, EnterOnce, Goto,
       Ids, Closing, Labels, Threads
  <2>3. ClosedOnce'
    BY <1>4 DEF IInv, TypeOK, ClosedOnce, Holders, WonIsClosed, EnterOnce, Goto,
       Ids, Closing, Labels, Threads
  <2>4. Registry'
    BY <1>4 DEF IInv, TypeOK, Registry, Holders, EnterOnce, Goto, Ids, Closing,
       Labels, Threads
  <2>5. Holders'
    BY <1>4 DEF IInv, TypeOK, Holders, ClosedOnce, Registry, EnterOnce, Goto,
       Ids, Closing, Labels, Threads
  <2>6. Sweep'
    BY <1>4 DEF IInv, TypeOK, Sweep, Registry, Holders, OldTunnelsGone,
       EnterOnce, Goto, Ids, Closing, Labels, Threads
  <2>7. WonIsClosed'
    BY <1>4 DEF IInv, TypeOK, WonIsClosed, EnterOnce, Goto, Ids, Closing,
       Labels, Threads
  <2> QED
    BY <2>1, <2>2, <2>3, <2>4, <2>5, <2>6, <2>7 DEF IInv
<1>5. ASSUME NEW t \in Threads, NEW id \in Ids, JoinOnce(t, id) PROVE IInv'
  <2>1. NoLostWakeup'
    BY <1>5 DEF IInv, TypeOK, NoLostWakeup, Ready, JoinOnce, Ids, Closing,
       Labels, Threads
  <2>2. OldTunnelsGone'
    BY <1>5 DEF IInv, TypeOK, OldTunnelsGone, Registry, Sweep, JoinOnce, Ids,
       Closing, Labels, Threads
  <2>3. ClosedOnce'
    BY <1>5 DEF IInv, TypeOK, ClosedOnce, Holders, WonIsClosed, JoinOnce, Ids,
       Closing, Labels, Threads
  <2>4. Registry'
    BY <1>5 DEF IInv, TypeOK, Registry, Holders, JoinOnce, Ids, Closing, Labels,
       Threads
  <2>5. Holders'
    BY <1>5 DEF IInv, TypeOK, Holders, ClosedOnce, Registry, JoinOnce, Ids,
       Closing, Labels, Threads
  <2>6. Sweep'
    BY <1>5 DEF IInv, TypeOK, Sweep, Registry, Holders, OldTunnelsGone,
       JoinOnce, Ids, Closing, Labels, Threads
  <2>7. WonIsClosed'
    BY <1>5 DEF IInv, TypeOK, WonIsClosed, JoinOnce, Ids, Closing, Labels,
       Threads
  <2> QED
    BY <2>1, <2>2, <2>3, <2>4, <2>5, <2>6, <2>7 DEF IInv
<1>6. ASSUME NEW t \in Threads, Remove(t) PROVE IInv'
  <2>1. NoLostWakeup'
    BY <1>6 DEF IInv, TypeOK, NoLostWakeup, Ready, Remove, SignalLocked, Goto,
       Ids, Closing, Labels, Threads
  <2>2. OldTunnelsGone'
    BY <1>6 DEF IInv, TypeOK, OldTunnelsGone, Registry, Sweep, Remove,
       SignalLocked, Goto, Ids, Closing, Labels, Threads
  <2>3. ClosedOnce'
    BY <1>6 DEF IInv, TypeOK, ClosedOnce, Holders, WonIsClosed, Remove,
       SignalLocked, Goto, Ids, Closing, Labels, Threads
  <2>4. Registry'
    BY <1>6 DEF IInv, TypeOK, Registry, Holders, Remove, SignalLocked, Goto,
       Ids, Closing, Labels, Threads
  <2>5. Holders'
    BY <1>6 DEF IInv, TypeOK, Holders, ClosedOnce, Registry, Remove,
       SignalLocked, Goto, Ids, Closing, Labels, Threads
  <2>6. Sweep'
    BY <1>6 DEF IInv, TypeOK, Sweep, Registry, Holders, OldTunnelsGone, Remove,
       SignalLocked, Goto, Ids, Closing, Labels, Threads
  <2>7. WonIsClosed'
    BY <1>6 DEF IInv, TypeOK, WonIsClosed, Remove, SignalLocked, Goto, Ids,
       Closing, Labels, Threads
  <2> QED
    BY <2>1, <2>2, <2>3, <2>4, <2>5, <2>6, <2>7 DEF IInv
<1>7. ASSUME NEW t \in Threads, CloseSocket(t) PROVE IInv'
  <2>1. NoLostWakeup'
    BY <1>7 DEF IInv, TypeOK, NoLostWakeup, Ready, CloseSocket, Goto, Ids,
       Closing, Labels, Threads
  <2>2. OldTunnelsGone'
    BY <1>7 DEF IInv, TypeOK, OldTunnelsGone, Registry, Sweep, CloseSocket,
       Goto, Ids, Closing, Labels, Threads
  <2>3. ClosedOnce'
    BY <1>7 DEF IInv, TypeOK, ClosedOnce, Holders, WonIsClosed, CloseSocket,
       Goto, Ids, Closing, Labels, Threads
  <2>4. Registry'
    BY <1>7 DEF IInv, TypeOK, Registry, Holders, CloseSocket, Goto, Ids,
       Closing, Labels, Threads
  <2>5. Holders'
    BY <1>7 DEF IInv, TypeOK, Holders, ClosedOnce, Registry, CloseSocket, Goto,
       Ids, Closing, Labels, Threads
  <2>6. Sweep'
    BY <1>7 DEF IInv, TypeOK, Sweep, Registry, Holders, OldTunnelsGone,
       CloseSocket, Goto, Ids, Closing, Labels, Threads
  <2>7. WonIsClosed'
    BY <1>7 DEF IInv, TypeOK, WonIsClosed, CloseSocket, Goto, Ids, Closing,
       Labels, Threads
  <2> QED
    BY <2>1, <2>2, <2>3, <2>4, <2>5, <2>6, <2>7 DEF IInv
<1>8. ASSUME NEW t \in Threads, EndLoop(t) PROVE IInv'
  <2>1. NoLostWakeup'
    BY <1>8 DEF IInv, TypeOK, NoLostWakeup, Ready, EndLoop, Goto, Ids, Closing,
       Labels, Threads
  <2>2. OldTunnelsGone'
    BY <1>8 DEF IInv, TypeOK, OldTunnelsGone, Registry, Sweep, EndLoop, Goto,
       Ids, Closing, Labels, Threads
  <2>3. ClosedOnce'
    BY <1>8 DEF IInv, TypeOK, ClosedOnce, Holders, WonIsClosed, EndLoop, Goto,
       Ids, Closing, Labels, Threads
  <2>4. Registry'
    BY <1>8 DEF IInv, TypeOK, Registry, Holders, EndLoop, Goto, Ids, Closing,
       Labels, Threads
  <2>5. Holders'
    BY <1>8 DEF IInv, TypeOK, Holders, ClosedOnce, Registry, EndLoop, Goto, Ids,
       Closing, Labels, Threads
  <2>6. Sweep'
    BY <1>8 DEF IInv, TypeOK, Sweep, Registry, Holders, OldTunnelsGone, EndLoop,
       Goto, Ids, Closing, Labels, Threads
  <2>7. WonIsClosed'
    BY <1>8 DEF IInv, TypeOK, WonIsClosed, EndLoop, Goto, Ids, Closing, Labels,
       Threads
  <2> QED
    BY <2>1, <2>2, <2>3, <2>4, <2>5, <2>6, <2>7 DEF IInv
<1>9. ASSUME NEW r \in Recoverers, ReadGeneration(r) PROVE IInv'
  <2>1. NoLostWakeup'
    BY <1>9 DEF IInv, TypeOK, NoLostWakeup, Ready, ReadGeneration, Goto, Ids,
       Closing, Labels, Threads
  <2>2. OldTunnelsGone'
    BY <1>9 DEF IInv, TypeOK, OldTunnelsGone, Registry, Sweep, ReadGeneration,
       Goto, Ids, Closing, Labels, Threads
  <2>3. ClosedOnce'
    BY <1>9 DEF IInv, TypeOK, ClosedOnce, Holders, WonIsClosed, ReadGeneration,
       Goto, Ids, Closing, Labels, Threads
  <2>4. Registry'
    BY <1>9 DEF IInv, TypeOK, Registry, Holders, ReadGeneration, Goto, Ids,
       Closing, Labels, Threads
  <2>5. Holders'
    BY <1>9 DEF IInv, TypeOK, Holders, ClosedOnce, Registry, ReadGeneration,
       Goto, Ids, Closing, Labels, Threads
  <2>6. Sweep'
    BY <1>9 DEF IInv, TypeOK, Sweep, Registry, Holders, OldTunnelsGone,
       ReadGeneration, Goto, Ids, Closing, Labels, Threads
  <2>7. WonIsClosed'
    BY <1>9 DEF IInv, TypeOK, WonIsClosed, ReadGeneration, Goto, Ids, Closing,
       Labels, Threads
  <2> QED
    BY <2>1, <2>2, <2>3, <2>4, <2>5, <2>6, <2>7 DEF IInv
<1>10. ASSUME NEW r \in Recoverers, CloseAll(r) PROVE IInv'
  <2>1. NoLostWakeup'
    BY <1>10 DEF IInv, TypeOK, NoLostWakeup, Ready, CloseAll, StartLoop, Goto,
       Ids, Closing, Labels, Threads
  <2>2. OldTunnelsGone'
    BY <1>10 DEF IInv, TypeOK, OldTunnelsGone, Registry, Sweep, CloseAll,
       StartLoop, Goto, Ids, Closing, Labels, Threads
  <2>3. ClosedOnce'
    BY <1>10 DEF IInv, TypeOK, ClosedOnce, Holders, WonIsClosed, CloseAll,
       StartLoop, Goto, Ids, Closing, Labels, Threads
  <2>4. Registry'
    BY <1>10 DEF IInv, TypeOK, Registry, Holders, CloseAll, StartLoop, Goto,
       Ids, Closing, Labels, Threads
  <2>5. Holders'
    BY <1>10 DEF IInv, TypeOK, Holders, ClosedOnce, Registry, CloseAll,
       StartLoop, Goto, Ids, Closing, Labels, Threads
  <2>6. Sweep'
    BY <1>10 DEF IInv, TypeOK, Sweep, Registry, Holders, OldTunnelsGone,
       CloseAll, StartLoop, Goto, Ids, Closing, Labels, Threads
  <2>7. WonIsClosed'
    BY <1>10 DEF IInv, TypeOK, WonIsClosed, CloseAll, StartLoop, Goto, Ids,
       Closing, Labels, Threads
  <2> QED
    BY <2>1, <2>2, <2>3, <2>4, <2>5, <2>6, <2>7 DEF IInv
<1>11. ASSUME NEW r \in Recoverers, WaitReturns(r) PROVE IInv'
  <2>1. NoLostWakeup'
    BY <1>11 DEF IInv, TypeOK, NoLostWakeup, Ready, WaitReturns, Goto, Ids,
       Closing, Labels, Threads
  <2>2. OldTunnelsGone'
    BY <1>11 DEF IInv, TypeOK, OldTunnelsGone, Registry, Sweep, WaitReturns,
       Goto, Ids, Closing, Labels, Threads
  <2>3. ClosedOnce'
    BY <1>11 DEF IInv, TypeOK, ClosedOnce, Holders, WonIsClosed, WaitReturns,
       Goto, Ids, Closing, Labels, Threads
  <2>4. Registry'
    BY <1>11 DEF IInv, TypeOK, Registry, Holders, WaitReturns, Goto, Ids,
       Closing, Labels, Threads
  <2>5. Holders'
    BY <1>11 DEF IInv, TypeOK, Holders, ClosedOnce, Registry, WaitReturns, Goto,
       Ids, Closing, Labels, Threads
  <2>6. Sweep'
    BY <1>11 DEF IInv, TypeOK, Sweep, Registry, Holders, OldTunnelsGone,
       WaitReturns, Goto, Ids, Closing, Labels, Threads
  <2>7. WonIsClosed'
    BY <1>11 DEF IInv, TypeOK, WonIsClosed, WaitReturns, Goto, Ids, Closing,
       Labels, Threads
  <2> QED
    BY <2>1, <2>2, <2>3, <2>4, <2>5, <2>6, <2>7 DEF IInv
<1>12. ASSUME NEW r \in Recoverers, WaitParks(r) PROVE IInv'
  <2>1. NoLostWakeup'
    BY <1>12 DEF IInv, TypeOK, NoLostWakeup, Ready, WaitParks, Goto, Ids,
       Closing, Labels, Threads
  <2>2. OldTunnelsGone'
    BY <1>12 DEF IInv, TypeOK, OldTunnelsGone, Registry, Sweep, WaitParks, Goto,
       Ready, Ids, Closing, Labels, Threads
  <2>3. ClosedOnce'
    BY <1>12 DEF IInv, TypeOK, ClosedOnce, Holders, WonIsClosed, WaitParks,
       Goto, Ready, Ids, Closing, Labels, Threads
  <2>4. Registry'
    BY <1>12 DEF IInv, TypeOK, Registry, Holders, WaitParks, Goto, Ready, Ids,
       Closing, Labels, Threads
  <2>5. Holders'
    BY <1>12 DEF IInv, TypeOK, Holders, ClosedOnce, Registry, WaitParks, Goto,
       Ready, Ids, Closing, Labels, Threads
  <2>6. Sweep'
    BY <1>12 DEF IInv, TypeOK, Sweep, Registry, Holders, OldTunnelsGone,
       WaitParks, Goto, Ready, Ids, Closing, Labels, Threads
  <2>7. WonIsClosed'
    BY <1>12 DEF IInv, TypeOK, WonIsClosed, WaitParks, Goto, Ready, Ids,
       Closing, Labels, Threads
  <2> QED
    BY <2>1, <2>2, <2>3, <2>4, <2>5, <2>6, <2>7 DEF IInv
<1>13. ASSUME NEW r \in Recoverers, WaitWakes(r) PROVE IInv'
  <2>1. NoLostWakeup'
    BY <1>13 DEF IInv, TypeOK, NoLostWakeup, Ready, WaitWakes, Goto, Ids,
       Closing, Labels, Threads
  <2>2. OldTunnelsGone'
    BY <1>13 DEF IInv, TypeOK, OldTunnelsGone, Registry, Sweep, WaitWakes, Goto,
       Ids, Closing, Labels, Threads
  <2>3. ClosedOnce'
    BY <1>13 DEF IInv, TypeOK, ClosedOnce, Holders, WonIsClosed, WaitWakes,
       Goto, Ids, Closing, Labels, Threads
  <2>4. Registry'
    BY <1>13 DEF IInv, TypeOK, Registry, Holders, WaitWakes, Goto, Ids, Closing,
       Labels, Threads
  <2>5. Holders'
    BY <1>13 DEF IInv, TypeOK, Holders, ClosedOnce, Registry, WaitWakes, Goto,
       Ids, Closing, Labels, Threads
  <2>6. Sweep'
    BY <1>13 DEF IInv, TypeOK, Sweep, Registry, Holders, OldTunnelsGone,
       WaitWakes, Goto, Ids, Closing, Labels, Threads
  <2>7. WonIsClosed'
    BY <1>13 DEF IInv, TypeOK, WonIsClosed, WaitWakes, Goto, Ids, Closing,
       Labels, Threads
  <2> QED
    BY <2>1, <2>2, <2>3, <2>4, <2>5, <2>6, <2>7 DEF IInv
<1>14. ASSUME NEW r \in Recoverers, WaitTimesOut(r) PROVE IInv'
  <2>1. NoLostWakeup'
    BY <1>14 DEF IInv, TypeOK, NoLostWakeup, Ready, WaitTimesOut, Goto, Ids,
       Closing, Labels, Threads
  <2>2. OldTunnelsGone'
    BY <1>14 DEF IInv, TypeOK, OldTunnelsGone, Registry, Sweep, WaitTimesOut,
       Goto, Ids, Closing, Labels, Threads
  <2>3. ClosedOnce'
    BY <1>14 DEF IInv, TypeOK, ClosedOnce, Holders, WonIsClosed, WaitTimesOut,
       Goto, Ids, Closing, Labels, Threads
  <2>4. Registry'
    BY <1>14 DEF IInv, TypeOK, Registry, Holders, WaitTimesOut, Goto, Ids,
       Closing, Labels, Threads
  <2>5. Holders'
    BY <1>14 DEF IInv, TypeOK, Holders, ClosedOnce, Registry, WaitTimesOut,
       Goto, Ids, Closing, Labels, Threads
  <2>6. Sweep'
    BY <1>14 DEF IInv, TypeOK, Sweep, Registry, Holders, OldTunnelsGone,
       WaitTimesOut, Goto, Ids, Closing, Labels, Threads
  <2>7. WonIsClosed'
    BY <1>14 DEF IInv, TypeOK, WonIsClosed, WaitTimesOut, Goto, Ids, Closing,
       Labels, Threads
  <2> QED
    BY <2>1, <2>2, <2>3, <2>4, <2>5, <2>6, <2>7 DEF IInv
<1>15. CASE UNCHANGED vars
  BY <1>15 DEF IInv, TypeOK, NoLostWakeup, Ready, OldTunnelsGone, ClosedOnce,
     Registry, Holders, Sweep, WonIsClosed, vars, Ids
<1> QED
  BY <1>1, <1>2, <1>3, <1>4, <1>5, <1>6, <1>7, <1>8, <1>9, <1>10, <1>11,
     <1>12, <1>13, <1>14, <1>15 DEF Next, CloseSteps, WaitSteps

LEMMA Invariance == Spec => []IInv
  BY InitIInv, StepIInv, PTL DEF Spec

\* The registry and the goroutines' state keep their types.
THEOREM TypeCorrect == Spec => []TypeOK
<1>1. IInv => TypeOK
  BY DEF IInv
<1> QED
  BY <1>1, Invariance, PTL

\* A goroutine parked in WaitForConnection on the open channel never has its
\* condition true: no tunnel is announced between its check and its select
\* without waking it.
THEOREM WakeupsAreNotLost == Spec => []NoLostWakeup
<1>1. IInv => NoLostWakeup
  BY DEF IInv
<1> QED
  BY <1>1, Invariance, PTL

\* When Recover waits for a connection, CloseAll has taken every tunnel as old
\* as the rotation out of the registry.
THEOREM RotationClosesOldTunnels == Spec => []OldTunnelsGone
<1>1. IInv => OldTunnelsGone
  BY DEF IInv
<1> QED
  BY <1>1, Invariance, PTL

\* Concurrent closes of a tunnel remove and count it once.
THEOREM ClosesAreCountedOnce == Spec => []ClosedOnce
<1>1. IInv => ClosedOnce
  BY DEF IInv
<1> QED
  BY <1>1, Invariance, PTL

-----------------------------------------------------------------------------
(* Waits for a sync.Once.                                                  *)

\* A tunnel whose close has begun and not ended is in the hands of a
\* goroutine.
HasCloser ==
    \A id \in entered \ closed : \E t \in Threads : current[t] = id

\* A close loop that finds a tunnel another one is closing waits for a
\* goroutine that is between Enter and the end of its sync.Once, where it
\* waits for nobody.
JoinsHaveCloser ==
    \A t \in Threads : \A id \in targets[t] \cap entered :
        pc[t] = "closing" =>
            \/ id \in closed
            \/ \E u \in Threads \ {t} :
                  current[u] = id /\ pc[u] \in {"removing", "shutting"}

LEMMA StepHasCloser == IInv /\ HasCloser /\ [Next]_vars => HasCloser'
<1> SUFFICES ASSUME IInv, HasCloser, [Next]_vars PROVE HasCloser'
  OBVIOUS
<1>0. current \in [Threads -> {0} \cup Ids]
  BY DEF IInv, TypeOK
<1>1. CASE UNCHANGED <<entered, closed, current>>
  BY <1>1 DEF HasCloser
<1>2. ASSUME NEW t \in Threads, NEW id \in Ids, EnterOnce(t, id)
      PROVE  HasCloser'
  <2>1. /\ entered' = entered \cup {id} /\ closed' = closed
        /\ current' = [current EXCEPT ![t] = id] /\ current[t] = 0
    BY <1>2 DEF EnterOnce, IInv, Holders
  <2>2. current'[t] = id /\ \A u \in Threads : u # t => current'[u] = current[u]
    BY <1>0, <2>1
  <2>3. \A i \in entered : i # 0
    BY MaxTracksAssumption DEF IInv, TypeOK, Ids
  <2> QED
    BY <2>1, <2>2, <2>3 DEF HasCloser
<1>3. ASSUME NEW t \in Threads, CloseSocket(t) PROVE HasCloser'
  <2>1. /\ entered' = entered /\ closed' = closed \cup {current[t]}
        /\ current' = [current EXCEPT ![t] = 0]
    BY <1>3 DEF CloseSocket
  <2>2. \A u \in Threads : u # t => current'[u] = current[u]
    BY <1>0, <2>1
  <2> QED
    BY <2>1, <2>2 DEF HasCloser
<1> QED
  BY <1>1, <1>2, <1>3 DEF Next, CloseSteps, WaitSteps, Track, Close,
     CloseEndpoint, StartLoop, JoinOnce, Remove, EndLoop, ReadGeneration,
     CloseAll, WaitReturns, WaitParks, WaitWakes, WaitTimesOut, vars

\* No circle of close loops waiting for one another, however many goroutines
\* close however many tunnels (trackedConn.closeOnce, tracker.go:173).
THEOREM ClosersAreNotWaiting == Spec => []JoinsHaveCloser
<1>1. Init => HasCloser
  BY DEF Init, HasCloser
<1>2. ASSUME IInv, HasCloser PROVE JoinsHaveCloser
  <2> SUFFICES ASSUME NEW t \in Threads, NEW id \in targets[t] \cap entered,
                      pc[t] = "closing", id \notin closed
               PROVE  \E u \in Threads \ {t} :
                         current[u] = id /\ pc[u] \in {"removing", "shutting"}
    BY DEF JoinsHaveCloser
  <2>1. PICK u \in Threads : current[u] = id
    BY <1>2 DEF HasCloser
  <2>2. id # 0
    BY <1>2, MaxTracksAssumption DEF IInv, TypeOK, Ids
  <2>3. pc[u] \in {"removing", "shutting"}
    BY <1>2, <2>1, <2>2 DEF IInv, Holders
  <2> QED
    BY <2>1, <2>3
<1> QED
  BY <1>1, <1>2, Invariance, StepHasCloser, PTL DEF Spec

-----------------------------------------------------------------------------
(* Refinement of TunnelPromise.                                            *)

LEMMA PhaseIs == ASSUME NEW r \in Recoverers
                 PROVE  Phase[r] = IF pc[r] \in InWait THEN "waiting" ELSE pc[r]
  BY DEF Phase, InWait

LEMMA PromiseInit == Init => Promise!Init
<1> SUFFICES ASSUME Init PROVE Promise!Init
  OBVIOUS
<1>1. Phase = [r \in Recoverers |-> "idle"]
  BY DEF Init, Phase, InWait, Closing, Threads
<1> QED
  BY <1>1 DEF Init, Promise!Init, Phase

\* A step that changes one goroutine's label changes at most its phase.
LEMMA PhaseMoves ==
    ASSUME IInv, NEW r \in Recoverers, NEW l, pc' = [pc EXCEPT ![r] = l]
    PROVE  Phase' = [Phase EXCEPT ![r] = IF l \in InWait THEN "waiting" ELSE l]
  BY DEF Phase, InWait, Closing, IInv, TypeOK, Threads

\* A step of a closer, or one that stays inside the wait, changes no phase.
LEMMA PhaseStays ==
    ASSUME IInv, NEW t \in Threads, NEW l, pc' = [pc EXCEPT ![t] = l],
           t \in Recoverers => pc[t] \in InWait /\ l \in InWait
    PROVE  Phase' = Phase
  BY DEF Phase, InWait, Closing, IInv, TypeOK, Threads

LEMMA PromiseStep == IInv /\ [Next]_vars => [Promise!Next]_(Promise!vars)
<1> USE ThreadsAssumption, MaxTracksAssumption
<1> SUFFICES ASSUME IInv, [Next]_vars PROVE [Promise!Next]_(Promise!vars)
  OBVIOUS
<1> DEFINE Stutter == UNCHANGED <<generation, entries, after, Phase>>
<1>0. Stutter => UNCHANGED Promise!vars
  BY DEF Promise!vars, Phase
<1>1. ASSUME NEW e \in Endpoints, Track(e) PROVE Promise!Open
  <2>1. Phase' = Phase
    BY <1>1 DEF Track, Phase
  <2> QED
    BY <1>1, <2>1 DEF Track, Promise!Open, Phase
<1>2. ASSUME NEW t \in Closers, NEW id \in Ids, Close(t, id) PROVE Stutter
  BY <1>2, PhaseStays DEF Close, StartLoop, Goto, Threads
<1>3. ASSUME NEW t \in Closers, NEW e \in Endpoints, CloseEndpoint(t, e)
      PROVE Stutter
  BY <1>3, PhaseStays DEF CloseEndpoint, StartLoop, Goto, Threads
<1>4. ASSUME NEW t \in Threads, NEW id \in Ids, EnterOnce(t, id) PROVE Stutter
  BY <1>4, PhaseStays DEF EnterOnce, Goto, InWait, Closing
<1>5. ASSUME NEW t \in Threads, NEW id \in Ids, JoinOnce(t, id) PROVE Stutter
  BY <1>5 DEF JoinOnce, Phase
<1>6. ASSUME NEW t \in Threads, Remove(t) PROVE Promise!Drop \/ Stutter
  <2>1. Phase' = Phase
    BY <1>6, PhaseStays DEF Remove, Goto, InWait, Closing
  <2>2. CASE current[t] \in entries
    BY <1>6, <2>1, <2>2 DEF Remove, Promise!Drop, Phase
  <2>3. CASE current[t] \notin entries
    BY <1>6, <2>1, <2>3 DEF Remove
  <2> QED
    BY <2>2, <2>3
<1>7. ASSUME NEW t \in Threads, CloseSocket(t) PROVE Stutter
  BY <1>7, PhaseStays DEF CloseSocket, Goto, InWait, Closing
<1>8. ASSUME NEW t \in Threads, EndLoop(t) PROVE Stutter
  BY <1>8, PhaseStays DEF EndLoop, Goto, InWait, Closing
<1>9. ASSUME NEW r \in Recoverers, ReadGeneration(r) PROVE Promise!Begin(r)
  <2>1. Phase' = [Phase EXCEPT ![r] = "waiting"]
    BY <1>9, PhaseMoves DEF ReadGeneration, Goto, InWait
  <2>2. Phase[r] # "waiting"
    BY <1>9, PhaseIs DEF ReadGeneration, InWait, Closing
  <2> QED
    BY <1>9, <2>1, <2>2 DEF ReadGeneration, Promise!Begin, Phase
<1>10. ASSUME NEW r \in Recoverers, CloseAll(r) PROVE Stutter
  BY <1>10, PhaseStays DEF CloseAll, StartLoop, Goto, InWait, Closing, Threads
<1>11. ASSUME NEW r \in Recoverers, WaitReturns(r) PROVE Promise!Succeed(r)
  <2>1. Phase' = [Phase EXCEPT ![r] = "connected"]
    BY <1>11, PhaseMoves DEF WaitReturns, Goto, InWait, Closing
  <2>2. Phase[r] = "waiting"
    BY <1>11, PhaseIs DEF WaitReturns, InWait
  <2>3. \E id \in entries : id > after[r]
    BY <1>11 DEF WaitReturns, Ready, IInv, OldTunnelsGone
  <2> QED
    BY <1>11, <2>1, <2>2, <2>3 DEF WaitReturns, Promise!Succeed, Phase
<1>12. ASSUME NEW r \in Recoverers, WaitParks(r) PROVE Stutter
  BY <1>12, PhaseStays DEF WaitParks, Goto, InWait, Threads
<1>13. ASSUME NEW r \in Recoverers, WaitWakes(r) PROVE Stutter
  BY <1>13, PhaseStays DEF WaitWakes, Goto, InWait, Threads
<1>14. ASSUME NEW r \in Recoverers, WaitTimesOut(r) PROVE Promise!GiveUp(r)
  <2>1. Phase' = [Phase EXCEPT ![r] = "timedOut"]
    BY <1>14, PhaseMoves DEF WaitTimesOut, Goto, InWait, Closing
  <2>2. Phase[r] = "waiting"
    BY <1>14, PhaseIs DEF WaitTimesOut, InWait
  <2> QED
    BY <1>14, <2>1, <2>2 DEF WaitTimesOut, Promise!GiveUp, Phase
<1>15. ASSUME UNCHANGED vars PROVE Stutter
  BY <1>15 DEF vars, Phase
<1> QED
  BY <1>0, <1>1, <1>2, <1>3, <1>4, <1>5, <1>6, <1>7, <1>8, <1>9, <1>10,
     <1>11, <1>12, <1>13, <1>14, <1>15
  DEF Next, CloseSteps, WaitSteps, Promise!Next

\* The registry implements what it promises the recovery coordinator: a
\* rotation succeeds only while a tunnel opened after it is live.
THEOREM KeepsPromise == Spec => PromiseSpec
  BY Invariance, PromiseInit, PromiseStep, PTL DEF Spec, PromiseSpec,
     Promise!Spec
=============================================================================
