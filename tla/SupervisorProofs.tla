-------------------------- MODULE SupervisorProofs --------------------------
(***************************************************************************)
(* One core at a time, and restarts that restart, for any number of        *)
(* restarts clicked at once and any number of launches.                    *)
(***************************************************************************)
EXTENDS Supervisor, TLAPS

\* A core whose done channel is closed has ended; only such a core is cleared.
EndedWhenDone == alive \cap done = {}

\* A restart that waits in Stop waits for the core it found, or for an older
\* one than what has been launched since its click; afterwards only such a core
\* is left to find.
StopFinishes ==
    \A r \in Restarters :
        /\ pc[r] \in {"stopping", "stopped"} =>
              process = 0 \/ process = mine[r] \/ process > since[r]
        /\ pc[r] = "launch" => process = 0 \/ process > since[r]
        /\ pc[r] \in {"wait", "killed"} => launched > since[r]

IInv == TypeOK /\ OneCore /\ EndedWhenDone /\ StopFinishes

LEMMA InitIInv == Init => IInv
<1> SUFFICES ASSUME Init PROVE IInv
  OBVIOUS
<1>1. pc \in [Threads -> Labels]
  BY DEF Init, Labels
<1>2. /\ process = 0 /\ launched = 0
      /\ alive = {} /\ done = {} /\ reaping = {}
      /\ mine \in [Threads -> {0}] /\ since \in [Restarters -> {0}]
      /\ 0 \in 0..MaxProcs /\ 0 \in 0..0
  BY MaxProcsAssumption DEF Init
<1>3. \A r \in Restarters : pc[r] = "idle"
  BY RestartersAssumption DEF Init, Threads
<1>4. TypeOK
  BY <1>1, <1>2 DEF TypeOK, Init
<1> QED
  BY <1>2, <1>3, <1>4 DEF IInv, OneCore, EndedWhenDone, StopFinishes

\* Where the calls return to.
LEMMA Returns ==
    ASSUME NEW g \in Threads
    PROVE  /\ AfterStop(g) \in Labels /\ AfterStart(g) \in Labels
           /\ g \in Restarters => AfterStop(g) = "launch" /\ AfterStart(g) = "enable"
           /\ AfterStop(g) \notin {"stopping", "stopped", "wait", "killed", "enable"}
           /\ AfterStart(g) \notin {"stopping", "stopped", "wait", "killed", "launch"}
  BY RestartersAssumption DEF AfterStop, AfterStart, Labels, Threads

\* Clearing a core that has ended leaves the one that runs named by process.
LEMMA Clearing ==
    ASSUME IInv, NEW p \in done, ClearProcess(p), UNCHANGED <<alive, launched>>
    PROVE  /\ process' \in 0..launched' /\ OneCore'
           /\ process' = 0 \/ process' = process
           /\ process' # p \/ process' = 0
  BY MaxProcsAssumption DEF IInv, TypeOK, OneCore, EndedWhenDone, ClearProcess

LEMMA StartStep ==
    ASSUME IInv, NEW g \in Threads, StartSteps(g)
    PROVE  IInv'
<1> USE MaxProcsAssumption DEF At, Goto, procVars, trayVars
<1>0. /\ AfterStart(g) \in Labels
      /\ AfterStart(g) \notin {"stopping", "stopped", "wait", "killed", "launch"}
      /\ {"wait", "killed", "failed"} \subseteq Labels
  BY Returns DEF Labels
<1>1. CASE StartFinds(g)
  BY <1>0, <1>1 DEF StartFinds, IInv, TypeOK, OneCore, EndedWhenDone,
     StopFinishes, Procs, Threads
<1>2. CASE Launch(g)
  <2>1. alive = {} /\ launched' \notin done /\ launched' > launched
    BY <1>2 DEF Launch, IInv, TypeOK, OneCore, Procs
  <2>2. TypeOK'
    BY <1>0, <1>2, <2>1 DEF Launch, IInv, TypeOK, Procs, Threads
  <2>3. OneCore' /\ EndedWhenDone'
    BY <1>2, <2>1 DEF Launch, IInv, EndedWhenDone, OneCore
  <2>4. StopFinishes'
    BY <1>2, <2>1 DEF Launch, IInv, TypeOK, StopFinishes, Threads
  <2> QED
    BY <2>2, <2>3, <2>4 DEF IInv
<1>3. CASE LaunchFails(g)
  BY <1>0, <1>3 DEF LaunchFails, IInv, TypeOK, OneCore, EndedWhenDone,
     StopFinishes, Procs, Threads
<1>4. CASE Ready(g)
  <2>0. /\ enabled' \in BOOLEAN
        /\ UNCHANGED <<process, launched, alive, done, reaping, since, quit,
                       gone, updating, request, installer>>
        /\ pc' = [pc EXCEPT ![g] = AfterStart(g)]
        /\ mine' = [mine EXCEPT ![g] = 0]
    BY <1>4 DEF Ready, IInv, TypeOK
  <2>1. TypeOK'
    <3>1. pc' \in [Threads -> Labels] /\ mine' \in [Threads -> 0..launched']
      BY <1>0, <2>0 DEF IInv, TypeOK
    <3> QED
      BY <2>0, <3>1 DEF IInv, TypeOK, Procs
  <2>2. StopFinishes'
    BY <1>0, <1>4 DEF Ready, IInv, TypeOK, StopFinishes, Threads
  <2> QED
    BY <1>4, <2>1, <2>2 DEF Ready, IInv, OneCore, EndedWhenDone
<1>5. CASE NotReady(g)
  <2>1. TypeOK'
    BY <1>0, <1>5 DEF NotReady, IInv, TypeOK, Procs, Threads
  <2>2. StopFinishes'
    BY <1>0, <1>5 DEF NotReady, IInv, TypeOK, StopFinishes, Threads
  <2> QED
    BY <1>5, <2>1, <2>2 DEF NotReady, IInv, OneCore, EndedWhenDone
<1>6. CASE StartFails(g)
  <2>1. /\ process' \in 0..launched' /\ OneCore'
        /\ process' = 0 \/ process' = process
    BY <1>6, Clearing DEF StartFails
  <2>2. TypeOK'
    BY <1>0, <1>6, <2>1 DEF StartFails, IInv, TypeOK, Procs, Threads
  <2>3. StopFinishes'
    BY <1>0, <1>6, <2>1 DEF StartFails, IInv, TypeOK, StopFinishes, Threads
  <2> QED
    BY <1>6, <2>1, <2>2, <2>3 DEF StartFails, IInv, EndedWhenDone
<1> QED
  BY <1>1, <1>2, <1>3, <1>4, <1>5, <1>6 DEF StartSteps

LEMMA StopStep ==
    ASSUME IInv, NEW g \in Threads, StopSteps(g)
    PROVE  IInv'
<1> USE MaxProcsAssumption DEF At, Goto, procVars, trayVars
<1>0. /\ AfterStop(g) \in Labels
      /\ AfterStop(g) \notin {"stopping", "stopped", "wait", "killed"}
      /\ {"stopping", "stopped"} \subseteq Labels
  BY Returns DEF Labels
<1>1. CASE StopBegins(g)
  BY <1>0, <1>1 DEF StopBegins, IInv, TypeOK, OneCore, EndedWhenDone,
     StopFinishes, Procs, Threads
<1>2. CASE StopKills(g)
  BY <1>0, <1>2 DEF StopKills, IInv, TypeOK, OneCore, EndedWhenDone,
     StopFinishes, Procs, Threads
<1>3. CASE StopReturns(g)
  <2>1. /\ process' \in 0..launched' /\ OneCore'
        /\ process' = 0 \/ process' = process
        /\ process' # mine[g] \/ process' = 0
    BY <1>3, Clearing DEF StopReturns
  <2>2. TypeOK'
    BY <1>0, <1>3, <2>1 DEF StopReturns, IInv, TypeOK, Procs, Threads
  <2>3. StopFinishes'
    BY <1>0, <1>3, <2>1 DEF StopReturns, IInv, TypeOK, StopFinishes, Threads
  <2> QED
    BY <1>3, <2>1, <2>2, <2>3 DEF StopReturns, IInv, EndedWhenDone
<1> QED
  BY <1>1, <1>2, <1>3 DEF StopSteps

LEMMA RestartStep ==
    ASSUME IInv, NEW r \in Restarters, Click(r) \/ RestartSteps(r)
    PROVE  IInv'
<1> USE DEF At, Goto, procVars, trayVars, IInv, TypeOK, OneCore, EndedWhenDone,
        StopFinishes, Procs, Threads, Labels
<1>1. CASE Click(r)
  BY <1>1 DEF Click
<1>2. CASE Disable(r)
  BY <1>2 DEF Disable
<1>3. CASE RestartReturns(r)
  BY <1>3 DEF RestartReturns
<1> QED
  BY <1>1, <1>2, <1>3 DEF RestartSteps

LEMMA CoreStep ==
    ASSUME IInv, ReapSteps \/ \E p \in Procs : CoreEnds(p)
    PROVE  IInv'
<1> USE DEF trayVars
<1>1. ASSUME NEW p \in Procs, CoreEnds(p) PROVE IInv'
  BY <1>1 DEF CoreEnds, IInv, TypeOK, OneCore, EndedWhenDone, StopFinishes,
     Procs
<1>2. ASSUME NEW p \in Procs, Reap(p) PROVE IInv'
  BY <1>2 DEF Reap, IInv, TypeOK, OneCore, EndedWhenDone, StopFinishes, Procs
<1>3. ASSUME NEW p \in Procs, ReaperClears(p) PROVE IInv'
  <2>1. /\ process' \in 0..launched' /\ OneCore'
        /\ process' = 0 \/ process' = process
    BY <1>3, Clearing DEF ReaperClears, IInv, TypeOK
  <2>2. TypeOK'
    BY <1>3, <2>1 DEF ReaperClears, IInv, TypeOK, Procs
  <2>3. StopFinishes'
    BY <1>3, <2>1 DEF ReaperClears, IInv, TypeOK, StopFinishes
  <2> QED
    BY <1>3, <2>1, <2>2, <2>3 DEF ReaperClears, IInv, EndedWhenDone
<1> QED
  BY <1>1, <1>2, <1>3 DEF ReapSteps

\* The goroutines that are not restarts, and the environment.
LEMMA TrayStep ==
    ASSUME IInv,
           \/ WatchTick \/ WatchEnds \/ QuitClicked \/ ExitSteps
           \/ \E kind \in {"valid", "invalid"} : RequestArrives(kind)
           \/ UpdateSteps \/ UpdateEnds
    PROVE  IInv'
<1> USE RestartersAssumption
    DEF At, Goto, procVars, trayVars, IInv, TypeOK, OneCore, EndedWhenDone,
        StopFinishes, Procs, Threads, Labels
<1>1. CASE WatchTick
  BY <1>1 DEF WatchTick
<1>2. CASE WatchEnds
  BY <1>2 DEF WatchEnds
<1>3. CASE QuitClicked
  BY <1>3 DEF QuitClicked
<1>4. CASE ExitBegins
  BY <1>4 DEF ExitBegins
<1>5. CASE TrayEnds
  BY <1>5 DEF TrayEnds
<1>6. ASSUME NEW kind \in {"valid", "invalid"}, RequestArrives(kind)
     PROVE IInv'
  BY <1>6 DEF RequestArrives
<1>7. CASE UpdateBegins
  BY <1>7 DEF UpdateBegins
<1>8. CASE UpdateEnds
  BY <1>8 DEF UpdateEnds
<1>9. CASE UpdateInvalid
  BY <1>9 DEF UpdateInvalid
<1>10. ASSUME NEW written \in BOOLEAN, UpdateLoads(written) PROVE IInv'
  BY <1>10 DEF UpdateLoads
<1>11. CASE SpawnInstaller
  BY <1>11 DEF SpawnInstaller
<1>12. CASE SpawnFails
  BY <1>12 DEF SpawnFails
<1> QED
  BY <1>1, <1>2, <1>3, <1>4, <1>5, <1>6, <1>7, <1>8, <1>9, <1>10, <1>11, <1>12
  DEF ExitSteps, UpdateSteps

LEMMA StepIInv == IInv /\ [Next]_vars => IInv'
<1>1. ASSUME IInv, UNCHANGED vars PROVE IInv'
  BY <1>1 DEF vars, procVars, trayVars, IInv, TypeOK, OneCore, EndedWhenDone,
     StopFinishes, Procs
<1> QED
  BY <1>1, StartStep, StopStep, RestartStep, CoreStep, TrayStep DEF Next

LEMMA Invariance == Spec => []IInv
  BY InitIInv, StepIInv, PTL DEF Spec

\* Whatever calls of Start, Restart and Stop overlap, one core runs at most,
\* and
\* it is the one the supervisor knows.
THEOREM OneCoreRuns == Spec => []OneCore
  BY Invariance, PTL DEF IInv

\* The types of the tray's threads and of the process they share
\* (supervisor.go:18-40, tray_windows.go:33-46).
THEOREM TypeCorrect == Spec => []TypeOK
  BY Invariance, PTL DEF IInv

\* A restart that succeeds is not satisfied with the core it was to replace.
THEOREM RestartsAreNew == Spec => RestartIsNew
<1>1. IInv /\ [Next]_vars =>
        [\A r \in Restarters :
            pc[r] # "enable" /\ pc'[r] = "enable" => launched > since[r]]_vars
  <2> SUFFICES ASSUME IInv, [Next]_vars, NEW r \in Restarters,
                      pc[r] # "enable", pc'[r] = "enable"
               PROVE  launched > since[r]
    OBVIOUS
  <2>0. /\ AfterStop(r) = "launch" /\ r \in Threads /\ pc \in [Threads -> Labels]
        /\ \A g \in Threads : AfterStop(g) # "enable"
    BY Returns DEF Threads, IInv, TypeOK
  <2>1. StartFinds(r) \/ Ready(r)
    <3>1. ASSUME NEW g \in Threads, StartSteps(g)
         PROVE StartFinds(r) \/ Ready(r)
      BY <2>0, <3>1 DEF StartSteps, StartFinds, Launch, LaunchFails, Ready,
         NotReady, StartFails, AfterStart, Goto, Threads
    <3>2. ASSUME NEW g \in Threads, StopSteps(g) PROVE FALSE
      BY <2>0, <3>2 DEF StopSteps, StopBegins, StopKills, StopReturns, Goto
    <3>3. ASSUME NEW q \in Restarters, Click(q) \/ RestartSteps(q) PROVE FALSE
      BY <2>0, <3>3 DEF Click, RestartSteps, Disable, RestartReturns, Goto
    <3>4. CASE ReapSteps \/ \E p \in Procs : CoreEnds(p)
      BY <3>4 DEF ReapSteps, Reap, ReaperClears, CoreEnds
    <3>5. CASE \/ WatchTick \/ WatchEnds \/ QuitClicked \/ ExitSteps
               \/ \E kind \in {"valid", "invalid"} : RequestArrives(kind)
               \/ UpdateSteps \/ UpdateEnds
      BY <2>0, <3>5, RestartersAssumption
      DEF WatchTick, WatchEnds, QuitClicked, ExitSteps, ExitBegins, TrayEnds,
          RequestArrives, UpdateSteps, UpdateBegins, UpdateInvalid,
          UpdateLoads,
          SpawnInstaller, SpawnFails, UpdateEnds, Goto
    <3>6. CASE UNCHANGED vars
      BY <3>6 DEF vars
    <3> QED
      BY <3>1, <3>2, <3>3, <3>4, <3>5, <3>6 DEF Next
  <2>2. CASE StartFinds(r)
    BY <2>2 DEF StartFinds, At, IInv, TypeOK, StopFinishes
  <2>3. CASE Ready(r)
    BY <2>3 DEF Ready, At, IInv, StopFinishes
  <2> QED
    BY <2>1, <2>2, <2>3
<1> QED
  BY <1>1, Invariance, PTL DEF Spec, RestartIsNew
=============================================================================
