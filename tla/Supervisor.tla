----------------------------- MODULE Supervisor -----------------------------
(***************************************************************************)
(* The tray process and the protection core it supervises                  *)
(* (internal/supervisor/supervisor.go, cmd/bigducks/tray_windows.go).      *)
(*                                                                         *)
(* Goroutines of the tray call Start, Restart and Stop concurrently:       *)
(*                                                                         *)
(*   "start"     startCore           Restarters   restartCore, by click    *)
(*   "watch"     watchCore           "update"     watchForUpdate           *)
(*   "exit"      onExit, after systray.Quit                                *)
(*                                                                         *)
(* Supervisor.mu is held for one action.  A core is the number of its      *)
(* launch.  It may end at any time, it may ignore a shutdown request, and  *)
(* it outlives the tray.                                                   *)
(***************************************************************************)
EXTENDS Naturals, FiniteSets

CONSTANTS
    Restarters,     \* goroutines of the menu's "Reiniciar"
    MaxProcs        \* bound: cores launched in a behaviour

ASSUME RestartersAssumption ==
    Restarters \cap {"start", "watch", "update", "exit"} = {}
ASSUME MaxProcsAssumption == MaxProcs \in Nat

VARIABLES
    process,        \* Supervisor.process (0: nil)
    launched,       \* cores launched so far
    alive,          \* the cores that run
    done,           \* cores whose done channel is closed
    reaping,        \* cores whose Wait goroutine has still to clear process
    pc, mine,       \* where a goroutine is, the core its call is about
    since,          \* history: launched when a restart was clicked
    enabled,        \* the menu's restart item
    quit,           \* systray.Quit was called
    gone,           \* the tray process has ended, with its goroutines
    updating,       \* trayController.updating
    request,        \* the update request in the data directory
    installer       \* the update installer was launched

procVars == <<process, launched, alive, done, reaping>>
trayVars == <<enabled, quit, gone, updating, request, installer>>
vars == <<procVars, pc, mine, since, trayVars>>

Threads == Restarters \cup {"start", "watch", "update", "exit"}
Procs == 1..launched
Goto(g, label) == pc' = [pc EXCEPT ![g] = label]
At(g, label) == ~gone /\ pc[g] = label

\* Where a goroutine goes on when Stop or Start returns.
AfterStop(g) == CASE g \in Restarters -> "launch"
                  [] g = "update" -> "spawn"
                  [] OTHER -> "over"
AfterStart(g) == CASE g \in Restarters -> "enable"
                   [] g = "watch" -> "tick"
                   [] OTHER -> "over"

Init ==
    /\ process = 0 /\ launched = 0
    /\ alive = {} /\ done = {} /\ reaping = {}
    /\ pc = [g \in Threads |-> CASE g = "start" -> "launch"
                                 [] g = "watch" -> "tick"
                                 [] g = "update" -> "poll"
                                 [] OTHER -> "idle"]
    /\ mine = [g \in Threads |-> 0]
    /\ since = [r \in Restarters |-> 0]
    /\ enabled = FALSE /\ quit = FALSE /\ gone = FALSE
    /\ updating = FALSE /\ request = "none" /\ installer = FALSE

-----------------------------------------------------------------------------
(* The core process, and the goroutine that waits for it.                  *)

CoreEnds(p) ==
    /\ p \in alive
    /\ alive' = alive \ {p}
    /\ UNCHANGED <<process, launched, done, reaping, pc, mine, since,
                   trayVars>>

\* Bug: done is not closed.
ReapUnclosed(p) ==
    /\ ~gone
    /\ p \in Procs \ (alive \cup done)
    /\ reaping' = reaping \cup {p}
    /\ UNCHANGED <<process, launched, alive, done, pc, mine, since, trayVars>>

Reap(p) ==
    /\ ~gone
    /\ p \in Procs \ (alive \cup done)
    /\ done' = done \cup {p}
    /\ reaping' = reaping \cup {p}
    /\ UNCHANGED <<process, launched, alive, pc, mine, since, trayVars>>

\* Bug: process is cleared whichever it is.
ClearAny(p) == process' = 0

ClearProcess(p) == process' = IF process = p THEN 0 ELSE process

\* Bug: the goroutine ends without clearing process.
ReaperForgets(p) ==
    /\ ~gone
    /\ p \in reaping
    /\ reaping' = reaping \ {p}
    /\ UNCHANGED <<process, launched, alive, done, pc, mine, since, trayVars>>

ReaperClears(p) ==
    /\ ~gone
    /\ p \in reaping
    /\ ClearProcess(p)
    /\ reaping' = reaping \ {p}
    /\ UNCHANGED <<launched, alive, done, pc, mine, since, trayVars>>

-----------------------------------------------------------------------------
(* Start.                                                                  *)

StartFinds(g) ==
    /\ At(g, "launch")
    /\ process # 0
    /\ Goto(g, AfterStart(g))
    /\ UNCHANGED <<procVars, mine, since, trayVars>>

Launch(g) ==
    /\ At(g, "launch")
    /\ process = 0
    /\ launched < MaxProcs
    /\ launched' = launched + 1
    /\ process' = launched'
    /\ alive' = alive \cup {launched'}
    /\ mine' = [mine EXCEPT ![g] = launched']
    /\ Goto(g, "wait")
    /\ UNCHANGED <<done, reaping, since, trayVars>>

LaunchFails(g) ==
    /\ At(g, "launch")
    /\ process = 0
    /\ Goto(g, IF g \in Restarters THEN "failed" ELSE AfterStart(g))
    /\ UNCHANGED <<procVars, mine, since, trayVars>>

\* waitReady: the control API of the core answers.
Ready(g) ==
    /\ At(g, "wait")
    /\ mine[g] \in alive
    /\ mine' = [mine EXCEPT ![g] = 0]
    /\ enabled' = IF g = "start" THEN TRUE ELSE enabled
    /\ Goto(g, AfterStart(g))
    /\ UNCHANGED <<procVars, since, quit, gone, updating, request, installer>>

\* waitReady: the core has ended, or a deadline passes; the core is killed.
NotReady(g) ==
    /\ At(g, "wait")
    /\ alive' = alive \ {mine[g]}
    /\ Goto(g, "killed")
    /\ UNCHANGED <<process, launched, done, reaping, mine, since, trayVars>>

StartFails(g) ==
    /\ At(g, "killed")
    /\ mine[g] \in done
    /\ ClearProcess(mine[g])
    /\ mine' = [mine EXCEPT ![g] = 0]
    /\ Goto(g, IF g \in Restarters THEN "failed" ELSE AfterStart(g))
    /\ UNCHANGED <<launched, alive, done, reaping, since, trayVars>>

-----------------------------------------------------------------------------
(* Stop.  Shutdown asks the core to end, which it may do at any time anyway. *)

StopBegins(g) ==
    /\ At(g, "stop")
    /\ mine' = [mine EXCEPT ![g] = process]
    /\ Goto(g, IF process = 0 THEN AfterStop(g) ELSE "stopping")
    /\ UNCHANGED <<procVars, since, trayVars>>

\* Bug: the core is asked, and never killed.
StopAsksOnly(g) ==
    /\ At(g, "stopping")
    /\ Goto(g, "stopped")
    /\ UNCHANGED <<procVars, mine, since, trayVars>>

\* StopWait or the context ends first.
StopKills(g) ==
    /\ At(g, "stopping")
    /\ alive' = alive \ {mine[g]}
    /\ Goto(g, "stopped")
    /\ UNCHANGED <<process, launched, done, reaping, mine, since, trayVars>>

\* Bug: clearing process is left to the goroutine that waits for the core.
StopReturnsUncleared(g) ==
    /\ pc[g] \in {"stopping", "stopped"} /\ ~gone
    /\ mine[g] \in done
    /\ mine' = [mine EXCEPT ![g] = 0]
    /\ Goto(g, AfterStop(g))
    /\ UNCHANGED <<procVars, since, trayVars>>

StopReturns(g) ==
    /\ pc[g] \in {"stopping", "stopped"} /\ ~gone
    /\ mine[g] \in done
    /\ ClearProcess(mine[g])
    /\ mine' = [mine EXCEPT ![g] = 0]
    /\ Goto(g, AfterStop(g))
    /\ UNCHANGED <<launched, alive, done, reaping, since, trayVars>>

-----------------------------------------------------------------------------
(* The tray.                                                               *)

\* The ticker of watchCore; after quit its select may still prefer it.
WatchTick ==
    /\ At("watch", "tick")
    /\ ~updating /\ process = 0
    /\ Goto("watch", "launch")
    /\ UNCHANGED <<procVars, mine, since, trayVars>>

WatchEnds ==
    /\ At("watch", "tick")
    /\ pc["exit"] # "idle"
    /\ Goto("watch", "over")
    /\ UNCHANGED <<procVars, mine, since, trayVars>>

\* The click starts a goroutine; only there is the item disabled.
Click(r) ==
    /\ At(r, "idle")
    /\ enabled /\ ~quit
    /\ since' = [since EXCEPT ![r] = launched]
    /\ Goto(r, "clicked")
    /\ UNCHANGED <<procVars, mine, trayVars>>

Disable(r) ==
    /\ At(r, "clicked")
    /\ enabled' = FALSE
    /\ Goto(r, "stop")
    /\ UNCHANGED <<procVars, mine, since, quit, gone, updating, request,
                   installer>>

RestartReturns(r) ==
    /\ At(r, "enable") \/ At(r, "failed")
    /\ enabled' = TRUE
    /\ Goto(r, "idle")
    /\ UNCHANGED <<procVars, mine, since, quit, gone, updating, request,
                   installer>>

QuitClicked ==
    /\ ~gone /\ ~quit
    /\ quit' = TRUE
    /\ UNCHANGED <<procVars, pc, mine, since, enabled, gone, updating,
                   request, installer>>

ExitBegins ==
    /\ At("exit", "idle")
    /\ quit
    /\ Goto("exit", "stop")
    /\ UNCHANGED <<procVars, mine, since, trayVars>>

\* onExit has returned: systray.Run returns and the process ends.
TrayEnds ==
    /\ At("exit", "over")
    /\ gone' = TRUE
    /\ UNCHANGED <<procVars, pc, mine, since, enabled, quit, updating,
                   request, installer>>

-----------------------------------------------------------------------------
(* Updates: the HUD leaves a request, the tray hands over to an installer. *)

RequestArrives(kind) ==
    /\ request = "none" /\ ~gone
    /\ request' = kind
    /\ UNCHANGED <<procVars, pc, mine, since, enabled, quit, gone, updating,
                   installer>>

UpdateBegins ==
    /\ At("update", "poll")
    /\ request # "none"
    /\ updating' = TRUE
    /\ Goto("update", "load")
    /\ UNCHANGED <<procVars, mine, since, enabled, quit, gone, request,
                   installer>>

UpdateEnds ==
    /\ At("update", "poll")
    /\ pc["exit"] # "idle"
    /\ Goto("update", "over")
    /\ UNCHANGED <<procVars, mine, since, trayVars>>

UpdateInvalid ==
    /\ At("update", "load")
    /\ request = "invalid"
    /\ updating' = FALSE
    /\ request' = "none"
    /\ Goto("update", "over")
    /\ UNCHANGED <<procVars, mine, since, enabled, quit, gone, installer>>

\* The request is written back with the tray's pid in it; that may fail.
UpdateLoads(written) ==
    /\ At("update", "load")
    /\ request = "valid"
    /\ updating' = written
    /\ Goto("update", IF written THEN "stop" ELSE "over")
    /\ UNCHANGED <<procVars, mine, since, enabled, quit, gone, request,
                   installer>>

SpawnInstaller ==
    /\ At("update", "spawn")
    /\ installer' = TRUE
    /\ quit' = TRUE
    /\ Goto("update", "over")
    /\ UNCHANGED <<procVars, mine, since, enabled, gone, updating, request>>

SpawnFails ==
    /\ At("update", "spawn")
    /\ updating' = FALSE
    /\ Goto("update", "launch")
    /\ UNCHANGED <<procVars, mine, since, enabled, quit, gone, request,
                   installer>>

-----------------------------------------------------------------------------
StartSteps(g) ==
    \/ StartFinds(g) \/ Launch(g) \/ LaunchFails(g)
    \/ Ready(g) \/ NotReady(g) \/ StartFails(g)
StopSteps(g) == StopBegins(g) \/ StopKills(g) \/ StopReturns(g)
ReapSteps == \E p \in Procs : Reap(p) \/ ReaperClears(p)
RestartSteps(r) == Disable(r) \/ RestartReturns(r)
UpdateSteps ==
    \/ UpdateBegins \/ UpdateInvalid \/ SpawnInstaller \/ SpawnFails
    \/ \E written \in BOOLEAN : UpdateLoads(written)
ExitSteps == ExitBegins \/ TrayEnds

\* What a goroutine does unless it waits for somebody.
Steps(g) ==
    \/ StartSteps(g) \/ StopSteps(g)
    \/ g \in Restarters /\ RestartSteps(g)
    \/ g = "watch" /\ WatchTick
    \/ g = "update" /\ UpdateSteps
    \/ g = "exit" /\ ExitSteps

Next ==
    \/ \E g \in Threads : StartSteps(g) \/ StopSteps(g)
    \/ \E r \in Restarters : Click(r) \/ RestartSteps(r)
    \/ ReapSteps
    \/ \E p \in Procs : CoreEnds(p)
    \/ WatchTick \/ WatchEnds
    \/ QuitClicked \/ ExitSteps
    \/ \E kind \in {"valid", "invalid"} : RequestArrives(kind)
    \/ UpdateSteps \/ UpdateEnds

Spec == Init /\ [][Next]_vars

\* The goroutines of the tray keep running, the ticker ticks, and launching the
\* core does not fail for ever.  Clicks, requests and the end of a core are not
\* assumed.
Fairness ==
    /\ WF_vars(ReapSteps)
    /\ \A g \in Threads : WF_vars(Steps(g))
    /\ SF_vars(Launch("watch"))

FairSpec == Spec /\ Fairness

-----------------------------------------------------------------------------
Labels == {"idle", "poll", "tick", "clicked", "stop", "stopping", "stopped",
           "launch", "wait", "killed", "enable", "failed", "load", "spawn",
           "over"}

TypeOK ==
    /\ launched \in 0..MaxProcs
    /\ process \in 0..launched
    /\ alive \subseteq Procs /\ done \subseteq Procs /\ reaping \subseteq done
    /\ pc \in [Threads -> Labels]
    /\ mine \in [Threads -> 0..launched]
    /\ since \in [Restarters -> 0..launched]
    /\ enabled \in BOOLEAN /\ quit \in BOOLEAN /\ gone \in BOOLEAN
    /\ updating \in BOOLEAN /\ installer \in BOOLEAN
    /\ request \in {"none", "valid", "invalid"}

\* Never two cores, which would fight for the relay's port and the control
\* file: whoever starts, restarts or stops, and however the calls overlap, the
\* core that runs is the one Supervisor.process names (supervisor.go:52-66).
OneCore == alive \subseteq {process}

\* A restart that reports success has launched a core since the click, or
\* somebody else has: it never takes the core it has just stopped for a new one
\* (supervisor.go:53-56, 146-148).
RestartIsNew ==
    [][\A r \in Restarters :
         pc[r] # "enable" /\ pc'[r] = "enable" => launched > since[r]]_vars

\* The tray supervises the core and restarts it when it ends (README.md:13),
\* unless the user quits or an update is being installed.
Down == ~gone /\ ~quit /\ ~updating /\ alive = {} /\ launched < MaxProcs
CoreComesBack == Down ~> ~Down

\* "Sair" ends the tray, whatever its goroutines are waiting for.
QuitEnds == quit ~> gone

\* "Sair" ends BIG DUCKS (README.md:43): the tray leaves no core behind.
NoOrphan == gone => alive = {}
=============================================================================
