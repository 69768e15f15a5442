------------------------------- MODULE Update -------------------------------
(***************************************************************************)
(* A release reaches the executable (internal/update, internal/hud,        *)
(* cmd/bigducks/tray_windows.go).                                          *)
(*                                                                         *)
(* The panel checks, stages the payload and publishes a request; the tray  *)
(* adds its own process to it, starts the staged executable as installer   *)
(* and quits; the installer waits for the processes of the request,        *)
(* replaces the executable and starts it.  Any of them may be killed       *)
(* anywhere, and the user may start BIG DUCKS at any time.                 *)
(*                                                                         *)
(* A version stands for a signed manifest and the payload it describes:    *)
(* what does not verify is a check, a staging or an installer that fails.  *)
(* What the tray does with its core meanwhile is in Supervisor.            *)
(***************************************************************************)
EXTENDS Naturals, FiniteSets

CONSTANTS
    MaxVersion,     \* bound: the releases
    Installers,     \* bound: installer processes that may run at once
    MaxProcs,       \* bound: trays and panels started before an installer's
    MaxKills        \* bound: steps at which an installer is killed or fails

ASSUME UpdateAssumption ==
    MaxVersion \in Nat \ {0} /\ MaxProcs \in Nat /\ MaxKills \in Nat

Versions == 1..MaxVersion

VARIABLES
    release,        \* the latest release on the server
    target,         \* version of the executable (0: there is none)
    previous,       \* version of its .previous copy (0: there is none)
    request,        \* pending-update.json
    born,           \* processes started
    tray, hud,      \* the tray and the panel that run
    inst,           \* the installers
    scars           \* history: where installers were killed or failed, and ...

vars == <<release, target, previous, request, born, tray, hud, inst, scars>>

\* ... that two installers ran at once, or that a request was published or
\* taken when another was being served or had replaced the panel's version.
Crowd == "crowd"
Overlap == "overlap"

NoRequest == [v |-> 0, wait |-> {}]
NoTray == [pid |-> 0, runs |-> 0, phase |-> "none", copy |-> NoRequest]
NoHud == [pid |-> 0, runs |-> 0, result |-> 0, view |-> "none"]
NoInstaller == [pc |-> "none", v |-> 0, wait |-> {}]

Alive == {tray.pid, hud.pid} \ {0}
Idle(i) == inst[i] = NoInstaller
NoInstallerRuns == \A i \in Installers : Idle(i)
Now(i, label) == inst[i].pc = label
Step(i, label) == inst' = [inst EXCEPT ![i].pc = label]
Exit(i) == inst' = [inst EXCEPT ![i] = NoInstaller]
Updating == {"seen", "add", "spawn", "quit"}
MayHurt == Cardinality(scars \ {Crowd, Overlap}) < MaxKills

Init ==
    /\ release \in Versions /\ target \in Versions /\ previous = 0
    /\ request = NoRequest
    /\ born = 0 /\ tray = NoTray /\ hud = NoHud
    /\ inst = [i \in Installers |-> NoInstaller]
    /\ scars = {}

\* A release appears, or is withdrawn and an older one is the latest again.
Publish ==
    /\ \E v \in Versions \ {release} : release' = v
    /\ UNCHANGED <<target, previous, request, born, tray, hud, inst, scars>>

-----------------------------------------------------------------------------
(* The panel.                                                              *)

HudOpens ==
    /\ tray # NoTray /\ hud = NoHud /\ target # 0 /\ born < MaxProcs
    /\ born' = born + 1
    /\ hud' = [pid |-> born', runs |-> target, result |-> 0, view |-> "idle"]
    /\ UNCHANGED <<release, target, previous, request, tray, inst, scars>>

HudCloses ==
    /\ hud # NoHud
    /\ hud' = NoHud
    /\ UNCHANGED <<release, target, previous, request, born, tray, inst,
                   scars>>

CheckBegins ==
    /\ hud.view = "idle"
    /\ hud' = [hud EXCEPT !.view = "checking"]
    /\ UNCHANGED <<release, target, previous, request, born, tray, inst,
                   scars>>

\* Check compares with the version this panel runs; one that fails keeps the
\* result of an earlier one.
CheckEndsUnordered ==
    /\ hud.view = "checking"
    /\ \/ hud' = [hud EXCEPT !.view = "idle"]
       \/ hud' = [hud EXCEPT !.result = release, !.view = "available"]
    /\ UNCHANGED <<release, target, previous, request, born, tray, inst,
                   scars>>

CheckEnds ==
    /\ hud.view = "checking"
    /\ \/ hud' = [hud EXCEPT !.view = "idle"]
       \/ /\ release > hud.runs
          /\ hud' = [hud EXCEPT !.result = release, !.view = "available"]
       \/ /\ release <= hud.runs
          /\ hud' = [hud EXCEPT !.result = 0, !.view = "idle"]
    /\ UNCHANGED <<release, target, previous, request, born, tray, inst,
                   scars>>

\* installUpdate, with the result of the check it was offered after.
Stage ==
    /\ hud.view = "available"
    /\ hud' = [hud EXCEPT !.view = "staged"]
    /\ UNCHANGED <<release, target, previous, request, born, tray, inst,
                   scars>>

WriteRequestBare ==
    /\ hud.view = "staged"
    /\ request' = [v |-> hud.result, wait |-> {}]
    /\ hud' = [hud EXCEPT !.view = "closing"]
    /\ scars' = IF /\ hud.runs = target /\ tray.phase \notin Updating
                   /\ NoInstallerRuns
                THEN scars ELSE scars \cup {Overlap}
    /\ UNCHANGED <<release, target, previous, born, tray, inst>>

\* The page closes the window half a second later.
WriteRequest ==
    /\ hud.view = "staged"
    /\ request' = [v |-> hud.result, wait |-> {hud.pid}]
    /\ hud' = [hud EXCEPT !.view = "closing"]
    /\ scars' = IF /\ hud.runs = target /\ tray.phase \notin Updating
                   /\ NoInstallerRuns
                THEN scars ELSE scars \cup {Overlap}
    /\ UNCHANGED <<release, target, previous, born, tray, inst>>

-----------------------------------------------------------------------------
(* The tray.                                                               *)

NewTray ==
    /\ born' = born + 1
    /\ tray' = [pid |-> born', runs |-> target, phase |-> "poll",
                copy |-> NoRequest]

\* By its user or at login; the mutex lets one run.
TrayStarts ==
    /\ tray = NoTray /\ target # 0 /\ born < MaxProcs
    /\ NewTray
    /\ UNCHANGED <<release, target, previous, request, hud, inst, scars>>

TrayEnds ==
    /\ tray # NoTray
    /\ tray' = NoTray
    /\ UNCHANGED <<release, target, previous, request, born, hud, inst, scars>>

\* watchForUpdate and beginUpdate.
UpdateSees ==
    /\ tray.phase = "poll" /\ request # NoRequest /\ born < MaxProcs
    /\ tray' = [tray EXCEPT !.phase = "seen"]
    /\ scars' = IF NoInstallerRuns THEN scars ELSE scars \cup {Overlap}
    /\ UNCHANGED <<release, target, previous, request, born, hud, inst>>

UpdateReads ==
    /\ tray.phase = "seen" /\ request # NoRequest
    /\ tray' = [tray EXCEPT !.phase = "add", !.copy = request]
    /\ UNCHANGED <<release, target, previous, request, born, hud, inst, scars>>

UpdateAddsBare ==
    /\ tray.phase = "add"
    /\ request' = tray.copy
    /\ tray' = [tray EXCEPT !.phase = "spawn"]
    /\ UNCHANGED <<release, target, previous, born, hud, inst, scars>>

UpdateAdds ==
    /\ tray.phase = "add"
    /\ request' = [tray.copy EXCEPT !.wait = @ \cup {tray.pid}]
    /\ tray' = [tray EXCEPT !.phase = "spawn"]
    /\ UNCHANGED <<release, target, previous, born, hud, inst, scars>>

SpawnInstaller(i) ==
    /\ tray.phase = "spawn" /\ Idle(i)
    /\ Step(i, "load")
    /\ tray' = [tray EXCEPT !.phase = "quit"]
    /\ scars' = IF NoInstallerRuns THEN scars ELSE scars \cup {Crowd}
    /\ UNCHANGED <<release, target, previous, request, born, hud>>

\* The request is gone, or a step fails; watchForUpdate has returned: this tray
\* looks for no other request.
UpdateFails ==
    /\ tray.phase \in {"add", "spawn"} \/ (tray.phase = "seen" /\ request = NoRequest)
    /\ tray' = [tray EXCEPT !.phase = "deaf"]
    /\ UNCHANGED <<release, target, previous, request, born, hud, inst, scars>>

-----------------------------------------------------------------------------
(* The installer: ApplyFromRequest, apply, replaceExecutable.              *)

Load(i) ==
    /\ Now(i, "load") /\ request # NoRequest
    /\ inst' = [inst EXCEPT ![i] = [pc |-> "wait", v |-> request.v,
                                    wait |-> request.wait]]
    /\ UNCHANGED <<release, target, previous, request, born, tray, hud, scars>>

LoadFails(i) ==
    /\ Now(i, "load") /\ request = NoRequest
    /\ Exit(i)
    /\ UNCHANGED <<release, target, previous, request, born, tray, hud, scars>>

Waited(i) ==
    /\ Now(i, "wait") /\ inst[i].wait \cap Alive = {}
    /\ Step(i, "backup")
    /\ UNCHANGED <<release, target, previous, request, born, tray, hud, scars>>

Backup(i) ==
    /\ Now(i, "backup") /\ target # 0
    /\ previous' = target /\ target' = 0
    /\ Step(i, "put")
    /\ UNCHANGED <<release, request, born, tray, hud, scars>>

BackupFails(i) ==
    /\ Now(i, "backup") /\ target = 0
    /\ Exit(i)
    /\ UNCHANGED <<release, target, previous, request, born, tray, hud, scars>>

PutNew(i) ==
    /\ Now(i, "put")
    /\ target' = inst[i].v
    /\ Step(i, "sweep")
    /\ UNCHANGED <<release, previous, request, born, tray, hud, scars>>

PutFailsBare(i) ==
    /\ Now(i, "put") /\ MayHurt
    /\ scars' = scars \cup {"failed"}
    /\ Exit(i)
    /\ UNCHANGED <<release, target, previous, request, born, tray, hud>>

PutFails(i) ==
    /\ Now(i, "put") /\ MayHurt
    /\ IF previous # 0 THEN target' = previous /\ previous' = 0
                       ELSE UNCHANGED <<target, previous>>
    /\ scars' = scars \cup {"failed"}
    /\ Exit(i)
    /\ UNCHANGED <<release, request, born, tray, hud>>

Sweep(i) ==
    /\ Now(i, "sweep")
    /\ previous' = 0
    /\ Step(i, "launch")
    /\ UNCHANGED <<release, target, request, born, tray, hud, scars>>

\* A second tray ends at once.
Launch(i) ==
    /\ Now(i, "launch") /\ target # 0
    /\ IF tray = NoTray THEN NewTray ELSE UNCHANGED <<born, tray>>
    /\ Step(i, "remove")
    /\ UNCHANGED <<release, target, previous, request, hud, scars>>

LaunchFails(i) ==
    /\ Now(i, "launch") /\ target = 0
    /\ Exit(i)
    /\ UNCHANGED <<release, target, previous, request, born, tray, hud, scars>>

RemoveRequest(i) ==
    /\ Now(i, "remove")
    /\ request' = NoRequest
    /\ Exit(i)
    /\ UNCHANGED <<release, target, previous, born, tray, hud, scars>>

\* ApplyFromRequest removes the request whatever apply returned.
DiesTidily(i) ==
    /\ ~Idle(i) /\ inst[i].pc \notin scars /\ MayHurt
    /\ scars' = scars \cup {inst[i].pc}
    /\ request' = NoRequest
    /\ Exit(i)
    /\ UNCHANGED <<release, target, previous, born, tray, hud>>

\* Killed, out of its three minutes, or a step fails that undoes nothing.
Dies(i) ==
    /\ ~Idle(i) /\ inst[i].pc \notin scars /\ MayHurt
    /\ scars' = scars \cup {inst[i].pc}
    /\ Exit(i)
    /\ UNCHANGED <<release, target, previous, request, born, tray, hud>>

Next ==
    \/ Publish
    \/ HudOpens \/ HudCloses \/ CheckBegins \/ CheckEnds \/ Stage \/ WriteRequest
    \/ TrayStarts \/ TrayEnds \/ UpdateSees \/ UpdateReads \/ UpdateAdds \/ UpdateFails
    \/ \E i \in Installers :
          \/ SpawnInstaller(i) \/ Load(i) \/ LoadFails(i) \/ Waited(i)
          \/ Backup(i) \/ BackupFails(i) \/ PutNew(i) \/ PutFails(i)
          \/ Sweep(i) \/ Launch(i) \/ LaunchFails(i) \/ RemoveRequest(i)
          \/ Dies(i)

Spec == Init /\ [][Next]_vars

\* A panel that said it closes and a tray that quit end; an installer goes on.
Fairness ==
    /\ WF_vars(hud.view = "closing" /\ HudCloses)
    /\ WF_vars(tray.phase = "quit" /\ TrayEnds)
    /\ \A i \in Installers :
          WF_vars(\/ Load(i) \/ LoadFails(i) \/ Waited(i) \/ Backup(i)
                  \/ BackupFails(i) \/ PutNew(i) \/ Sweep(i) \/ Launch(i)
                  \/ LaunchFails(i) \/ RemoveRequest(i))

FairSpec == Spec /\ Fairness

-----------------------------------------------------------------------------
(* Properties.                                                             *)

\* Types; a request is never empty of processes to wait for.
TypeOK ==
    /\ release \in Versions
    /\ target \in 0..MaxVersion /\ previous \in 0..MaxVersion
    /\ request # NoRequest => request.v \in Versions /\ request.wait # {}
    /\ born \in Nat /\ Alive \subseteq 1..born
    /\ tray.phase \in {"none", "poll", "seen", "add", "spawn", "quit", "deaf"}
    /\ hud.view \in {"none", "idle", "checking", "available", "staged",
                     "closing"}
    /\ \A i \in Installers :
          inst[i].pc \in {"none", "load", "wait", "backup", "put", "sweep",
                          "launch", "remove"}

\* The executable is missing only inside replaceExecutable, or because an
\* installer was killed there; its .previous copy exists all that time.
ExecutableKept ==
    target = 0 /\ Crowd \notin scars =>
        /\ previous # 0
        /\ "put" \in scars \/ \E i \in Installers : Now(i, "put")

\* An update never replaces a newer version, also when a release is withdrawn:
\* the version compared is the panel's, the one replaced is the executable's
\* some time later, and a killed installer is run again.
NeverOlder ==
    Overlap \notin scars =>
        \A i \in Installers : Now(i, "put") => inst[i].v >= previous

\* A request leaves the disk only when what it asked for has been installed,
\* so an installer that dies is tried again by the next tray.
RequestServed ==
    [][Overlap \notin scars /\ request # NoRequest
          /\ request' = NoRequest => target >= request.v]_vars

\* An installer that starts leads to a tray that runs, unless one failed or was
\* killed, or requests overlapped.
ComesBackUpdated ==
    (\E i \in Installers : ~Idle(i) /\ ~Now(i, "remove")) ~>
        (tray.phase \notin {"none", "quit"} \/ scars # {})
=============================================================================
