---------------------------- MODULE UpdateProofs ----------------------------
(***************************************************************************)
(* The executable is never lost, an update never replaces a newer version, *)
(* and a request is served before it leaves the disk, for any number of    *)
(* releases, processes, installers and failures.                           *)
(***************************************************************************)
EXTENDS Update, TLAPS

Requests == [v : 0..MaxVersion, wait : SUBSET Nat]

InstallerLabels ==
    {"none", "load", "wait", "backup", "put", "sweep", "launch", "remove"}

\* The types of the parts.
FilesTyped ==
    /\ release \in Versions /\ target \in 0..MaxVersion /\ previous \in 0..MaxVersion
    /\ request \in Requests
    /\ request # NoRequest => request.v \in Versions /\ request.wait # {}
TrayTyped ==
    /\ born \in Nat
    /\ tray \in [pid : 0..born, runs : 0..MaxVersion,
                 phase : {"none", "poll", "seen", "add", "spawn", "quit", "deaf"},
                 copy : Requests]
    /\ tray.phase = "add" => tray.copy.v \in Versions
HudTyped ==
    /\ hud \in [pid : 0..born, runs : 0..MaxVersion, result : 0..MaxVersion,
                view : {"none", "idle", "checking", "available", "staged", "closing"}]
    /\ hud.view # "none" => hud.pid # 0
    /\ hud.view \in {"available", "staged"} => hud.result > hud.runs
InstTyped ==
    /\ inst \in [Installers ->
                  [pc : InstallerLabels, v : 0..MaxVersion, wait : SUBSET Nat]]
    /\ \A i \in Installers :
          /\ Idle(i) \/ inst[i].pc # "none"
          /\ inst[i].pc \notin {"none", "load"} => inst[i].v \in Versions

\* While no two installers run at once, the one at work has taken the
\* executable away and not put one there, or has put one there; nobody else
\* takes it.
Replacing ==
    Crowd \notin scars =>
        /\ \A i, j \in Installers : ~Now(i, "none") /\ ~Now(j, "none") => i = j
        /\ \A i \in Installers :
              /\ Now(i, "put") => target = 0 /\ previous # 0
              /\ inst[i].pc \in {"sweep", "launch", "remove"} => target # 0
        /\ target = 0 => /\ previous # 0
                         /\ "put" \in scars \/ \E i \in Installers : Now(i, "put")

\* While requests do not overlap, a tray that serves one is alone with it, an
\* installer installs the one on the disk, and that one is no older than the
\* executable.
Serving ==
    Overlap \notin scars =>
        /\ Crowd \notin scars
        /\ tray.phase \in {"seen", "add", "spawn"} =>
              \A i \in Installers : Now(i, "none")
        /\ tray.phase = "add" => request # NoRequest /\ request.v = tray.copy.v
        /\ \A i \in Installers :
              /\ inst[i].pc \notin {"none", "load"} =>
                    request # NoRequest /\ inst[i].v = request.v
              /\ Now(i, "put") => inst[i].v >= previous
              /\ inst[i].pc \in {"sweep", "launch", "remove"} => target = inst[i].v
        /\ request # NoRequest => request.v >= target

Types == FilesTyped /\ TrayTyped /\ HudTyped /\ InstTyped

IInv == Types /\ Replacing /\ Serving

LEMMA InitIInv == Init => IInv
<1> USE UpdateAssumption DEF Init, Versions, NoRequest, NoTray, NoHud,
    NoInstaller, Requests, InstallerLabels
<1> SUFFICES ASSUME Init PROVE IInv
  OBVIOUS
<1>1. FilesTyped /\ TrayTyped
  BY DEF FilesTyped, TrayTyped
<1>2. HudTyped /\ InstTyped
  BY DEF HudTyped, InstTyped, Idle
<1>3. Replacing /\ Serving
  BY DEF Replacing, Serving, Now
<1> QED
  BY <1>1, <1>2, <1>3 DEF IInv, Types

\* What a step of an installer changes of the installers.
LEMMA Moving ==
    ASSUME InstTyped, NEW i \in Installers, NEW label, Step(i, label)
    PROVE  /\ inst'[i].pc = label /\ inst'[i].v = inst[i].v
           /\ \A j \in Installers : j # i => inst'[j] = inst[j]
  BY DEF InstTyped, Step

LEMMA Leaving ==
    ASSUME InstTyped, NEW i \in Installers, Exit(i)
    PROVE  /\ inst'[i].pc = "none"
           /\ \A j \in Installers : j # i => inst'[j] = inst[j]
  BY DEF InstTyped, Exit, NoInstaller

\* The server of releases and the panel.
LEMMA PanelStep ==
    ASSUME IInv, Publish \/ HudOpens \/ HudCloses \/ CheckBegins \/ CheckEnds \/
           Stage \/ WriteRequest
    PROVE  IInv'
<1>0. Types /\ Replacing /\ Serving
  BY DEF IInv
<1> USE UpdateAssumption DEF Types, Versions, NoRequest, NoTray, NoHud,
    NoInstaller, Requests, InstallerLabels
<1>1. CASE Publish
  <2>1. Types'
    BY <1>0, <1>1 DEF Publish, FilesTyped, TrayTyped, HudTyped, InstTyped, Idle,
       Now
  <2>2. Replacing'
    BY <1>0, <1>1 DEF Publish, Replacing, Now, NoInstallerRuns, Idle, Crowd,
       Overlap, FilesTyped, InstTyped
  <2>3. Serving'
    BY <1>0, <1>1 DEF Publish, Serving, Now, NoInstallerRuns, Crowd, Overlap,
       FilesTyped, TrayTyped, HudTyped, InstTyped
  <2> QED
    BY <2>1, <2>2, <2>3 DEF IInv
<1>2. CASE HudOpens
  <2>1. Types'
    BY <1>0, <1>2 DEF HudOpens, FilesTyped, TrayTyped, HudTyped, InstTyped,
       Idle, Now
  <2>2. Replacing'
    BY <1>0, <1>2 DEF HudOpens, Replacing, Now, NoInstallerRuns, Idle, Crowd,
       Overlap, FilesTyped, InstTyped
  <2>3. Serving'
    BY <1>0, <1>2 DEF HudOpens, Serving, Now, NoInstallerRuns, Crowd, Overlap,
       FilesTyped, TrayTyped, HudTyped, InstTyped
  <2> QED
    BY <2>1, <2>2, <2>3 DEF IInv
<1>3. CASE HudCloses
  <2>1. Types'
    BY <1>0, <1>3 DEF HudCloses, FilesTyped, TrayTyped, HudTyped, InstTyped,
       Idle, Now
  <2>2. Replacing'
    BY <1>0, <1>3 DEF HudCloses, Replacing, Now, NoInstallerRuns, Idle, Crowd,
       Overlap, FilesTyped, InstTyped
  <2>3. Serving'
    BY <1>0, <1>3 DEF HudCloses, Serving, Now, NoInstallerRuns, Crowd, Overlap,
       FilesTyped, TrayTyped, HudTyped, InstTyped
  <2> QED
    BY <2>1, <2>2, <2>3 DEF IInv
<1>4. CASE CheckBegins
  <2>1. Types'
    BY <1>0, <1>4 DEF CheckBegins, FilesTyped, TrayTyped, HudTyped, InstTyped,
       Idle, Now
  <2>2. Replacing'
    BY <1>0, <1>4 DEF CheckBegins, Replacing, Now, NoInstallerRuns, Idle, Crowd,
       Overlap, FilesTyped, InstTyped
  <2>3. Serving'
    BY <1>0, <1>4 DEF CheckBegins, Serving, Now, NoInstallerRuns, Crowd,
       Overlap, FilesTyped, TrayTyped, HudTyped, InstTyped
  <2> QED
    BY <2>1, <2>2, <2>3 DEF IInv
<1>5. CASE CheckEnds
  <2>1. Types'
    <3>1. FilesTyped'
      BY <1>0, <1>5 DEF CheckEnds, FilesTyped, InstTyped
    <3>2. TrayTyped'
      BY <1>0, <1>5 DEF CheckEnds, TrayTyped, FilesTyped
    <3>3. HudTyped'
      <4>1. UNCHANGED born /\ release \in 0..MaxVersion
        BY <1>0, <1>5 DEF CheckEnds, FilesTyped
      <4>2. /\ hud'.pid = hud.pid /\ hud'.runs = hud.runs
            /\ hud' = [hud EXCEPT !.result = hud'.result, !.view = hud'.view]
            /\ hud'.result \in {hud.result, release, 0}
            /\ hud'.view \in {"idle", "available"}
            /\ hud'.view = "available" => hud'.result > hud'.runs
        BY <1>0, <1>5 DEF CheckEnds, HudTyped
      <4>3. hud.pid # 0
        BY <1>0, <1>5 DEF CheckEnds, HudTyped
      <4>4. hud'.result \in 0..MaxVersion
        BY <1>0, <4>1, <4>2 DEF HudTyped
      <4>5. hud' \in [pid : 0..born', runs : 0..MaxVersion, result : 0..MaxVersion,
                      view : {"none", "idle", "checking", "available", "staged", "closing"}]
        BY <1>0, <4>1, <4>2, <4>4 DEF HudTyped
      <4> QED
        BY <4>2, <4>3, <4>5 DEF HudTyped
    <3>4. InstTyped'
      BY <1>0, <1>5 DEF CheckEnds, InstTyped, FilesTyped, Idle, Now
    <3> QED
      BY <3>1, <3>2, <3>3, <3>4
  <2>2. Replacing'
    BY <1>0, <1>5 DEF CheckEnds, Replacing, Now, NoInstallerRuns, Idle, Crowd,
       Overlap, FilesTyped, InstTyped
  <2>3. Serving'
    BY <1>0, <1>5 DEF CheckEnds, Serving, Now, NoInstallerRuns, Crowd, Overlap,
       FilesTyped, TrayTyped, HudTyped, InstTyped
  <2> QED
    BY <2>1, <2>2, <2>3 DEF IInv
<1>6. CASE Stage
  <2>1. Types'
    BY <1>0, <1>6 DEF Stage, FilesTyped, TrayTyped, HudTyped, InstTyped, Idle,
       Now
  <2>2. Replacing'
    BY <1>0, <1>6 DEF Stage, Replacing, Now, NoInstallerRuns, Idle, Crowd,
       Overlap, FilesTyped, InstTyped
  <2>3. Serving'
    BY <1>0, <1>6 DEF Stage, Serving, Now, NoInstallerRuns, Crowd, Overlap,
       FilesTyped, TrayTyped, HudTyped, InstTyped
  <2> QED
    BY <2>1, <2>2, <2>3 DEF IInv
<1>7. CASE WriteRequest
  <2>1. Types'
    BY <1>0, <1>7 DEF WriteRequest, Updating, NoInstallerRuns, FilesTyped,
       TrayTyped, HudTyped, InstTyped, Idle, Now
  <2>2. Replacing'
    BY <1>0, <1>7 DEF WriteRequest, Updating, NoInstallerRuns, Replacing, Now,
       Idle, Crowd, Overlap, FilesTyped, InstTyped
  <2>3. Serving'
    <3>1. NoInstallerRuns => \A i \in Installers : Now(i, "none")
      BY DEF NoInstallerRuns, Idle, Now
    <3>2. Overlap \notin scars' =>
             Overlap \notin scars /\ \A i \in Installers : Now(i, "none")
      BY <1>7, <3>1 DEF WriteRequest
    <3>3. UNCHANGED <<inst, target, previous>> /\ (Crowd \in scars' => Crowd \in scars)
      BY <1>7 DEF WriteRequest, Crowd, Overlap
    <3>4. Overlap \notin scars' =>
             hud.runs = target /\ tray.phase \notin {"seen", "add", "spawn", "quit"}
      BY <1>7 DEF WriteRequest, Updating
    <3>5. /\ UNCHANGED tray /\ request'.v = hud.result
          /\ hud.result > hud.runs /\ hud.result \in Nat /\ hud.runs \in Nat
      BY <1>0, <1>7 DEF WriteRequest, HudTyped
    <3> HIDE DEF NoRequest
    <3> QED
      BY <1>0, <3>2, <3>3, <3>4, <3>5 DEF Serving, Now
  <2> QED
    BY <2>1, <2>2, <2>3 DEF IInv
<1> QED
  BY <1>1, <1>2, <1>3, <1>4, <1>5, <1>6, <1>7

\* The tray.
LEMMA TrayStep ==
    ASSUME IInv, TrayStarts \/ TrayEnds \/ UpdateSees \/ UpdateReads \/ UpdateAdds
           \/ UpdateFails
    PROVE  IInv'
<1>0. Types /\ Replacing /\ Serving
  BY DEF IInv
<1> USE UpdateAssumption DEF Types, Versions, NoRequest, NoTray, NoHud,
    NoInstaller, Requests, InstallerLabels
<1>1. CASE TrayStarts
  <2>1. Types'
    BY <1>0, <1>1 DEF TrayStarts, NewTray, FilesTyped, TrayTyped, HudTyped,
       InstTyped, Idle, Now
  <2>2. Replacing'
    BY <1>0, <1>1 DEF TrayStarts, NewTray, Replacing, Now, NoInstallerRuns,
       Idle, Crowd, Overlap, FilesTyped, InstTyped
  <2>3. Serving'
    BY <1>0, <1>1 DEF TrayStarts, NewTray, Serving, Now, NoInstallerRuns, Crowd,
       Overlap, FilesTyped, TrayTyped, HudTyped, InstTyped
  <2> QED
    BY <2>1, <2>2, <2>3 DEF IInv
<1>2. CASE TrayEnds
  <2>1. Types'
    BY <1>0, <1>2 DEF TrayEnds, FilesTyped, TrayTyped, HudTyped, InstTyped,
       Idle, Now
  <2>2. Replacing'
    BY <1>0, <1>2 DEF TrayEnds, Replacing, Now, NoInstallerRuns, Idle, Crowd,
       Overlap, FilesTyped, InstTyped
  <2>3. Serving'
    BY <1>0, <1>2 DEF TrayEnds, Serving, Now, NoInstallerRuns, Crowd, Overlap,
       FilesTyped, TrayTyped, HudTyped, InstTyped
  <2> QED
    BY <2>1, <2>2, <2>3 DEF IInv
<1>3. CASE UpdateSees
  <2>1. Types'
    BY <1>0, <1>3 DEF UpdateSees, Updating, NoInstallerRuns, FilesTyped,
       TrayTyped, HudTyped, InstTyped, Idle, Now
  <2>2. Replacing'
    BY <1>0, <1>3 DEF UpdateSees, Updating, NoInstallerRuns, Replacing, Now,
       Idle, Crowd, Overlap, FilesTyped, InstTyped
  <2>3. Serving'
    <3>1. NoInstallerRuns => \A i \in Installers : Now(i, "none")
      BY DEF NoInstallerRuns, Idle, Now
    <3>2. Overlap \notin scars' =>
             Overlap \notin scars /\ \A i \in Installers : Now(i, "none")
      BY <1>3, <3>1 DEF UpdateSees
    <3>3. UNCHANGED <<inst, target, previous>> /\ (Crowd \in scars' => Crowd \in scars)
      BY <1>3 DEF UpdateSees, Crowd, Overlap
    <3>4. UNCHANGED request /\ tray'.phase = "seen"
      BY <1>0, <1>3 DEF UpdateSees, TrayTyped
    <3> QED
      BY <1>0, <3>2, <3>3, <3>4 DEF Serving, Now
  <2> QED
    BY <2>1, <2>2, <2>3 DEF IInv
<1>4. CASE UpdateReads
  <2>1. Types'
    BY <1>0, <1>4 DEF UpdateReads, FilesTyped, TrayTyped, HudTyped, InstTyped,
       Idle, Now
  <2>2. Replacing'
    BY <1>0, <1>4 DEF UpdateReads, Replacing, Now, NoInstallerRuns, Idle, Crowd,
       Overlap, FilesTyped, InstTyped
  <2>3. Serving'
    BY <1>0, <1>4 DEF UpdateReads, Serving, Now, NoInstallerRuns, Crowd,
       Overlap, FilesTyped, TrayTyped, HudTyped, InstTyped
  <2> QED
    BY <2>1, <2>2, <2>3 DEF IInv
<1>5. CASE UpdateAdds
  <2>1. Types'
    BY <1>0, <1>5 DEF UpdateAdds, FilesTyped, TrayTyped, HudTyped, InstTyped,
       Idle, Now
  <2>2. Replacing'
    BY <1>0, <1>5 DEF UpdateAdds, Replacing, Now, NoInstallerRuns, Idle, Crowd,
       Overlap, FilesTyped, InstTyped
  <2>3. Serving'
    BY <1>0, <1>5 DEF UpdateAdds, Serving, Now, NoInstallerRuns, Crowd, Overlap,
       FilesTyped, TrayTyped, HudTyped, InstTyped
  <2> QED
    BY <2>1, <2>2, <2>3 DEF IInv
<1>6. CASE UpdateFails
  <2>1. Types'
    BY <1>0, <1>6 DEF UpdateFails, FilesTyped, TrayTyped, HudTyped, InstTyped,
       Idle, Now
  <2>2. Replacing'
    BY <1>0, <1>6 DEF UpdateFails, Replacing, Now, NoInstallerRuns, Idle, Crowd,
       Overlap, FilesTyped, InstTyped
  <2>3. Serving'
    BY <1>0, <1>6 DEF UpdateFails, Serving, Now, NoInstallerRuns, Crowd,
       Overlap, FilesTyped, TrayTyped, HudTyped, InstTyped
  <2> QED
    BY <2>1, <2>2, <2>3 DEF IInv
<1> QED
  BY <1>1, <1>2, <1>3, <1>4, <1>5, <1>6

\* The installer, and the tray that starts it.
LEMMA InstallerStep ==
    ASSUME IInv, NEW i \in Installers,
           SpawnInstaller(i) \/ Load(i) \/ LoadFails(i) \/ Waited(i) \/
           Backup(i) \/ BackupFails(i) \/ PutNew(i) \/ PutFails(i) \/
           Sweep(i) \/ Launch(i) \/ LaunchFails(i) \/ RemoveRequest(i) \/
           Dies(i)
    PROVE  IInv'
<1>0. Types /\ Replacing /\ Serving
  BY DEF IInv
<1> USE UpdateAssumption DEF Types, Versions, NoRequest, NoTray, NoHud,
    NoInstaller, Requests, InstallerLabels
<1>1. CASE SpawnInstaller(i)
  <2>1. Types'
    BY <1>0, <1>1 DEF SpawnInstaller, Step, Now, NoInstallerRuns, FilesTyped,
       TrayTyped, HudTyped, InstTyped, Idle
  <2>2. Replacing'
    <3>1. /\ inst'[i].pc = "load" /\ inst'[i].v = inst[i].v
          /\ \A j \in Installers : j # i => inst'[j] = inst[j]
      BY <1>0, <1>1, Moving DEF SpawnInstaller
    <3> QED
      BY <1>0, <1>1, <3>1 DEF SpawnInstaller, Replacing, NoInstallerRuns, Idle,
         Now, Crowd, Overlap, FilesTyped, InstTyped
  <2>3. Serving'
    BY <1>0, <1>1 DEF SpawnInstaller, Step, Now, NoInstallerRuns, Serving,
       Crowd, Overlap, FilesTyped, TrayTyped, HudTyped, InstTyped
  <2> QED
    BY <2>1, <2>2, <2>3 DEF IInv
<1>2. CASE Load(i)
  <2>1. Types'
    BY <1>0, <1>2 DEF Load, FilesTyped, TrayTyped, HudTyped, InstTyped, Idle,
       Now
  <2>2. Replacing'
    <3>1. /\ inst[i].pc = "load" /\ inst'[i].pc = "wait"
          /\ \A j \in Installers : j # i => inst'[j] = inst[j]
          /\ UNCHANGED <<target, previous, scars>>
      BY <1>0, <1>2 DEF Load, Now, InstTyped
    <3> QED
      BY <1>0, <3>1 DEF Replacing, Now
  <2>3. Serving'
    BY <1>0, <1>2 DEF Load, Serving, Now, NoInstallerRuns, Crowd, Overlap,
       FilesTyped, TrayTyped, HudTyped, InstTyped
  <2> QED
    BY <2>1, <2>2, <2>3 DEF IInv
<1>3. CASE LoadFails(i)
  <2>1. Types'
    BY <1>0, <1>3 DEF LoadFails, Exit, FilesTyped, TrayTyped, HudTyped,
       InstTyped, Idle, Now
  <2>2. Replacing'
    BY <1>0, <1>3 DEF LoadFails, Exit, Replacing, Now, NoInstallerRuns, Idle,
       Crowd, Overlap, FilesTyped, InstTyped
  <2>3. Serving'
    BY <1>0, <1>3 DEF LoadFails, Exit, Serving, Now, NoInstallerRuns, Crowd,
       Overlap, FilesTyped, TrayTyped, HudTyped, InstTyped
  <2> QED
    BY <2>1, <2>2, <2>3 DEF IInv
<1>4. CASE Waited(i)
  <2>1. Types'
    <3>1. FilesTyped'
      BY <1>0, <1>4 DEF Waited, Step, FilesTyped, InstTyped
    <3>2. TrayTyped'
      BY <1>0, <1>4 DEF Waited, Step, TrayTyped, FilesTyped
    <3>3. HudTyped'
      BY <1>0, <1>4 DEF Waited, Step, HudTyped, FilesTyped, TrayTyped
    <3>4. InstTyped'
      <4>1. Step(i, "backup") /\ inst[i].pc = "wait"
        BY <1>4 DEF Waited, Now
      <4>2. inst' \in [Installers ->
                        [pc : InstallerLabels, v : 0..MaxVersion, wait : SUBSET Nat]]
        BY <1>0, <4>1 DEF Step, InstTyped
      <4>3. /\ inst'[i].pc = "backup" /\ inst'[i].v = inst[i].v
            /\ \A j \in Installers : j # i => inst'[j] = inst[j]
        BY <1>0, <4>1, Moving
      <4> QED
        BY <1>0, <4>1, <4>2, <4>3 DEF InstTyped, Idle
    <3> QED
      BY <3>1, <3>2, <3>3, <3>4
  <2>2. Replacing'
    <3>1. /\ inst'[i].pc = "backup" /\ inst'[i].v = inst[i].v
          /\ \A j \in Installers : j # i => inst'[j] = inst[j]
      BY <1>0, <1>4, Moving DEF Waited
    <3> QED
      BY <1>0, <1>4, <3>1 DEF Waited, Replacing, Now, Crowd, Overlap,
         FilesTyped, InstTyped
  <2>3. Serving'
    BY <1>0, <1>4 DEF Waited, Step, Serving, Now, NoInstallerRuns, Crowd,
       Overlap, FilesTyped, TrayTyped, HudTyped, InstTyped
  <2> QED
    BY <2>1, <2>2, <2>3 DEF IInv
<1>5. CASE Backup(i)
  <2>1. Types'
    <3>1. FilesTyped'
      BY <1>0, <1>5 DEF Backup, Step, FilesTyped, InstTyped
    <3>2. TrayTyped'
      BY <1>0, <1>5 DEF Backup, Step, TrayTyped, FilesTyped
    <3>3. HudTyped'
      BY <1>0, <1>5 DEF Backup, Step, HudTyped, FilesTyped, TrayTyped
    <3>4. InstTyped'
      BY <1>0, <1>5 DEF Backup, Step, InstTyped, FilesTyped, Idle, Now
    <3> QED
      BY <3>1, <3>2, <3>3, <3>4
  <2>2. Replacing'
    <3>1. /\ inst'[i].pc = "put" /\ inst'[i].v = inst[i].v
          /\ \A j \in Installers : j # i => inst'[j] = inst[j]
      BY <1>0, <1>5, Moving DEF Backup
    <3> QED
      BY <1>0, <1>5, <3>1 DEF Backup, Replacing, Now, Crowd, Overlap,
         FilesTyped, InstTyped
  <2>3. Serving'
    <3>1. /\ inst'[i].pc = "put" /\ inst'[i].v = inst[i].v
          /\ \A j \in Installers : j # i => inst'[j] = inst[j]
      BY <1>0, <1>5, Moving DEF Backup
    <3>2. Overlap \notin scars =>
             \A j \in Installers : j # i => inst[j].pc = "none" /\ inst'[j].pc = "none"
      BY <1>0, <1>5, <3>1 DEF Backup, Replacing, Serving, Now
    <3>3. /\ inst[i].pc = "backup" /\ previous' = target
          /\ UNCHANGED <<request, tray, scars>> /\ target' = 0
      BY <1>5 DEF Backup, Now, Overlap, Crowd
    <3>4. Overlap \notin scars =>
             /\ Crowd \notin scars
             /\ tray.phase \notin {"seen", "add", "spawn"}
             /\ request # NoRequest /\ inst[i].v = request.v
             /\ request.v \in Nat /\ target \in Nat /\ request.v >= target
      BY <1>0, <3>3 DEF Serving, Now, FilesTyped, Requests
    <3> HIDE DEF NoRequest
    <3> QED
      BY <1>0, <3>1, <3>2, <3>3, <3>4 DEF Serving, Now
  <2> QED
    BY <2>1, <2>2, <2>3 DEF IInv
<1>6. CASE BackupFails(i)
  <2>1. Types'
    BY <1>0, <1>6 DEF BackupFails, Exit, FilesTyped, TrayTyped, HudTyped,
       InstTyped, Idle, Now
  <2>2. Replacing'
    BY <1>0, <1>6 DEF BackupFails, Exit, Replacing, Now, NoInstallerRuns, Idle,
       Crowd, Overlap, FilesTyped, InstTyped
  <2>3. Serving'
    BY <1>0, <1>6 DEF BackupFails, Exit, Serving, Now, NoInstallerRuns, Crowd,
       Overlap, FilesTyped, TrayTyped, HudTyped, InstTyped
  <2> QED
    BY <2>1, <2>2, <2>3 DEF IInv
<1>7. CASE PutNew(i)
  <2>1. Types'
    <3>1. FilesTyped'
      BY <1>0, <1>7 DEF PutNew, Step, FilesTyped, InstTyped
    <3>2. TrayTyped'
      BY <1>0, <1>7 DEF PutNew, Step, TrayTyped, FilesTyped
    <3>3. HudTyped'
      BY <1>0, <1>7 DEF PutNew, Step, HudTyped, FilesTyped, TrayTyped
    <3>4. InstTyped'
      BY <1>0, <1>7 DEF PutNew, Step, InstTyped, FilesTyped, Idle, Now
    <3> QED
      BY <3>1, <3>2, <3>3, <3>4
  <2>2. Replacing'
    <3>1. /\ inst'[i].pc = "sweep" /\ inst'[i].v = inst[i].v
          /\ \A j \in Installers : j # i => inst'[j] = inst[j]
      BY <1>0, <1>7, Moving DEF PutNew
    <3> QED
      BY <1>0, <1>7, <3>1 DEF PutNew, Replacing, Now, Crowd, Overlap,
         FilesTyped, InstTyped
  <2>3. Serving'
    BY <1>0, <1>7 DEF PutNew, Step, Serving, Now, NoInstallerRuns, Crowd,
       Overlap, FilesTyped, TrayTyped, HudTyped, InstTyped
  <2> QED
    BY <2>1, <2>2, <2>3 DEF IInv
<1>8. CASE PutFails(i)
  <2>1. Types'
    <3>1. FilesTyped'
      BY <1>0, <1>8 DEF PutFails, Exit, FilesTyped, InstTyped
    <3>2. TrayTyped'
      BY <1>0, <1>8 DEF PutFails, Exit, TrayTyped, FilesTyped
    <3>3. HudTyped'
      BY <1>0, <1>8 DEF PutFails, Exit, HudTyped, FilesTyped, TrayTyped
    <3>4. InstTyped'
      <4>1. Exit(i)
        BY <1>8 DEF PutFails
      <4>2. inst' \in [Installers ->
                        [pc : InstallerLabels, v : 0..MaxVersion, wait : SUBSET Nat]]
        BY <1>0, <4>1 DEF Exit, InstTyped, InstallerLabels
      <4>3. \A j \in Installers : inst'[j] = NoInstaller \/ inst'[j] = inst[j]
        BY <1>0, <4>1 DEF Exit, InstTyped
      <4> QED
        BY <1>0, <4>2, <4>3 DEF InstTyped, Idle
    <3> QED
      BY <3>1, <3>2, <3>3, <3>4
  <2>2. Replacing'
    <3>1. /\ inst'[i].pc = "none"
          /\ \A j \in Installers : j # i => inst'[j] = inst[j]
      BY <1>0, <1>8, Leaving DEF PutFails
    <3> QED
      BY <1>0, <1>8, <3>1 DEF PutFails, Replacing, Now, Crowd, Overlap,
         FilesTyped, InstTyped
  <2>3. Serving'
    <3>1. /\ inst'[i].pc = "none"
          /\ \A j \in Installers : j # i => inst'[j] = inst[j]
      BY <1>0, <1>8, Leaving DEF PutFails
    <3>2. Overlap \notin scars =>
             \A j \in Installers : j # i => inst[j].pc = "none" /\ inst'[j].pc = "none"
      BY <1>0, <1>8, <3>1 DEF PutFails, Replacing, Serving, Now
    <3>3. /\ inst[i].pc = "put" /\ target' \in {target, previous}
          /\ UNCHANGED <<request, tray>> /\ scars' = scars \cup {"failed"}
          /\ "failed" \notin {Overlap, Crowd}
      BY <1>8 DEF PutFails, Now, Overlap, Crowd
    <3>4. Overlap \notin scars =>
             /\ Crowd \notin scars
             /\ tray.phase \notin {"seen", "add", "spawn"}
             /\ request # NoRequest /\ inst[i].v = request.v
             /\ request.v \in Nat /\ target \in Nat /\ request.v >= target
      BY <1>0, <3>3 DEF Serving, Now, FilesTyped, Requests
    <3> HIDE DEF NoRequest
    <3> QED
      BY <1>0, <3>1, <3>2, <3>3, <3>4 DEF Serving, Now, Crowd, Overlap,
         FilesTyped
  <2> QED
    BY <2>1, <2>2, <2>3 DEF IInv
<1>9. CASE Sweep(i)
  <2>1. Types'
    <3>1. FilesTyped'
      BY <1>0, <1>9 DEF Sweep, Step, FilesTyped, InstTyped
    <3>2. TrayTyped'
      BY <1>0, <1>9 DEF Sweep, Step, TrayTyped, FilesTyped
    <3>3. HudTyped'
      BY <1>0, <1>9 DEF Sweep, Step, HudTyped, FilesTyped, TrayTyped
    <3>4. InstTyped'
      BY <1>0, <1>9 DEF Sweep, Step, InstTyped, FilesTyped, Idle, Now
    <3> QED
      BY <3>1, <3>2, <3>3, <3>4
  <2>2. Replacing'
    <3>1. /\ inst'[i].pc = "launch" /\ inst'[i].v = inst[i].v
          /\ \A j \in Installers : j # i => inst'[j] = inst[j]
      BY <1>0, <1>9, Moving DEF Sweep
    <3> QED
      BY <1>0, <1>9, <3>1 DEF Sweep, Replacing, Now, Crowd, Overlap, FilesTyped,
         InstTyped
  <2>3. Serving'
    BY <1>0, <1>9 DEF Sweep, Step, Serving, Now, NoInstallerRuns, Crowd,
       Overlap, FilesTyped, TrayTyped, HudTyped, InstTyped
  <2> QED
    BY <2>1, <2>2, <2>3 DEF IInv
<1>10. CASE Launch(i)
  <2>1. Types'
    <3>1. FilesTyped'
      BY <1>0, <1>10 DEF Launch, NewTray, Step, FilesTyped, InstTyped
    <3>2. TrayTyped'
      BY <1>0, <1>10 DEF Launch, NewTray, Step, TrayTyped, FilesTyped
    <3>3. HudTyped'
      BY <1>0, <1>10 DEF Launch, NewTray, Step, HudTyped, FilesTyped, TrayTyped
    <3>4. InstTyped'
      BY <1>0, <1>10 DEF Launch, NewTray, Step, InstTyped, FilesTyped, Idle, Now
    <3> QED
      BY <3>1, <3>2, <3>3, <3>4
  <2>2. Replacing'
    <3>1. /\ inst'[i].pc = "remove" /\ inst'[i].v = inst[i].v
          /\ \A j \in Installers : j # i => inst'[j] = inst[j]
      BY <1>0, <1>10, Moving DEF Launch
    <3> QED
      BY <1>0, <1>10, <3>1 DEF Launch, Replacing, Now, Crowd, Overlap,
         FilesTyped, InstTyped, NewTray, TrayTyped
  <2>3. Serving'
    BY <1>0, <1>10 DEF Launch, NewTray, Step, Serving, Now, NoInstallerRuns,
       Crowd, Overlap, FilesTyped, TrayTyped, HudTyped, InstTyped
  <2> QED
    BY <2>1, <2>2, <2>3 DEF IInv
<1>11. CASE LaunchFails(i)
  <2>1. Types'
    BY <1>0, <1>11 DEF LaunchFails, Exit, FilesTyped, TrayTyped, HudTyped,
       InstTyped, Idle, Now
  <2>2. Replacing'
    BY <1>0, <1>11 DEF LaunchFails, Exit, Replacing, Now, NoInstallerRuns, Idle,
       Crowd, Overlap, FilesTyped, InstTyped
  <2>3. Serving'
    BY <1>0, <1>11 DEF LaunchFails, Exit, Serving, Now, NoInstallerRuns, Crowd,
       Overlap, FilesTyped, TrayTyped, HudTyped, InstTyped
  <2> QED
    BY <2>1, <2>2, <2>3 DEF IInv
<1>12. CASE RemoveRequest(i)
  <2>1. Types'
    <3>1. FilesTyped'
      BY <1>0, <1>12 DEF RemoveRequest, Exit, FilesTyped, InstTyped
    <3>2. TrayTyped'
      BY <1>0, <1>12 DEF RemoveRequest, Exit, TrayTyped, FilesTyped
    <3>3. HudTyped'
      BY <1>0, <1>12 DEF RemoveRequest, Exit, HudTyped, FilesTyped, TrayTyped
    <3>4. InstTyped'
      <4>1. Exit(i)
        BY <1>12 DEF RemoveRequest
      <4>2. inst' \in [Installers ->
                        [pc : InstallerLabels, v : 0..MaxVersion, wait : SUBSET Nat]]
        BY <1>0, <4>1 DEF Exit, InstTyped, InstallerLabels
      <4>3. \A j \in Installers : inst'[j] = NoInstaller \/ inst'[j] = inst[j]
        BY <1>0, <4>1 DEF Exit, InstTyped
      <4> QED
        BY <1>0, <4>2, <4>3 DEF InstTyped, Idle
    <3> QED
      BY <3>1, <3>2, <3>3, <3>4
  <2>2. Replacing'
    <3>1. /\ inst'[i].pc = "none"
          /\ \A j \in Installers : j # i => inst'[j] = inst[j]
      BY <1>0, <1>12, Leaving DEF RemoveRequest
    <3> QED
      BY <1>0, <1>12, <3>1 DEF RemoveRequest, Replacing, Now, Crowd, Overlap,
         FilesTyped, InstTyped
  <2>3. Serving'
    <3>1. /\ inst'[i].pc = "none"
          /\ \A j \in Installers : j # i => inst'[j] = inst[j]
      BY <1>0, <1>12, Leaving DEF RemoveRequest
    <3>2. Overlap \notin scars =>
             \A j \in Installers : j # i => inst[j].pc = "none" /\ inst'[j].pc = "none"
      BY <1>0, <1>12, <3>1 DEF RemoveRequest, Replacing, Serving, Now
    <3>3. /\ inst[i].pc = "remove" /\ request' = NoRequest
          /\ UNCHANGED <<target, previous, tray, scars>>
      BY <1>12 DEF RemoveRequest, Now, Overlap, Crowd
    <3>4. Overlap \notin scars =>
             /\ Crowd \notin scars
             /\ tray.phase \notin {"seen", "add", "spawn"}
             /\ request # NoRequest /\ inst[i].v = request.v
             /\ request.v \in Nat /\ target \in Nat /\ request.v >= target
      BY <1>0, <3>3 DEF Serving, Now, FilesTyped, Requests
    <3> HIDE DEF NoRequest
    <3> QED
      BY <1>0, <3>1, <3>2, <3>3, <3>4 DEF Serving, Now
  <2> QED
    BY <2>1, <2>2, <2>3 DEF IInv
<1>13. CASE Dies(i)
  <2>1. Types'
    <3>1. FilesTyped'
      BY <1>0, <1>13 DEF Dies, Exit, FilesTyped, InstTyped
    <3>2. TrayTyped'
      BY <1>0, <1>13 DEF Dies, Exit, TrayTyped, FilesTyped
    <3>3. HudTyped'
      BY <1>0, <1>13 DEF Dies, Exit, HudTyped, FilesTyped, TrayTyped
    <3>4. InstTyped'
      <4>1. Exit(i)
        BY <1>13 DEF Dies
      <4>2. inst' \in [Installers ->
                        [pc : InstallerLabels, v : 0..MaxVersion, wait : SUBSET Nat]]
        BY <1>0, <4>1 DEF Exit, InstTyped, InstallerLabels
      <4>3. \A j \in Installers : inst'[j] = NoInstaller \/ inst'[j] = inst[j]
        BY <1>0, <4>1 DEF Exit, InstTyped
      <4> QED
        BY <1>0, <4>2, <4>3 DEF InstTyped, Idle
    <3> QED
      BY <3>1, <3>2, <3>3, <3>4
  <2>2. Replacing'
    BY <1>0, <1>13 DEF Dies, Exit, Replacing, Now, NoInstallerRuns, Idle, Crowd,
       Overlap, FilesTyped, InstTyped
  <2>3. Serving'
    BY <1>0, <1>13 DEF Dies, Exit, Serving, Now, NoInstallerRuns, Crowd,
       Overlap, FilesTyped, TrayTyped, HudTyped, InstTyped
  <2> QED
    BY <2>1, <2>2, <2>3 DEF IInv
<1> QED
  BY <1>1, <1>2, <1>3, <1>4, <1>5, <1>6, <1>7, <1>8, <1>9, <1>10, <1>11, <1>12,
     <1>13

LEMMA Inductive == Spec => []IInv
<1>1. ASSUME IInv, [Next]_vars PROVE IInv'
  <2>1. CASE Next
    BY <1>1, <2>1, PanelStep, TrayStep, InstallerStep DEF Next
  <2>2. CASE UNCHANGED vars
    BY <1>1, <2>2 DEF vars, IInv, Types, FilesTyped, TrayTyped, HudTyped,
       InstTyped, Replacing, Serving, Idle, Now, Versions
  <2> QED
    BY <1>1, <2>1, <2>2
<1> QED
  BY <1>1, InitIInv, PTL DEF Spec

\* The types of the files and of the processes; a request always names a
\* process to wait for (apply.go:18-66).
THEOREM TypeCorrect == Spec => []TypeOK
<1>1. IInv => TypeOK
  BY UpdateAssumption DEF IInv, Types, FilesTyped, TrayTyped, HudTyped,
     InstTyped, TypeOK, InstallerLabels, Requests, Alive, Versions
<1> QED
  BY <1>1, Inductive, PTL

\* The executable is missing only while an installer replaces it, or after one
\* was killed there, and its copy exists all that time (apply.go:124-168).
THEOREM ExecutableIsKept == Spec => []ExecutableKept
<1>1. IInv => ExecutableKept
  BY DEF IInv, Replacing, ExecutableKept
<1> QED
  BY <1>1, Inductive, PTL

\* An update never replaces a newer version, also when a release is withdrawn
\* or an installer is killed and run again (client.go:70-119, apply.go:124-168).
THEOREM NoOlderVersion == Spec => []NeverOlder
<1>1. IInv => NeverOlder
  BY DEF IInv, Serving, NeverOlder
<1> QED
  BY <1>1, Inductive, PTL

\* A request leaves the disk only after its version has been installed
\* (apply.go:68-122).
THEOREM RequestsAreServed == Spec => RequestServed
<1>1. ASSUME IInv, [Next]_vars,
             Overlap \notin scars, request # NoRequest, request' = NoRequest
      PROVE  target >= request.v
  <2> SUFFICES ASSUME Next PROVE target >= request.v
    BY <1>1 DEF vars
  <2>1. CASE \E i \in Installers : RemoveRequest(i)
    <3> PICK i \in Installers : RemoveRequest(i)
      BY <2>1
    <3>1. inst[i].pc = "remove" /\ target = inst[i].v /\ inst[i].v = request.v
      BY <1>1 DEF IInv, Serving, RemoveRequest, Now
    <3> QED
      BY <1>1, <3>1, UpdateAssumption DEF IInv, Types, FilesTyped, Requests
  <2>2. CASE WriteRequest
    BY <1>1, <2>2, UpdateAssumption DEF IInv, Types, HudTyped, WriteRequest,
       NoRequest
  <2>3. CASE UpdateAdds
    <3>1. tray.copy.v # 0 /\ request'.v = tray.copy.v
      BY <1>1, <2>3 DEF IInv, Types, TrayTyped, UpdateAdds, Versions, Requests
    <3> QED
      BY <1>1, <3>1 DEF NoRequest
  <2> QED
    BY <1>1, <2>1, <2>2, <2>3 DEF Next, Publish, HudOpens, HudCloses,
       CheckBegins, CheckEnds, Stage, TrayStarts, TrayEnds, UpdateSees,
       UpdateReads, UpdateFails, SpawnInstaller, Load, LoadFails, Waited,
       Backup, BackupFails, PutNew, PutFails, Sweep, Launch, LaunchFails, Dies
<1> QED
  BY <1>1, Inductive, PTL DEF Spec, RequestServed
=============================================================================
