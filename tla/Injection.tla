----------------------------- MODULE Injection -----------------------------
(***************************************************************************)
(* Installation and removal of the loader in Discord's resources           *)
(* directories (internal/injection/injection_windows.go, and the repair    *)
(* of cmd/bigducks/main.go before an uninstallation).                      *)
(*                                                                         *)
(* One process at a time runs Ensure or the uninstallation, and one action *)
(* is one change of the file system: the process may be killed between any *)
(* two (Crash), and any change may fail (the actions named ...Fails).      *)
(* A replaced or written-atomically file changes in one action.            *)
(*                                                                         *)
(* An archive stands for its content and for the digest that names its     *)
(* backup.  A stub is the directory that takes app.asar's place: level 0   *)
(* is empty, 1 has package.json, 2 is complete, 3 is complete and written  *)
(* by an earlier release.                                                  *)
(***************************************************************************)
EXTENDS Naturals, FiniteSets

CONSTANTS
    Dirs,           \* resources directories of the Discord releases
    Archives,       \* app.asar contents
    Unknown,        \* those that are neither Discord's nor a known mod's
    NoArchive,
    MaxEvents       \* bound: kills, and releases of Discord, of a mod or of
                    \* BIG DUCKS, in a behaviour

ASSUME ArchivesAssumption == Unknown \subseteq Archives /\ NoArchive \notin Archives
ASSUME MaxEventsAssumption == MaxEvents \in Nat

VARIABLES
    present,        \* the directories that exist
    latest,         \* the one of the release Discord starts
    app,            \* app.asar in each directory
    installing,     \* app.asar.discordstream-installing
    partial,        \* app.asar.discordstream-partial
    restoring,      \* app.asar.discordstream-restoring
    aside,          \* app.asar.discordstream-stub
    backups,        \* archives in the backup directory
    records,        \* the record of each directory in the metadata file
    pc, dir,        \* where the process is, the directory it works on
    todo, kept,     \* RestoreAll: records still to visit, and remaining
    spent,          \* RestoreAll: cleanupBackups
    outcome,        \* how the last operation ended
    orig,           \* history: what its owner last put in each app.asar
    scars,          \* history: where the process was killed
    changes         \* history: releases so far

files == <<app, installing, partial, restoring, aside>>
store == <<backups, records>>
restore == <<todo, kept, spent>>
world == <<present, latest, orig, changes>>
injectionVars == <<world, files, store, restore, pc, dir, outcome, scars>>

None == [kind |-> "none", of |-> NoArchive, level |-> 0]
File(c) == [kind |-> "file", of |-> c, level |-> 0]
Stub(c, n) == [kind |-> "stub", of |-> c, level |-> n]
IsStub(d, n) == app[d].kind = "stub" /\ app[d].level >= n
Recorded(d) == records[d] # NoArchive
\* Inspect: vanilla or recognized_mod.
HasKnownArchive(d) == app[d].kind = "file" /\ app[d].of \notin Unknown
NeedsRepair(d) == ~Recorded(d) \/ app[d].level = 3

MoreEvents == Cardinality(scars \ {"replaced"}) + changes < MaxEvents

Put(f, d, x) == [f EXCEPT ![d] = x]
Goto(label) == pc' = label /\ UNCHANGED <<dir, restore, outcome>>
Ends(result) ==
    /\ pc' = "idle" /\ outcome' = result
    /\ dir' = latest
    /\ todo' = {} /\ kept' = {} /\ spent' = {}

Init ==
    /\ \E d \in Dirs, c \in Archives :
          /\ present = {d} /\ latest = d
          /\ app = [e \in Dirs |-> IF e = d THEN File(c) ELSE None]
          /\ orig = [e \in Dirs |-> IF e = d THEN c ELSE NoArchive]
    /\ installing = [d \in Dirs |-> NoArchive]
    /\ restoring = [d \in Dirs |-> NoArchive]
    /\ partial = [d \in Dirs |-> None]
    /\ aside = [d \in Dirs |-> None]
    /\ backups = {}
    /\ records = [d \in Dirs |-> NoArchive]
    /\ pc = "idle" /\ dir = latest /\ outcome = "none"
    /\ todo = {} /\ kept = {} /\ spent = {}
    /\ scars = {} /\ changes = 0

-----------------------------------------------------------------------------
(* The owners of the directories, while nothing of BIG DUCKS runs.         *)

\* Discord installs a release beside the one there is.
DiscordUpdates ==
    /\ pc = "idle" /\ MoreEvents
    /\ \E d \in Dirs, c \in Archives :
          /\ orig[d] = NoArchive
          /\ present' = present \cup {d}
          /\ latest' = d /\ dir' = d
          /\ app' = Put(app, d, File(c))
          /\ orig' = Put(orig, d, c)
    /\ changes' = changes + 1
    /\ outcome' = "none"
    /\ UNCHANGED <<installing, partial, restoring, aside, store, restore, pc,
                   scars>>

\* ... and removes an older one.
DiscordRemoves ==
    /\ pc = "idle"
    /\ \E d \in present \ {latest} :
          /\ present' = present \ {d}
          /\ app' = Put(app, d, None)
          /\ installing' = Put(installing, d, NoArchive)
          /\ restoring' = Put(restoring, d, NoArchive)
          /\ partial' = Put(partial, d, None)
          /\ aside' = Put(aside, d, None)
    /\ outcome' = "none"
    /\ UNCHANGED <<latest, orig, store, restore, pc, dir, scars, changes>>

\* A repair of Discord or the installer of a mod replaces app.asar.
OwnerReplaces ==
    /\ pc = "idle" /\ MoreEvents
    /\ \E c \in Archives :
          /\ app' = Put(app, latest, File(c))
          /\ orig' = Put(orig, latest, c)
    /\ changes' = changes + 1
    /\ scars' = scars \cup {"replaced"}
    /\ outcome' = "none"
    /\ UNCHANGED <<present, latest, installing, partial, restoring, aside,
                   store, restore, pc, dir>>

\* A release of BIG DUCKS with another loader.
LoaderChanges ==
    /\ pc = "idle" /\ MoreEvents
    /\ app' = [d \in Dirs |-> IF IsStub(d, 2) THEN Stub(app[d].of, 3)
                              ELSE app[d]]
    /\ changes' = changes + 1
    /\ outcome' = "none"
    /\ UNCHANGED <<present, latest, orig, installing, partial, restoring,
                   aside, store, restore, pc, dir, scars>>
-----------------------------------------------------------------------------
(* Ensure: recoverInterruptedInstall.                                      *)

EnsureBegins ==
    /\ pc = "idle"
    /\ pc' = "recover" /\ outcome' = "none"
    /\ UNCHANGED <<world, files, store, restore, dir, scars>>

RecoverNothing ==
    /\ pc = "recover"
    /\ installing[dir] = NoArchive
    /\ Goto("inspect")
    /\ UNCHANGED <<world, files, store, scars>>

RecoverRenames ==
    /\ pc = "recover"
    /\ installing[dir] # NoArchive
    /\ app[dir] = None
    /\ app' = Put(app, dir, File(installing[dir]))
    /\ installing' = Put(installing, dir, NoArchive)
    /\ Goto("inspect")
    /\ UNCHANGED <<world, partial, restoring, aside, store, scars>>

RecoverRefuses ==
    /\ pc = "recover"
    /\ installing[dir] # NoArchive
    /\ app[dir].kind = "file" \/ (IsStub(dir, 0) /\ partial[dir] # None)
    /\ Ends("ambiguous")
    /\ UNCHANGED <<world, files, store, scars>>

RecoverMoves ==
    /\ pc = "recover"
    /\ installing[dir] # NoArchive
    /\ IsStub(dir, 0) /\ partial[dir] = None
    /\ partial' = Put(partial, dir, app[dir])
    /\ app' = Put(app, dir, None)
    /\ Goto("swap")
    /\ UNCHANGED <<world, installing, restoring, aside, store, scars>>

RecoverSwaps ==
    /\ pc = "swap"
    /\ app' = Put(app, dir, File(installing[dir]))
    /\ installing' = Put(installing, dir, NoArchive)
    /\ Goto("drop")
    /\ UNCHANGED <<world, partial, restoring, aside, store, scars>>

SwapFails ==
    /\ pc = "swap"
    /\ app' = Put(app, dir, partial[dir])
    /\ partial' = Put(partial, dir, None)
    /\ Ends("failed")
    /\ UNCHANGED <<world, installing, restoring, aside, store, scars>>

\* The error of RemoveAll is dropped.
RecoverDrops ==
    /\ pc = "drop"
    /\ \/ partial' = Put(partial, dir, None) /\ UNCHANGED scars
       \/ scars' = scars \cup {"drop"} /\ UNCHANGED partial
    /\ Goto("inspect")
    /\ UNCHANGED <<world, app, installing, restoring, aside, store>>

-----------------------------------------------------------------------------
(* Ensure: Inspect and what follows from it.                               *)

InspectRejects ==
    /\ pc = "inspect"
    /\ ~IsStub(dir, 2) /\ ~HasKnownArchive(dir)
    /\ Ends("nothing")
    /\ UNCHANGED <<world, files, store, scars>>

InspectOurs ==
    /\ pc = "inspect"
    /\ IsStub(dir, 2)
    /\ IF NeedsRepair(dir) THEN Goto("repair") ELSE Ends("installed")
    /\ UNCHANGED <<world, files, store, scars>>

\* repairRecord; the backup is read and must be there.
RepairRecord(d) ==
    /\ app[d].of \in backups
    /\ records' = Put(records, d, app[d].of)

EnsureRepairs ==
    /\ pc = "repair"
    /\ RepairRecord(dir)
    /\ Goto("rewrite")
    /\ UNCHANGED <<world, files, backups, scars>>

RewriteStub ==
    /\ pc = "rewrite"
    /\ app' = Put(app, dir, Stub(app[dir].of, 2))
    /\ Ends("installed")
    /\ UNCHANGED <<world, installing, partial, restoring, aside, store, scars>>

\* Bug: the backup is not written.
EnsureBackupUnwritten ==
    /\ pc = "inspect" /\ HasKnownArchive(dir)
    /\ Goto("move")
    /\ UNCHANGED <<world, files, store, scars>>

EnsureBackup ==
    /\ pc = "inspect"
    /\ HasKnownArchive(dir)
    /\ backups' = backups \cup {app[dir].of}
    /\ Goto("move")
    /\ UNCHANGED <<world, files, records, scars>>

\* recoverInterruptedInstall has left no installing file here.
MoveOriginal ==
    /\ pc = "move"
    /\ installing' = Put(installing, dir, app[dir].of)
    /\ app' = Put(app, dir, None)
    /\ Goto("mkdir")
    /\ UNCHANGED <<world, partial, restoring, aside, store, scars>>

Build(from, level, to) ==
    /\ pc = from
    /\ app' = Put(app, dir, Stub(installing[dir], level))
    /\ Goto(to)
    /\ UNCHANGED <<world, installing, partial, restoring, aside, store, scars>>

MakeStub == Build("mkdir", 0, "package")
WritePackage == Build("package", 1, "index")
WriteIndex == Build("index", 2, "record")

SaveRecord ==
    /\ pc = "record"
    /\ records' = Put(records, dir, installing[dir])
    /\ Goto("finish")
    /\ UNCHANGED <<world, files, backups, scars>>

\* A failure here leaves what a crash leaves.
Finish ==
    /\ pc = "finish"
    /\ installing' = Put(installing, dir, NoArchive)
    /\ Ends("installed")
    /\ UNCHANGED <<world, app, partial, restoring, aside, store, scars>>

BuildFails ==
    /\ pc \in {"mkdir", "package", "index", "record"}
    /\ Goto("undo")
    /\ UNCHANGED <<world, files, store, scars>>

UndoRemoves ==
    /\ pc = "undo"
    /\ app' = Put(app, dir, None)
    /\ Goto("unmove")
    /\ UNCHANGED <<world, installing, partial, restoring, aside, store, scars>>

UndoRenames ==
    /\ pc = "unmove"
    /\ app' = Put(app, dir, File(installing[dir]))
    /\ installing' = Put(installing, dir, NoArchive)
    /\ Ends("failed")
    /\ UNCHANGED <<world, partial, restoring, aside, store, scars>>

-----------------------------------------------------------------------------
(* The uninstallation: repairInjectionMetadataIfNeeded.                    *)

UninstallBegins ==
    /\ pc = "idle"
    /\ pc' = "repairs" /\ outcome' = "none"
    /\ todo' = {d \in present : IsStub(d, 2) /\ NeedsRepair(d)}
    /\ UNCHANGED <<world, files, store, dir, kept, spent, scars>>

UninstallRepairs ==
    /\ pc = "repairs"
    /\ \E d \in todo : RepairRecord(d) /\ todo' = todo \ {d}
    /\ UNCHANGED <<world, files, backups, pc, dir, kept, spent, outcome,
                   scars>>

RestoreRefuses ==
    /\ pc = "repairs" /\ todo = {}
    /\ backups # {} /\ \A d \in Dirs : ~Recorded(d)
    /\ Ends("refused")
    /\ UNCHANGED <<world, files, store, scars>>

\* Bug: directories without a record are visited.
RestoreBeginsAll ==
    /\ pc = "repairs" /\ todo = {}
    /\ backups = {} \/ \E d \in Dirs : Recorded(d)
    /\ todo' = Dirs
    /\ pc' = "restore"
    /\ UNCHANGED <<world, files, store, dir, kept, spent, outcome, scars>>

RestoreBegins ==
    /\ pc = "repairs" /\ todo = {}
    /\ backups = {} \/ \E d \in Dirs : Recorded(d)
    /\ todo' = {d \in Dirs : Recorded(d)}
    /\ pc' = "restore"
    /\ UNCHANGED <<world, files, store, dir, kept, spent, outcome, scars>>

-----------------------------------------------------------------------------
(* RestoreAll.                                                             *)

Spend(d) == spent' = spent \cup {records[d]} /\ UNCHANGED kept
Keep(d) == kept' = kept \cup {d} /\ UNCHANGED spent

\* The records that need no change of the directory.
RestoreVisits(d) ==
    /\ pc = "restore" /\ d \in todo
    /\ \/ /\ \/ d \notin present
             \/ records[d] \in backups /\ app[d] = File(records[d])
          /\ Spend(d)
       \/ /\ d \in present
          /\ \/ records[d] \notin backups
             \/ app[d] # File(records[d]) /\ ~IsStub(d, 2)
          /\ Keep(d)
    /\ todo' = todo \ {d}
    /\ UNCHANGED <<world, files, store, pc, dir, outcome, scars>>

RestoreStages(d) ==
    /\ pc = "restore" /\ d \in todo \cap present
    /\ records[d] \in backups /\ IsStub(d, 2)
    /\ restoring' = Put(restoring, d, records[d])
    /\ todo' = todo \ {d} /\ dir' = d /\ pc' = "aside"
    /\ UNCHANGED <<world, app, installing, partial, aside, store, kept, spent,
                   outcome, scars>>

\* A directory is not renamed over another, nor while something holds it open.
AsideFails ==
    /\ pc = "aside"
    /\ restoring' = Put(restoring, dir, NoArchive)
    /\ Keep(dir) /\ pc' = "restore"
    /\ UNCHANGED <<world, app, installing, partial, aside, store, dir, todo,
                   outcome, scars>>

AsideMoves ==
    /\ pc = "aside"
    /\ aside[dir] = None
    /\ aside' = Put(aside, dir, app[dir])
    /\ app' = Put(app, dir, None)
    /\ Goto("put")
    /\ UNCHANGED <<world, installing, partial, restoring, store, scars>>

PutsBack ==
    /\ pc = "put"
    /\ app' = Put(app, dir, File(restoring[dir]))
    /\ restoring' = Put(restoring, dir, NoArchive)
    /\ Goto("sweep")
    /\ UNCHANGED <<world, installing, partial, aside, store, scars>>

\* Bug: the stub is not moved back.
PutFailsBare ==
    /\ pc = "put"
    /\ restoring' = Put(restoring, dir, NoArchive)
    /\ Keep(dir) /\ pc' = "restore" /\ outcome' = "failed"
    /\ UNCHANGED <<world, app, aside, installing, partial, store, dir, todo,
                   scars>>

PutFails ==
    /\ pc = "put"
    /\ app' = Put(app, dir, aside[dir])
    /\ aside' = Put(aside, dir, None)
    /\ restoring' = Put(restoring, dir, NoArchive)
    /\ Keep(dir) /\ pc' = "restore" /\ outcome' = "failed"
    /\ UNCHANGED <<world, installing, partial, store, dir, todo, scars>>

\* The error of RemoveAll is dropped.
Sweep ==
    /\ pc = "sweep"
    /\ \/ aside' = Put(aside, dir, None) /\ UNCHANGED scars
       \/ scars' = scars \cup {"sweep"} /\ UNCHANGED aside
    /\ Spend(dir) /\ pc' = "restore"
    /\ UNCHANGED <<world, app, installing, partial, restoring, store, dir,
                   todo, outcome>>

\* Bug: a backup that a remaining record names is removed.
SharedToo == spent

Unneeded == spent \ {records[d] : d \in kept}

CleanBegins ==
    /\ pc = "restore" /\ todo = {}
    /\ spent' = Unneeded
    /\ pc' = "clean"
    /\ UNCHANGED <<world, files, store, dir, todo, kept, outcome, scars>>

CleanRemoves ==
    /\ pc = "clean"
    /\ \E c \in spent : backups' = backups \ {c} /\ spent' = spent \ {c}
    /\ UNCHANGED <<world, files, records, pc, dir, todo, kept, outcome, scars>>

\* Bug: the errors are not joined.
RestoreEndsWell ==
    /\ pc = "clean" /\ spent = {}
    /\ records' = [d \in Dirs |-> IF d \in kept THEN records[d]
                                  ELSE NoArchive]
    /\ Ends("restored")
    /\ UNCHANGED <<world, files, backups, scars>>

RestoreEnds ==
    /\ pc = "clean" /\ spent = {}
    /\ records' = [d \in Dirs |-> IF d \in kept THEN records[d]
                                  ELSE NoArchive]
    /\ Ends(CASE kept = {} -> "restored"
              [] kept # {} /\ outcome = "failed" -> "failed"
              [] OTHER -> "refused")
    /\ UNCHANGED <<world, files, backups, scars>>

-----------------------------------------------------------------------------
(* Failed changes and kills.                                               *)

\* A change that fails with nothing to undo ends the operation.
StepFails ==
    /\ pc \in {"recover", "inspect", "repair", "rewrite", "move", "repairs"}
    /\ Ends("failed")
    /\ UNCHANGED <<world, files, store, scars>>

Crash ==
    /\ pc # "idle" /\ pc \notin scars
    /\ MoreEvents
    /\ scars' = scars \cup {pc}
    /\ Ends("crashed")
    /\ UNCHANGED <<world, files, store>>

Owners == DiscordUpdates \/ DiscordRemoves \/ OwnerReplaces \/ LoaderChanges

EnsureNext ==
    \/ RecoverNothing \/ RecoverRenames \/ RecoverRefuses \/ RecoverMoves
    \/ RecoverSwaps \/ SwapFails \/ RecoverDrops
    \/ InspectRejects \/ InspectOurs \/ EnsureRepairs \/ RewriteStub
    \/ EnsureBackup \/ MoveOriginal \/ MakeStub \/ WritePackage \/ WriteIndex
    \/ SaveRecord \/ Finish \/ BuildFails \/ UndoRemoves \/ UndoRenames

RestoreNext ==
    \/ UninstallRepairs \/ RestoreRefuses \/ RestoreBegins
    \/ \E d \in Dirs : RestoreVisits(d) \/ RestoreStages(d)
    \/ AsideFails \/ AsideMoves \/ PutsBack \/ PutFails \/ Sweep
    \/ CleanBegins \/ CleanRemoves \/ RestoreEnds

Next ==
    \/ Owners \/ EnsureBegins \/ EnsureNext \/ UninstallBegins \/ RestoreNext
    \/ StepFails \/ Crash

Spec == Init /\ [][Next]_injectionVars

-----------------------------------------------------------------------------
(* Properties.                                                             *)

Labels == {"idle", "recover", "swap", "drop", "inspect", "repair", "rewrite",
           "move", "mkdir", "package", "index", "record", "finish", "undo",
           "unmove", "repairs", "restore", "aside", "put", "sweep", "clean"}
Entries == [kind : {"none", "file", "stub"}, of : Archives \cup {NoArchive},
            level : 0..3]
Maybe == Archives \cup {NoArchive}

\* Types.
TypeOK ==
    /\ present \subseteq Dirs /\ latest \in present
    /\ app \in [Dirs -> Entries]
    /\ partial \in [Dirs -> Entries] /\ aside \in [Dirs -> Entries]
    /\ installing \in [Dirs -> Maybe] /\ restoring \in [Dirs -> Maybe]
    /\ backups \subseteq Archives
    /\ records \in [Dirs -> Maybe]
    /\ pc \in Labels /\ dir \in Dirs
    /\ todo \subseteq Dirs /\ kept \subseteq Dirs
    /\ spent \subseteq Archives
    /\ outcome \in {"none", "installed", "nothing", "ambiguous", "failed",
                    "refused", "restored", "crashed"}
    /\ orig \in [Dirs -> Maybe]
    /\ scars \subseteq Labels \cup {"replaced"}
    /\ changes \in Nat

\* What its owner put in app.asar is never lost: it is there, or set aside by
\* an installation, or in the backups (Ensure, RestoreAll).
NothingLost ==
    \A d \in present :
        \/ app[d] = File(orig[d])
        \/ installing[d] = orig[d]
        \/ orig[d] \in backups

\* Discord loads: the archive a complete stub requires is in the backups, also
\* when releases share it and one of them is restored (RestoreAll), or Ensure
\* finds it set aside.
StubLoads ==
    \A d \in present :
        IsStub(d, 2) => \/ app[d].of \in backups
                        \/ app[d].of = installing[d]

\* Between operations each release has a loader, or the one the next Ensure
\* puts back, unless a restoration was killed between its two renames.
LoaderKept ==
    pc = "idle" => \A d \in present : \/ app[d] # None
                                    \/ installing[d] = orig[d]
                                    \/ "put" \in scars

\* When RestoreAll succeeds every release has its owner's archive again, but
\* for one whose installation was interrupted (uninstallation, main.go).
UninstallRestores ==
    outcome = "restored" =>
        \A d \in present : app[d] = File(orig[d]) \/ installing[d] # NoArchive
=============================================================================
