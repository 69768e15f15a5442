------------------------------ MODULE Startup ------------------------------
(***************************************************************************)
(* What starts at login (internal/startup/registry_windows.go).            *)
(*                                                                         *)
(* Installing replaces Discord's entry of the Run key by one of our own    *)
(* and remembers the original in a metadata file; uninstalling puts it     *)
(* back.  Each is a sequence of writes to the registry and the disk, any   *)
(* of which may fail or be the last before a kill.  The main process holds *)
(* the instance mutex; a process that prints the status does not, and      *)
(* migrates the entry of the product's former name like every other.       *)
(* Session composes these steps with the program that takes them.          *)
(*                                                                         *)
(* The value of our entry is the path of the executable it starts.         *)
(***************************************************************************)
EXTENDS Naturals, FiniteSets

CONSTANTS
    Paths,          \* paths our executable is started from
    Former,         \* the path of the former product's executable
    Entries,        \* values Discord gives its own entry
    None,
    MaxScars        \* bound: kills, failures and entries Discord renews

ASSUME StartupAssumption ==
    /\ Former \notin Paths
    /\ None \notin Paths \cup Entries \cup {Former}
    /\ MaxScars \in Nat

VARIABLES
    run,            \* our entry (StartupValue)
    legacy,         \* the entry of the former name
    direct,         \* Discord's own entry
    meta,           \* the metadata file
    proc,           \* the main process and the one that prints the status
    original,       \* history: the entry Discord last gave itself
    scars           \* history: what failed or was killed, and where

startupVars == <<run, legacy, direct, meta, proc, original, scars>>

Main == "main"
Status == "status"
Procs == {Main, Status}
NoMeta == [helper |-> None, original |-> None]
Asleep == [pc |-> "idle", mode |-> "none", path |-> None, copy |-> None,
           stored |-> NoMeta, outcome |-> "none"]

At(p, label) == proc[p].pc = label
Resting(p) == proc[p].pc \in {"idle", "ended"}
Goto(p, label) == proc' = [proc EXCEPT ![p].pc = label]
Ended(p, outcome) ==
    IF p = Status THEN Asleep
    ELSE [Asleep EXCEPT !.pc = "ended", !.outcome = outcome,
                        !.mode = proc[p].mode, !.path = proc[p].path]
End(p, outcome) == proc' = [proc EXCEPT ![p] = Ended(p, outcome)]

\* A scar that is not bounded: two processes ran when the former entry was there.
Raced == <<"raced", "migrate">>
MayScar(scar) == scar \notin scars /\ Cardinality(scars \ {Raced}) < MaxScars
Scarred(kinds) == scars \cap kinds # {}

Init ==
    /\ original \in Entries \cup {None}
    /\ run = None
    /\ \/ legacy = None /\ direct = original /\ meta = NoMeta
       \/ /\ legacy = Former /\ direct = None
          /\ meta = [helper |-> Former, original |-> original]
    /\ proc = [p \in Procs |-> Asleep]
    /\ scars = {}

Begin(p, mode, path) ==
    /\ Resting(p)
    /\ proc' = [proc EXCEPT ![p] = [Asleep EXCEPT !.pc = "migrate",
                                    !.mode = mode, !.path = path]]
    /\ scars' = IF legacy # None /\ \E q \in Procs : ~Resting(q)
                THEN scars \cup {Raced} ELSE scars
    /\ UNCHANGED <<run, legacy, direct, meta, original>>

-----------------------------------------------------------------------------
(* MigrateLegacyStartup, of every process.                                 *)

AfterMigration(p) ==
    IF proc[p].mode \in {"install", "uninstall"} THEN Goto(p, proc[p].mode)
    ELSE End(p, "ok")

MigrateReads(p) ==
    /\ At(p, "migrate")
    /\ IF run # None \/ legacy = None
       THEN AfterMigration(p)
       ELSE proc' = [proc EXCEPT ![p].pc = "copy", ![p].copy = legacy]
    /\ UNCHANGED <<run, legacy, direct, meta, original, scars>>

MigrateCopies(p) ==
    /\ At(p, "copy")
    /\ run' = proc[p].copy
    /\ Goto(p, "drop")
    /\ UNCHANGED <<legacy, direct, meta, original, scars>>

MigrateDrops(p) ==
    /\ At(p, "drop")
    /\ legacy' = None
    /\ AfterMigration(p)
    /\ UNCHANGED <<run, direct, meta, original, scars>>

-----------------------------------------------------------------------------
(* Install.                                                                *)

Decides(p, refused, stored) ==
    /\ At(p, "install")
    /\ IF meta.helper = proc[p].path /\ run = proc[p].path THEN End(p, "ok")
       ELSE IF refused THEN End(p, "refused")
       ELSE proc' = [proc EXCEPT ![p].pc = "note", ![p].stored = stored]
    /\ UNCHANGED <<run, legacy, direct, meta, original, scars>>

\* Our entry must be the one the metadata speaks of; it may be missing if this
\* executable wrote both.
InstallRefused(p) ==
    IF meta.helper \in {proc[p].path, None} THEN run # None
                                            ELSE run # meta.helper

InstallDecidesAnew(p) ==
    Decides(p, InstallRefused(p), [helper |-> proc[p].path, original |-> direct])

InstallDecides(p) ==
    Decides(p, InstallRefused(p), IF meta = NoMeta
                      THEN [helper |-> proc[p].path, original |-> direct]
                      ELSE [meta EXCEPT !.helper = proc[p].path])

InstallNotes(p) ==
    /\ At(p, "note")
    /\ meta' = proc[p].stored
    /\ Goto(p, "claim")
    /\ UNCHANGED <<run, legacy, direct, original, scars>>

InstallClaims(p) ==
    /\ At(p, "claim")
    /\ run' = proc[p].path
    /\ Goto(p, "evict")
    /\ UNCHANGED <<legacy, direct, meta, original, scars>>

InstallEvicts(p) ==
    /\ At(p, "evict")
    /\ direct' = None
    /\ End(p, "ok")
    /\ UNCHANGED <<run, legacy, meta, original, scars>>

-----------------------------------------------------------------------------
(* Uninstall.                                                              *)

UninstallDecides(p) ==
    /\ At(p, "uninstall")
    /\ IF meta = NoMeta THEN End(p, "ok")
       ELSE IF meta.helper # proc[p].path \/ run # proc[p].path
       THEN End(p, "refused")
       ELSE proc' = [proc EXCEPT ![p].pc = "release", ![p].stored = meta]
    /\ UNCHANGED <<run, legacy, direct, meta, original, scars>>

UninstallReleases(p) ==
    /\ At(p, "release")
    /\ run' = None
    /\ Goto(p, "return")
    /\ UNCHANGED <<legacy, direct, meta, original, scars>>

UninstallReturns(p) ==
    /\ At(p, "return")
    /\ direct' = IF proc[p].stored.original = None THEN direct
                 ELSE proc[p].stored.original
    /\ Goto(p, "forget")
    /\ UNCHANGED <<run, legacy, meta, original, scars>>

UninstallForgetsNothing(p) ==
    /\ At(p, "forget")
    /\ End(p, "ok")
    /\ UNCHANGED <<run, legacy, direct, meta, original, scars>>

UninstallForgets(p) ==
    /\ At(p, "forget")
    /\ meta' = NoMeta
    /\ End(p, "ok")
    /\ UNCHANGED <<run, legacy, direct, original, scars>>

-----------------------------------------------------------------------------
(* What goes wrong.                                                        *)

Writes == {"copy", "drop", "note", "claim", "evict", "release", "return",
           "forget"}

FailsBare(p) ==
    LET scar == <<"failed", proc[p].pc>> IN
    /\ proc[p].pc \in Writes /\ MayScar(scar)
    /\ scars' = scars \cup {scar}
    /\ End(p, "failed")
    /\ UNCHANGED <<run, legacy, direct, meta, original>>

\* A write fails.  Three of them first undo the write before.
Fails(p) ==
    LET scar == <<"failed", proc[p].pc>> IN
    /\ proc[p].pc \in Writes /\ MayScar(scar)
    /\ At(p, "evict") => direct # None
    /\ At(p, "return") => proc[p].stored.original # None
    /\ scars' = scars \cup {scar}
    /\ run' = CASE proc[p].pc \in {"drop", "evict"} -> None
                [] At(p, "return") -> proc[p].path
                [] OTHER -> run
    /\ End(p, "failed")
    /\ UNCHANGED <<legacy, direct, meta, original>>

Killed(p) ==
    LET scar == <<"killed", proc[p].pc>> IN
    /\ proc[p].pc \in Writes /\ MayScar(scar)
    /\ scars' = scars \cup {scar}
    /\ proc' = [proc EXCEPT ![p] = Asleep]
    /\ UNCHANGED <<run, legacy, direct, meta, original>>

\* Discord's settings and its updates write its entry again.
DiscordRenews(e) ==
    LET scar == <<"renewed", e>> IN
    /\ MayScar(scar)
    /\ scars' = scars \cup {scar}
    /\ direct' = e /\ original' = e
    /\ UNCHANGED <<run, legacy, meta, proc>>

Steps(p) ==
    \/ MigrateReads(p) \/ MigrateCopies(p) \/ MigrateDrops(p)
    \/ InstallDecides(p) \/ InstallNotes(p) \/ InstallClaims(p)
    \/ InstallEvicts(p)
    \/ UninstallDecides(p) \/ UninstallReleases(p) \/ UninstallReturns(p)
    \/ UninstallForgets(p)
    \/ Fails(p) \/ Killed(p)

-----------------------------------------------------------------------------
(* Properties.                                                             *)

\* Types.
TypeOK ==
    /\ run \in Paths \cup {Former, None} /\ legacy \in {Former, None}
    /\ direct \in Entries \cup {None} /\ original \in Entries \cup {None}
    /\ meta \in [helper : Paths \cup {Former, None}, original : Entries \cup {None}]
    /\ \A p \in Procs :
          /\ proc[p].pc \in Writes \cup {"idle", "ended", "migrate", "install",
                                         "uninstall", "tray"}
          /\ proc[p].outcome \in {"none", "ok", "refused", "failed"}

Renewals == {<<"renewed", e>> : e \in Entries}

\* The entry Discord gave itself is never lost: it is in the registry or in the
\* metadata, whatever fails or is killed, unless Discord writes another one
\* while ours is installed.
EntryKept ==
    Scarred(Renewals) \/ original \in {direct, meta.original}

SomethingStarts ==
    original # None =>
        \/ {run, legacy, direct} # {None}
        \/ At(Main, "return")
        \/ Scarred(Renewals \cup {Raced, <<"killed", "return">>})

Installed ==
    At(Main, "ended") /\ proc[Main].mode = "install" /\ proc[Main].outcome = "ok"
OneStarts ==
    Installed => \/ run = proc[Main].path /\ meta.helper = run /\ direct = None
                 \/ Scarred(Renewals \cup {Raced, <<"killed", "evict">>})

\* Who had Discord start at login has something that does, whatever fails, but
\* for a kill between two writes of Uninstall; and once an installation ended
\* well it is one thing only, but for a kill before Discord's own entry is
\* removed (Install, Uninstall, MigrateLegacyStartup).
LoginStarts == SomethingStarts /\ OneStarts

\* An uninstallation that succeeds leaves the registry as it was before us.
UninstallUndoes ==
    At(Main, "ended") /\ proc[Main].mode = "uninstall" /\ proc[Main].outcome = "ok" =>
        \/ direct = original /\ meta = NoMeta /\ run = None /\ legacy = None
        \/ Scarred(Renewals \cup {Raced, <<"killed", "drop">>})
=============================================================================
