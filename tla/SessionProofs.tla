--------------------------- MODULE SessionProofs ---------------------------
(***************************************************************************)
(* What starts at login, for any number of paths, entries, failures and    *)
(* kills, and for any lists of hosts.                                      *)
(***************************************************************************)
EXTENDS Session, SequenceTheorems, TLAPS

Procedures == [pc : Writes \cup {"idle", "ended", "migrate", "install", "uninstall",
                                 "tray"},
               mode : {"none", "install", "start", "uninstall", "status"},
               path : Paths \cup {None}, copy : {Former, None},
               stored : [helper : Paths \cup {Former, None},
                         original : Entries \cup {None}],
               outcome : {"none", "ok", "refused", "failed"}]

Installing == {"install", "note", "claim", "evict"}
Uninstalling == {"uninstall", "release", "return", "forget"}

Busy(p) == proc[p].pc \notin {"idle", "ended", "tray"}
Doing(labels) == proc[Main].pc \in labels
Named == [helper |-> proc[Main].path, original |-> original]

\* Who does what: only the main process goes beyond the migration.
Roles ==
    /\ proc \in [Procs -> Procedures]
    /\ proc[Status].pc \in {"idle", "migrate", "copy", "drop"}
    /\ proc[Status].pc # "idle" => proc[Status].mode = "status"
    /\ Doing(Installing) => proc[Main].mode = "install"
    /\ Doing(Uninstalling) => proc[Main].mode = "uninstall"
    /\ proc[Main].mode \in {"install", "uninstall"} => proc[Main].path \in Paths

\* Discord's entry is in its place until it is in the metadata.
EntryInv ==
    \/ Scarred(Renewals)
    \/ /\ direct \in {original, None}
       /\ IF meta = NoMeta THEN direct = original ELSE meta.original = original
       /\ Doing({"note"}) => proc[Main].stored = Named
       /\ Doing({"claim", "evict", "release", "return"}) => meta = Named
       /\ Doing({"release", "return"}) => proc[Main].stored = Named
       /\ Doing({"forget"}) => direct = original

\* One process migrates, and only while the former entry is there.
RaceInv ==
    \/ Raced \in scars
    \/ /\ legacy # None => ~Busy(Main) \/ ~Busy(Status)
       /\ \A p \in Procs :
             /\ proc[p].pc \in {"copy", "drop"} => legacy = Former
             /\ At(p, "copy") => proc[p].copy = Former /\ run = None
             /\ At(p, "drop") => run = Former
       /\ Doing({"evict", "release"}) => run = proc[Main].path
       /\ Doing({"return"}) => run = None

\* Our entry is never beside Discord's, but before an installation removes it.
OneInv ==
    \/ Scarred(Renewals \cup {Raced, <<"killed", "evict">>})
    \/ /\ meta.helper = run /\ run # None /\ ~Doing({"evict"}) => direct = None
       /\ meta.helper = Former => direct = None
       /\ Doing({"return"}) => direct = None
       /\ Doing({"note"}) => run # proc[Main].path
       /\ Installed => run = proc[Main].path

\* Once a migration is over there is no former entry, and ours has metadata.
FormerInv ==
    \/ Scarred(Renewals \cup {Raced, <<"killed", "drop">>})
    \/ /\ run # None => legacy = None \/ \E p \in Procs : At(p, "drop")
       /\ Doing(Installing \cup Uninstalling) => legacy = None
       /\ meta = NoMeta => run = None /\ legacy = None
       /\ Doing({"forget"}) => run = None

StartupInv ==
    /\ TypeOK /\ Roles /\ EntryInv /\ RaceInv /\ OneInv /\ FormerInv
    /\ LoginStarts /\ UninstallUndoes

\* A process ends; well only if it had nothing to do.
LEMMA Ends ==
    ASSUME StartupInv, NEW p \in Procs, NEW o \in {"ok", "refused", "failed"},
           UNCHANGED <<run, legacy, direct, meta, original, scars>>,
           proc[p].pc \in {"migrate", "install", "uninstall"}, End(p, o),
           o = "ok" /\ p = Main =>
               \/ proc[p].mode \notin {"install", "uninstall"}
               \/ At(p, "install") /\ meta.helper = proc[p].path /\ run = proc[p].path
               \/ At(p, "uninstall") /\ meta = NoMeta
    PROVE  StartupInv'
<1> USE StartupAssumption DEF StartupInv, At, Goto, End, Asleep, NoMeta, Procs,
   Main, Status, Procedures, Writes, Installing, Uninstalling, Busy, Doing, Named,
   Scarred, Raced, Renewals
<1>1. CASE p = Main
  <2>0. /\ proc' = [proc EXCEPT ![Main] =
                      [pc |-> "ended", mode |-> proc[Main].mode, path |-> proc[Main].path,
                       copy |-> None, stored |-> NoMeta, outcome |-> o]]
        /\ proc[Main].pc \in {"migrate", "install", "uninstall"}
    BY <1>1 DEF Ended
  <2>1. TypeOK'
    BY <1>1, <2>0 DEF TypeOK, Roles
  <2>2. Roles'
    BY <1>1, <2>0 DEF TypeOK, Roles
  <2>3. EntryInv'
    BY <1>1, <2>0 DEF TypeOK, Roles, EntryInv
  <2>4. RaceInv'
    BY <1>1, <2>0 DEF TypeOK, Roles, RaceInv
  <2>5. OneInv'
    BY <1>1, <2>0 DEF TypeOK, Roles, EntryInv, RaceInv, OneInv, Installed,
       LoginStarts, OneStarts
  <2>6. FormerInv'
    BY <1>1, <2>0 DEF TypeOK, Roles, EntryInv, RaceInv, FormerInv
  <2>7. LoginStarts'
    BY <1>1, <2>0 DEF TypeOK, Roles, EntryInv, RaceInv, OneInv, LoginStarts,
       SomethingStarts, OneStarts, Installed
  <2>8. UninstallUndoes'
    BY <1>1, <2>0 DEF TypeOK, Roles, EntryInv, RaceInv, FormerInv, UninstallUndoes
  <2> QED
    BY <2>1, <2>2, <2>3, <2>4, <2>5, <2>6, <2>7, <2>8
<1>2. CASE p = Status
  <2>0. proc' = [proc EXCEPT ![Status] = Asleep]
    BY <1>2 DEF Ended
  <2>1. TypeOK'
    BY <1>2, <2>0 DEF TypeOK, Roles
  <2>2. Roles'
    BY <1>2, <2>0 DEF TypeOK, Roles
  <2>3. EntryInv'
    BY <1>2, <2>0 DEF TypeOK, Roles, EntryInv
  <2>4. RaceInv'
    BY <1>2, <2>0 DEF TypeOK, Roles, RaceInv
  <2>5. OneInv'
    BY <1>2, <2>0 DEF TypeOK, Roles, EntryInv, RaceInv, OneInv, Installed,
       LoginStarts, OneStarts
  <2>6. FormerInv'
    BY <1>2, <2>0 DEF TypeOK, Roles, EntryInv, RaceInv, FormerInv
  <2>7. LoginStarts'
    BY <1>2, <2>0 DEF TypeOK, Roles, EntryInv, RaceInv, OneInv, LoginStarts,
       SomethingStarts, OneStarts, Installed
  <2>8. UninstallUndoes'
    BY <1>2, <2>0 DEF TypeOK, Roles, EntryInv, RaceInv, FormerInv, UninstallUndoes
  <2> QED
    BY <2>1, <2>2, <2>3, <2>4, <2>5, <2>6, <2>7, <2>8
<1> QED
  BY <1>1, <1>2

\* A process that migrated, or had nothing to migrate, does what it was asked.
LEMMA Enters ==
    ASSUME StartupInv, NEW p \in Procs, At(p, "migrate") \/ At(p, "drop"), AfterMigration(p),
           legacy' = IF At(p, "drop") THEN None ELSE legacy,
           At(p, "migrate") => run # None \/ legacy = None,
           UNCHANGED <<run, direct, meta, original, scars>>
    PROVE  StartupInv'
<1> USE StartupAssumption DEF StartupInv, At, Goto, End, Asleep, NoMeta, Procs,
   Main, Status, Procedures, Writes, Installing, Uninstalling, Busy, Doing, Named,
   Scarred, Raced, Renewals
<1>1. CASE At(p, "migrate") /\ proc[p].mode \notin {"install", "uninstall"}
  <2>1. End(p, "ok") /\ legacy' = legacy
    BY <1>1 DEF AfterMigration
  <2> QED
    BY <1>1, <2>1, Ends
<1>2. CASE At(p, "migrate") /\ proc[p].mode = "install"
  <2>0. p = Main /\ legacy' = legacy /\ proc' = [proc EXCEPT ![Main].pc = "install"]
    BY <1>2 DEF AfterMigration, Roles
  <2>1. TypeOK'
    BY <1>2, <2>0 DEF TypeOK, Roles
  <2>2. Roles'
    BY <1>2, <2>0 DEF TypeOK, Roles
  <2>3. EntryInv'
    BY <1>2, <2>0 DEF TypeOK, Roles, EntryInv
  <2>4. RaceInv'
    BY <1>2, <2>0 DEF TypeOK, Roles, RaceInv
  <2>5. OneInv'
    BY <1>2, <2>0 DEF TypeOK, Roles, EntryInv, RaceInv, OneInv, Installed,
       LoginStarts, OneStarts
  <2>6. FormerInv'
    BY <1>2, <2>0 DEF TypeOK, Roles, EntryInv, RaceInv, FormerInv
  <2>7. LoginStarts'
    BY <1>2, <2>0 DEF TypeOK, Roles, EntryInv, RaceInv, OneInv, LoginStarts,
       SomethingStarts, OneStarts, Installed
  <2>8. UninstallUndoes'
    BY <1>2, <2>0 DEF TypeOK, Roles, EntryInv, RaceInv, FormerInv, UninstallUndoes
  <2> QED
    BY <2>1, <2>2, <2>3, <2>4, <2>5, <2>6, <2>7, <2>8
<1>3. CASE At(p, "migrate") /\ proc[p].mode = "uninstall"
  <2>0. p = Main /\ legacy' = legacy /\ proc' = [proc EXCEPT ![Main].pc = "uninstall"]
    BY <1>3 DEF AfterMigration, Roles
  <2>1. TypeOK'
    BY <1>3, <2>0 DEF TypeOK, Roles
  <2>2. Roles'
    BY <1>3, <2>0 DEF TypeOK, Roles
  <2>3. EntryInv'
    BY <1>3, <2>0 DEF TypeOK, Roles, EntryInv
  <2>4. RaceInv'
    BY <1>3, <2>0 DEF TypeOK, Roles, RaceInv
  <2>5. OneInv'
    BY <1>3, <2>0 DEF TypeOK, Roles, EntryInv, RaceInv, OneInv, Installed,
       LoginStarts, OneStarts
  <2>6. FormerInv'
    BY <1>3, <2>0 DEF TypeOK, Roles, EntryInv, RaceInv, FormerInv
  <2>7. LoginStarts'
    BY <1>3, <2>0 DEF TypeOK, Roles, EntryInv, RaceInv, OneInv, LoginStarts,
       SomethingStarts, OneStarts, Installed
  <2>8. UninstallUndoes'
    BY <1>3, <2>0 DEF TypeOK, Roles, EntryInv, RaceInv, FormerInv, UninstallUndoes
  <2> QED
    BY <2>1, <2>2, <2>3, <2>4, <2>5, <2>6, <2>7, <2>8
<1>4. CASE At(p, "drop") /\ proc[p].mode = "install"
  <2>0. p = Main /\ legacy' = None /\ proc' = [proc EXCEPT ![Main].pc = "install"]
    BY <1>4 DEF AfterMigration, Roles
  <2>1. TypeOK'
    BY <1>4, <2>0 DEF TypeOK, Roles
  <2>2. Roles'
    BY <1>4, <2>0 DEF TypeOK, Roles
  <2>3. EntryInv'
    BY <1>4, <2>0 DEF TypeOK, Roles, EntryInv
  <2>4. RaceInv'
    BY <1>4, <2>0 DEF TypeOK, Roles, RaceInv
  <2>5. OneInv'
    BY <1>4, <2>0 DEF TypeOK, Roles, EntryInv, RaceInv, OneInv, Installed,
       LoginStarts, OneStarts
  <2>6. FormerInv'
    BY <1>4, <2>0 DEF TypeOK, Roles, EntryInv, RaceInv, FormerInv
  <2>7. LoginStarts'
    BY <1>4, <2>0 DEF TypeOK, Roles, EntryInv, RaceInv, OneInv, LoginStarts,
       SomethingStarts, OneStarts, Installed
  <2>8. UninstallUndoes'
    BY <1>4, <2>0 DEF TypeOK, Roles, EntryInv, RaceInv, FormerInv, UninstallUndoes
  <2> QED
    BY <2>1, <2>2, <2>3, <2>4, <2>5, <2>6, <2>7, <2>8
<1>5. CASE At(p, "drop") /\ proc[p].mode = "uninstall"
  <2>0. p = Main /\ legacy' = None /\ proc' = [proc EXCEPT ![Main].pc = "uninstall"]
    BY <1>5 DEF AfterMigration, Roles
  <2>1. TypeOK'
    BY <1>5, <2>0 DEF TypeOK, Roles
  <2>2. Roles'
    BY <1>5, <2>0 DEF TypeOK, Roles
  <2>3. EntryInv'
    BY <1>5, <2>0 DEF TypeOK, Roles, EntryInv
  <2>4. RaceInv'
    BY <1>5, <2>0 DEF TypeOK, Roles, RaceInv
  <2>5. OneInv'
    BY <1>5, <2>0 DEF TypeOK, Roles, EntryInv, RaceInv, OneInv, Installed,
       LoginStarts, OneStarts
  <2>6. FormerInv'
    BY <1>5, <2>0 DEF TypeOK, Roles, EntryInv, RaceInv, FormerInv
  <2>7. LoginStarts'
    BY <1>5, <2>0 DEF TypeOK, Roles, EntryInv, RaceInv, OneInv, LoginStarts,
       SomethingStarts, OneStarts, Installed
  <2>8. UninstallUndoes'
    BY <1>5, <2>0 DEF TypeOK, Roles, EntryInv, RaceInv, FormerInv, UninstallUndoes
  <2> QED
    BY <2>1, <2>2, <2>3, <2>4, <2>5, <2>6, <2>7, <2>8
<1>6. CASE /\ At(p, "drop") /\ p = Main
          /\ proc[p].mode \notin {"install", "uninstall"}
  <2>0. /\ proc' = [proc EXCEPT ![Main] =
                      [pc |-> "ended", mode |-> proc[Main].mode, path |-> proc[Main].path,
                       copy |-> None, stored |-> NoMeta, outcome |-> "ok"]]
        /\ legacy' = None
    BY <1>6 DEF AfterMigration, Ended
  <2>1. TypeOK'
    BY <1>6, <2>0 DEF TypeOK, Roles
  <2>2. Roles'
    BY <1>6, <2>0 DEF TypeOK, Roles
  <2>3. EntryInv'
    BY <1>6, <2>0 DEF TypeOK, Roles, EntryInv
  <2>4. RaceInv'
    BY <1>6, <2>0 DEF TypeOK, Roles, RaceInv
  <2>5. OneInv'
    BY <1>6, <2>0 DEF TypeOK, Roles, EntryInv, RaceInv, OneInv, Installed,
       LoginStarts, OneStarts
  <2>6. FormerInv'
    BY <1>6, <2>0 DEF TypeOK, Roles, EntryInv, RaceInv, FormerInv
  <2>7. LoginStarts'
    BY <1>6, <2>0 DEF TypeOK, Roles, EntryInv, RaceInv, OneInv, LoginStarts,
       SomethingStarts, OneStarts, Installed
  <2>8. UninstallUndoes'
    BY <1>6, <2>0 DEF TypeOK, Roles, EntryInv, RaceInv, FormerInv, UninstallUndoes
  <2> QED
    BY <2>1, <2>2, <2>3, <2>4, <2>5, <2>6, <2>7, <2>8
<1>7. CASE At(p, "drop") /\ p = Status
  <2>0. legacy' = None /\ proc' = [proc EXCEPT ![Status] = Asleep]
    BY <1>7 DEF AfterMigration, Ended, Roles
  <2>1. TypeOK'
    BY <1>7, <2>0 DEF TypeOK, Roles
  <2>2. Roles'
    BY <1>7, <2>0 DEF TypeOK, Roles
  <2>3. EntryInv'
    BY <1>7, <2>0 DEF TypeOK, Roles, EntryInv
  <2>4. RaceInv'
    BY <1>7, <2>0 DEF TypeOK, Roles, RaceInv
  <2>5. OneInv'
    BY <1>7, <2>0 DEF TypeOK, Roles, EntryInv, RaceInv, OneInv, Installed,
       LoginStarts, OneStarts
  <2>6. FormerInv'
    BY <1>7, <2>0 DEF TypeOK, Roles, EntryInv, RaceInv, FormerInv
  <2>7. LoginStarts'
    BY <1>7, <2>0 DEF TypeOK, Roles, EntryInv, RaceInv, OneInv, LoginStarts,
       SomethingStarts, OneStarts, Installed
  <2>8. UninstallUndoes'
    BY <1>7, <2>0 DEF TypeOK, Roles, EntryInv, RaceInv, FormerInv, UninstallUndoes
  <2> QED
    BY <2>1, <2>2, <2>3, <2>4, <2>5, <2>6, <2>7, <2>8
<1> QED
  BY <1>1, <1>2, <1>3, <1>4, <1>5, <1>6, <1>7

LEMMA StartupStep ==
    ASSUME StartupInv, NEW p \in Procs, Steps(p)
    PROVE  StartupInv'
<1> USE StartupAssumption DEF StartupInv, At, Goto, End, Asleep, NoMeta, Procs,
   Main, Status, Procedures, Writes, Installing, Uninstalling, Busy, Doing, Named,
   Scarred, Raced, Renewals
<1>1. CASE MigrateReads(p)
  <2>1. CASE run # None \/ legacy = None
    BY <1>1, <2>1, Enters DEF MigrateReads
  <2>2. CASE run = None /\ legacy # None
    <3>0. /\ proc' = [proc EXCEPT ![p].pc = "copy", ![p].copy = legacy]
          /\ UNCHANGED <<run, legacy, direct, meta, original, scars>>
      BY <1>1, <2>2 DEF MigrateReads
    <3>1. TypeOK'
      BY <1>1, <2>2, <3>0 DEF MigrateReads, TypeOK, Roles
    <3>2. Roles'
      BY <1>1, <2>2, <3>0 DEF MigrateReads, TypeOK, Roles
    <3>3. EntryInv'
      BY <1>1, <2>2, <3>0 DEF MigrateReads, TypeOK, Roles, EntryInv
    <3>4. RaceInv'
      BY <1>1, <2>2, <3>0 DEF MigrateReads, TypeOK, Roles, RaceInv
    <3>5. OneInv'
      BY <1>1, <2>2, <3>0 DEF MigrateReads, TypeOK, Roles, EntryInv, RaceInv,
         OneInv, Installed, LoginStarts, OneStarts
    <3>6. FormerInv'
      BY <1>1, <2>2, <3>0 DEF MigrateReads, TypeOK, Roles, EntryInv, RaceInv,
         FormerInv
    <3>7. LoginStarts'
      BY <1>1, <2>2, <3>0 DEF MigrateReads, TypeOK, Roles, EntryInv, RaceInv,
         OneInv, LoginStarts, SomethingStarts, OneStarts, Installed
    <3>8. UninstallUndoes'
      BY <1>1, <2>2, <3>0 DEF MigrateReads, TypeOK, Roles, EntryInv, RaceInv,
         FormerInv, UninstallUndoes
    <3> QED
      BY <3>1, <3>2, <3>3, <3>4, <3>5, <3>6, <3>7, <3>8
  <2> QED
    BY <2>1, <2>2
<1>2. CASE MigrateCopies(p)
  <2>1. TypeOK'
    BY <1>2 DEF MigrateCopies, Ended, TypeOK, Roles
  <2>2. Roles'
    BY <1>2 DEF MigrateCopies, Ended, TypeOK, Roles
  <2>3. EntryInv'
    BY <1>2 DEF MigrateCopies, Ended, TypeOK, Roles, EntryInv
  <2>4. RaceInv'
    BY <1>2 DEF MigrateCopies, Ended, TypeOK, Roles, RaceInv
  <2>5. OneInv'
    BY <1>2 DEF MigrateCopies, Ended, TypeOK, Roles, EntryInv, RaceInv, OneInv,
       Installed, LoginStarts, OneStarts
  <2>6. FormerInv'
    BY <1>2 DEF MigrateCopies, Ended, TypeOK, Roles, EntryInv, RaceInv, FormerInv
  <2>7. LoginStarts'
    BY <1>2 DEF MigrateCopies, Ended, TypeOK, Roles, EntryInv, RaceInv, OneInv,
       LoginStarts, SomethingStarts, OneStarts, Installed
  <2>8. UninstallUndoes'
    BY <1>2 DEF MigrateCopies, Ended, TypeOK, Roles, EntryInv, RaceInv, FormerInv,
       UninstallUndoes
  <2> QED
    BY <2>1, <2>2, <2>3, <2>4, <2>5, <2>6, <2>7, <2>8
<1>3. CASE MigrateDrops(p)
  <2> QED
    BY <1>3, Enters DEF MigrateDrops
<1>4. CASE InstallDecides(p)
  <2>1. p = Main
    BY <1>4 DEF InstallDecides, Decides, Roles
  <2>2. CASE meta.helper = proc[p].path /\ run = proc[p].path
    BY <1>4, <2>1, <2>2, Ends DEF InstallDecides, Decides
  <2>3. CASE End(p, "refused")
    BY <1>4, <2>1, <2>3, Ends DEF InstallDecides, Decides
  <2>4. CASE ~(meta.helper = proc[p].path /\ run = proc[p].path) /\ ~End(p, "refused")
    <3>0. /\ proc[Main].pc = "install" /\ run # proc[Main].path
          /\ proc' = [proc EXCEPT ![Main].pc = "note", ![Main].stored =
                         IF meta = NoMeta
                         THEN [helper |-> proc[Main].path, original |-> direct]
                         ELSE [helper |-> proc[Main].path, original |-> meta.original]]
          /\ UNCHANGED <<run, legacy, direct, meta, original, scars>>
      BY <1>4, <2>1, <2>4 DEF InstallDecides, Decides, InstallRefused, TypeOK, Roles
    <3>1. TypeOK'
      BY <3>0 DEF TypeOK, Roles
    <3>2. Roles'
      <4> DEFINE S == IF meta = NoMeta
                       THEN [helper |-> proc[Main].path, original |-> direct]
                       ELSE [helper |-> proc[Main].path, original |-> meta.original]
      <4>1. S \in [helper : Paths \cup {Former, None}, original : Entries \cup {None}]
        BY <3>0 DEF TypeOK, Roles
      <4> DEFINE Q(l) == [proc[Main] EXCEPT !.pc = l, !.stored = S]
      <4>2. proc[Main] \in Procedures
        BY DEF Roles
      <4>3. PICK l \in {"note", "release"} : proc' = [proc EXCEPT ![Main] = Q(l)]
        BY <3>0, <4>2 DEF Roles
      <4> HIDE DEF S
      <4>4. Q(l) \in Procedures
        BY <4>1, <4>2
      <4> HIDE DEF Q
      <4>5. proc' \in [Procs -> Procedures]
        BY <4>3, <4>4 DEF Roles
      <4> QED
        BY <3>0, <4>5 DEF Roles
    <3>3. EntryInv'
      BY <3>0 DEF TypeOK, Roles, EntryInv
    <3>4. RaceInv'
      BY <3>0 DEF TypeOK, Roles, RaceInv
    <3>5. OneInv'
      BY <3>0 DEF TypeOK, Roles, EntryInv, RaceInv, OneInv, Installed, LoginStarts,
         OneStarts
    <3>6. FormerInv'
      BY <3>0 DEF TypeOK, Roles, EntryInv, RaceInv, FormerInv
    <3>7. LoginStarts'
      BY <3>0 DEF TypeOK, Roles, EntryInv, RaceInv, OneInv, LoginStarts,
         SomethingStarts, OneStarts, Installed
    <3>8. UninstallUndoes'
      BY <3>0 DEF TypeOK, Roles, EntryInv, RaceInv, FormerInv, UninstallUndoes
    <3> QED
      BY <3>1, <3>2, <3>3, <3>4, <3>5, <3>6, <3>7, <3>8
  <2> QED
    BY <2>2, <2>3, <2>4
<1>5. CASE InstallNotes(p)
  <2>1. TypeOK'
    BY <1>5 DEF InstallNotes, Ended, TypeOK, Roles
  <2>2. Roles'
    BY <1>5 DEF InstallNotes, Ended, TypeOK, Roles
  <2>3. EntryInv'
    BY <1>5 DEF InstallNotes, Ended, TypeOK, Roles, EntryInv
  <2>4. RaceInv'
    BY <1>5 DEF InstallNotes, Ended, TypeOK, Roles, RaceInv
  <2>5. OneInv'
    BY <1>5 DEF InstallNotes, Ended, TypeOK, Roles, EntryInv, RaceInv, OneInv,
       Installed, LoginStarts, OneStarts
  <2>6. FormerInv'
    BY <1>5 DEF InstallNotes, Ended, TypeOK, Roles, EntryInv, RaceInv, FormerInv
  <2>7. LoginStarts'
    BY <1>5 DEF InstallNotes, Ended, TypeOK, Roles, EntryInv, RaceInv, OneInv,
       LoginStarts, SomethingStarts, OneStarts, Installed
  <2>8. UninstallUndoes'
    BY <1>5 DEF InstallNotes, Ended, TypeOK, Roles, EntryInv, RaceInv, FormerInv,
       UninstallUndoes
  <2> QED
    BY <2>1, <2>2, <2>3, <2>4, <2>5, <2>6, <2>7, <2>8
<1>6. CASE InstallClaims(p)
  <2>1. TypeOK'
    BY <1>6 DEF InstallClaims, Ended, TypeOK, Roles
  <2>2. Roles'
    BY <1>6 DEF InstallClaims, Ended, TypeOK, Roles
  <2>3. EntryInv'
    BY <1>6 DEF InstallClaims, Ended, TypeOK, Roles, EntryInv
  <2>4. RaceInv'
    BY <1>6 DEF InstallClaims, Ended, TypeOK, Roles, RaceInv
  <2>5. OneInv'
    BY <1>6 DEF InstallClaims, Ended, TypeOK, Roles, EntryInv, RaceInv, OneInv,
       Installed, LoginStarts, OneStarts
  <2>6. FormerInv'
    BY <1>6 DEF InstallClaims, Ended, TypeOK, Roles, EntryInv, RaceInv, FormerInv
  <2>7. LoginStarts'
    BY <1>6 DEF InstallClaims, Ended, TypeOK, Roles, EntryInv, RaceInv, OneInv,
       LoginStarts, SomethingStarts, OneStarts, Installed
  <2>8. UninstallUndoes'
    BY <1>6 DEF InstallClaims, Ended, TypeOK, Roles, EntryInv, RaceInv, FormerInv,
       UninstallUndoes
  <2> QED
    BY <2>1, <2>2, <2>3, <2>4, <2>5, <2>6, <2>7, <2>8
<1>7. CASE InstallEvicts(p)
  <2>1. TypeOK'
    BY <1>7 DEF InstallEvicts, Ended, TypeOK, Roles
  <2>2. Roles'
    BY <1>7 DEF InstallEvicts, Ended, TypeOK, Roles
  <2>3. EntryInv'
    BY <1>7 DEF InstallEvicts, Ended, TypeOK, Roles, EntryInv
  <2>4. RaceInv'
    BY <1>7 DEF InstallEvicts, Ended, TypeOK, Roles, RaceInv
  <2>5. OneInv'
    BY <1>7 DEF InstallEvicts, Ended, TypeOK, Roles, EntryInv, RaceInv, OneInv,
       Installed, LoginStarts, OneStarts
  <2>6. FormerInv'
    BY <1>7 DEF InstallEvicts, Ended, TypeOK, Roles, EntryInv, RaceInv, FormerInv
  <2>7. LoginStarts'
    BY <1>7 DEF InstallEvicts, Ended, TypeOK, Roles, EntryInv, RaceInv, OneInv,
       LoginStarts, SomethingStarts, OneStarts, Installed
  <2>8. UninstallUndoes'
    BY <1>7 DEF InstallEvicts, Ended, TypeOK, Roles, EntryInv, RaceInv, FormerInv,
       UninstallUndoes
  <2> QED
    BY <2>1, <2>2, <2>3, <2>4, <2>5, <2>6, <2>7, <2>8
<1>8. CASE UninstallDecides(p)
  <2>1. p = Main
    BY <1>8 DEF UninstallDecides, Roles
  <2>2. CASE meta = NoMeta
    BY <1>8, <2>1, <2>2, Ends DEF UninstallDecides
  <2>3. CASE meta # NoMeta /\ (meta.helper # proc[p].path \/ run # proc[p].path)
    BY <1>8, <2>1, <2>3, Ends DEF UninstallDecides
  <2>4. CASE meta # NoMeta /\ meta.helper = proc[p].path /\ run = proc[p].path
    <3>0. /\ proc[Main].pc = "uninstall"
          /\ proc' = [proc EXCEPT ![Main].pc = "release", ![Main].stored = meta]
          /\ UNCHANGED <<run, legacy, direct, meta, original, scars>>
      BY <1>8, <2>1, <2>4 DEF UninstallDecides
    <3>1. TypeOK'
      BY <2>1, <2>4, <3>0 DEF TypeOK, Roles
    <3>2. Roles'
      <4> DEFINE S == meta
      <4>1. S \in [helper : Paths \cup {Former, None}, original : Entries \cup {None}]
        BY <2>1, <2>4, <3>0 DEF TypeOK, Roles
      <4> DEFINE Q(l) == [proc[Main] EXCEPT !.pc = l, !.stored = S]
      <4>2. proc[Main] \in Procedures
        BY DEF Roles
      <4>3. PICK l \in {"note", "release"} : proc' = [proc EXCEPT ![Main] = Q(l)]
        BY <2>1, <2>4, <3>0, <4>2 DEF Roles
      <4> HIDE DEF S
      <4>4. Q(l) \in Procedures
        BY <4>1, <4>2
      <4> HIDE DEF Q
      <4>5. proc' \in [Procs -> Procedures]
        BY <4>3, <4>4 DEF Roles
      <4> QED
        BY <2>1, <2>4, <3>0, <4>5 DEF Roles
    <3>3. EntryInv'
      BY <2>1, <2>4, <3>0 DEF TypeOK, Roles, EntryInv
    <3>4. RaceInv'
      BY <2>1, <2>4, <3>0 DEF TypeOK, Roles, RaceInv
    <3>5. OneInv'
      BY <2>1, <2>4, <3>0 DEF TypeOK, Roles, EntryInv, RaceInv, OneInv, Installed,
         LoginStarts, OneStarts
    <3>6. FormerInv'
      BY <2>1, <2>4, <3>0 DEF TypeOK, Roles, EntryInv, RaceInv, FormerInv
    <3>7. LoginStarts'
      BY <2>1, <2>4, <3>0 DEF TypeOK, Roles, EntryInv, RaceInv, OneInv, LoginStarts,
         SomethingStarts, OneStarts, Installed
    <3>8. UninstallUndoes'
      BY <2>1, <2>4, <3>0 DEF TypeOK, Roles, EntryInv, RaceInv, FormerInv,
         UninstallUndoes
    <3> QED
      BY <3>1, <3>2, <3>3, <3>4, <3>5, <3>6, <3>7, <3>8
  <2> QED
    BY <2>2, <2>3, <2>4
<1>9. CASE UninstallReleases(p)
  <2>1. TypeOK'
    BY <1>9 DEF UninstallReleases, Ended, TypeOK, Roles
  <2>2. Roles'
    BY <1>9 DEF UninstallReleases, Ended, TypeOK, Roles
  <2>3. EntryInv'
    BY <1>9 DEF UninstallReleases, Ended, TypeOK, Roles, EntryInv
  <2>4. RaceInv'
    BY <1>9 DEF UninstallReleases, Ended, TypeOK, Roles, RaceInv
  <2>5. OneInv'
    BY <1>9 DEF UninstallReleases, Ended, TypeOK, Roles, EntryInv, RaceInv, OneInv,
       Installed, LoginStarts, OneStarts
  <2>6. FormerInv'
    BY <1>9 DEF UninstallReleases, Ended, TypeOK, Roles, EntryInv, RaceInv,
       FormerInv
  <2>7. LoginStarts'
    BY <1>9 DEF UninstallReleases, Ended, TypeOK, Roles, EntryInv, RaceInv, OneInv,
       LoginStarts, SomethingStarts, OneStarts, Installed
  <2>8. UninstallUndoes'
    BY <1>9 DEF UninstallReleases, Ended, TypeOK, Roles, EntryInv, RaceInv,
       FormerInv, UninstallUndoes
  <2> QED
    BY <2>1, <2>2, <2>3, <2>4, <2>5, <2>6, <2>7, <2>8
<1>10. CASE UninstallReturns(p)
  <2>1. TypeOK'
    BY <1>10 DEF UninstallReturns, Ended, TypeOK, Roles
  <2>2. Roles'
    BY <1>10 DEF UninstallReturns, Ended, TypeOK, Roles
  <2>3. EntryInv'
    BY <1>10 DEF UninstallReturns, Ended, TypeOK, Roles, EntryInv
  <2>4. RaceInv'
    BY <1>10 DEF UninstallReturns, Ended, TypeOK, Roles, RaceInv
  <2>5. OneInv'
    BY <1>10 DEF UninstallReturns, Ended, TypeOK, Roles, EntryInv, RaceInv, OneInv,
       Installed, LoginStarts, OneStarts
  <2>6. FormerInv'
    BY <1>10 DEF UninstallReturns, Ended, TypeOK, Roles, EntryInv, RaceInv,
       FormerInv
  <2>7. LoginStarts'
    BY <1>10 DEF UninstallReturns, Ended, TypeOK, Roles, EntryInv, RaceInv, OneInv,
       LoginStarts, SomethingStarts, OneStarts, Installed
  <2>8. UninstallUndoes'
    BY <1>10 DEF UninstallReturns, Ended, TypeOK, Roles, EntryInv, RaceInv,
       FormerInv, UninstallUndoes
  <2> QED
    BY <2>1, <2>2, <2>3, <2>4, <2>5, <2>6, <2>7, <2>8
<1>11. CASE UninstallForgets(p)
  <2>1. TypeOK'
    BY <1>11 DEF UninstallForgets, Ended, TypeOK, Roles
  <2>2. Roles'
    BY <1>11 DEF UninstallForgets, Ended, TypeOK, Roles
  <2>3. EntryInv'
    BY <1>11 DEF UninstallForgets, Ended, TypeOK, Roles, EntryInv
  <2>4. RaceInv'
    BY <1>11 DEF UninstallForgets, Ended, TypeOK, Roles, RaceInv
  <2>5. OneInv'
    BY <1>11 DEF UninstallForgets, Ended, TypeOK, Roles, EntryInv, RaceInv, OneInv,
       Installed, LoginStarts, OneStarts
  <2>6. FormerInv'
    BY <1>11 DEF UninstallForgets, Ended, TypeOK, Roles, EntryInv, RaceInv,
       FormerInv
  <2>7. LoginStarts'
    BY <1>11 DEF UninstallForgets, Ended, TypeOK, Roles, EntryInv, RaceInv, OneInv,
       LoginStarts, SomethingStarts, OneStarts, Installed
  <2>8. UninstallUndoes'
    BY <1>11 DEF UninstallForgets, Ended, TypeOK, Roles, EntryInv, RaceInv,
       FormerInv, UninstallUndoes
  <2> QED
    BY <2>1, <2>2, <2>3, <2>4, <2>5, <2>6, <2>7, <2>8
<1>12. CASE Fails(p)
  <2>1. TypeOK'
    BY <1>12 DEF Fails, Writes, MayScar, Ended, TypeOK, Roles
  <2>2. Roles'
    BY <1>12, ZenonT(60) DEF Fails, Writes, MayScar, Ended, TypeOK, Roles
  <2>3. EntryInv'
    BY <1>12 DEF Fails, Writes, MayScar, Ended, TypeOK, Roles, EntryInv
  <2>4. RaceInv'
    BY <1>12 DEF Fails, Writes, MayScar, Ended, TypeOK, Roles, RaceInv
  <2>5. OneInv'
    BY <1>12 DEF Fails, Writes, MayScar, Ended, TypeOK, Roles, EntryInv, RaceInv,
       OneInv, Installed, LoginStarts, OneStarts
  <2>6. FormerInv'
    BY <1>12 DEF Fails, Writes, MayScar, Ended, TypeOK, Roles, EntryInv, RaceInv,
       FormerInv
  <2>7. LoginStarts'
    BY <1>12 DEF Fails, Writes, MayScar, Ended, TypeOK, Roles, EntryInv, RaceInv,
       OneInv, LoginStarts, SomethingStarts, OneStarts, Installed
  <2>8. UninstallUndoes'
    BY <1>12 DEF Fails, Writes, MayScar, Ended, TypeOK, Roles, EntryInv, RaceInv,
       FormerInv, UninstallUndoes
  <2> QED
    BY <2>1, <2>2, <2>3, <2>4, <2>5, <2>6, <2>7, <2>8
<1>13. CASE Killed(p)
  <2>1. TypeOK'
    BY <1>13 DEF Killed, Writes, MayScar, Ended, TypeOK, Roles
  <2>2. Roles'
    BY <1>13 DEF Killed, Writes, MayScar, Ended, TypeOK, Roles
  <2>3. EntryInv'
    BY <1>13 DEF Killed, Writes, MayScar, Ended, TypeOK, Roles, EntryInv
  <2>4. RaceInv'
    BY <1>13 DEF Killed, Writes, MayScar, Ended, TypeOK, Roles, RaceInv
  <2>5. OneInv'
    BY <1>13 DEF Killed, Writes, MayScar, Ended, TypeOK, Roles, EntryInv, RaceInv,
       OneInv, Installed, LoginStarts, OneStarts
  <2>6. FormerInv'
    BY <1>13 DEF Killed, Writes, MayScar, Ended, TypeOK, Roles, EntryInv, RaceInv,
       FormerInv
  <2>7. LoginStarts'
    BY <1>13 DEF Killed, Writes, MayScar, Ended, TypeOK, Roles, EntryInv, RaceInv,
       OneInv, LoginStarts, SomethingStarts, OneStarts, Installed
  <2>8. UninstallUndoes'
    BY <1>13 DEF Killed, Writes, MayScar, Ended, TypeOK, Roles, EntryInv, RaceInv,
       FormerInv, UninstallUndoes
  <2> QED
    BY <2>1, <2>2, <2>3, <2>4, <2>5, <2>6, <2>7, <2>8
<1> QED
  BY <1>1, <1>2, <1>3, <1>4, <1>5, <1>6, <1>7, <1>8, <1>9, <1>10, <1>11, <1>12,
     <1>13 DEF Steps

\* The main process ends, or opens the tray.
LEMMA MainRests ==
    ASSUME StartupInv,
           UNCHANGED <<run, legacy, direct, meta, original, scars>>,
           proc[Main].pc \in {"idle", "ended", "tray"},
           \/ proc' = [proc EXCEPT ![Main] = Asleep]
           \/ proc' = [proc EXCEPT ![Main].pc = "tray"]
    PROVE  StartupInv'
<1> USE StartupAssumption DEF StartupInv, At, Goto, End, Asleep, NoMeta, Procs,
   Main, Status, Procedures, Writes, Installing, Uninstalling, Busy, Doing, Named,
   Scarred, Raced, Renewals
<1>1. CASE proc' = [proc EXCEPT ![Main] = Asleep]
  <2>1. TypeOK'
    BY <1>1 DEF TypeOK, Roles
  <2>2. Roles'
    BY <1>1 DEF TypeOK, Roles
  <2>3. EntryInv'
    BY <1>1 DEF TypeOK, Roles, EntryInv
  <2>4. RaceInv'
    BY <1>1 DEF TypeOK, Roles, RaceInv
  <2>5. OneInv'
    BY <1>1 DEF TypeOK, Roles, EntryInv, RaceInv, OneInv, Installed, LoginStarts,
       OneStarts
  <2>6. FormerInv'
    BY <1>1 DEF TypeOK, Roles, EntryInv, RaceInv, FormerInv
  <2>7. LoginStarts'
    BY <1>1 DEF TypeOK, Roles, EntryInv, RaceInv, OneInv, LoginStarts,
       SomethingStarts, OneStarts, Installed
  <2>8. UninstallUndoes'
    BY <1>1 DEF TypeOK, Roles, EntryInv, RaceInv, FormerInv, UninstallUndoes
  <2> QED
    BY <2>1, <2>2, <2>3, <2>4, <2>5, <2>6, <2>7, <2>8
<1>2. CASE proc' = [proc EXCEPT ![Main].pc = "tray"]
  <2>1. TypeOK'
    BY <1>2 DEF TypeOK, Roles
  <2>2. Roles'
    BY <1>2 DEF TypeOK, Roles
  <2>3. EntryInv'
    BY <1>2 DEF TypeOK, Roles, EntryInv
  <2>4. RaceInv'
    BY <1>2 DEF TypeOK, Roles, RaceInv
  <2>5. OneInv'
    BY <1>2 DEF TypeOK, Roles, EntryInv, RaceInv, OneInv, Installed, LoginStarts,
       OneStarts
  <2>6. FormerInv'
    BY <1>2 DEF TypeOK, Roles, EntryInv, RaceInv, FormerInv
  <2>7. LoginStarts'
    BY <1>2 DEF TypeOK, Roles, EntryInv, RaceInv, OneInv, LoginStarts,
       SomethingStarts, OneStarts, Installed
  <2>8. UninstallUndoes'
    BY <1>2 DEF TypeOK, Roles, EntryInv, RaceInv, FormerInv, UninstallUndoes
  <2> QED
    BY <2>1, <2>2, <2>3, <2>4, <2>5, <2>6, <2>7, <2>8
<1> QED
  BY <1>1, <1>2

\* A process starts with the migration; one that starts beside another while the
\* former entry is there leaves its scar.
LEMMA Begins ==
    ASSUME StartupInv, NEW p \in Procs, NEW mode, NEW path, Begin(p, mode, path),
           IF p = Main THEN mode \in {"install", "start", "uninstall"} /\ path \in Paths
                       ELSE mode = "status" /\ path = None
    PROVE  StartupInv'
<1> USE StartupAssumption DEF StartupInv, At, Goto, End, Asleep, NoMeta, Procs,
   Main, Status, Procedures, Writes, Installing, Uninstalling, Busy, Doing, Named,
   Scarred, Raced, Renewals
<1>1. CASE p = Main
  <2>1. TypeOK'
    BY <1>1 DEF Begin, Resting, TypeOK, Roles
  <2>2. Roles'
    BY <1>1, ZenonT(60) DEF Begin, Resting, TypeOK, Roles
  <2>3. EntryInv'
    BY <1>1 DEF Begin, Resting, TypeOK, Roles, EntryInv
  <2>4. RaceInv'
    BY <1>1 DEF Begin, Resting, TypeOK, Roles, RaceInv
  <2>5. OneInv'
    BY <1>1 DEF Begin, Resting, TypeOK, Roles, EntryInv, RaceInv, OneInv, Installed,
       LoginStarts, OneStarts
  <2>6. FormerInv'
    BY <1>1 DEF Begin, Resting, TypeOK, Roles, EntryInv, RaceInv, FormerInv
  <2>7. LoginStarts'
    BY <1>1 DEF Begin, Resting, TypeOK, Roles, EntryInv, RaceInv, OneInv,
       LoginStarts, SomethingStarts, OneStarts, Installed
  <2>8. UninstallUndoes'
    BY <1>1 DEF Begin, Resting, TypeOK, Roles, EntryInv, RaceInv, FormerInv,
       UninstallUndoes
  <2> QED
    BY <2>1, <2>2, <2>3, <2>4, <2>5, <2>6, <2>7, <2>8
<1>2. CASE p = Status
  <2>1. TypeOK'
    BY <1>2 DEF Begin, Resting, TypeOK, Roles
  <2>2. Roles'
    BY <1>2, ZenonT(60) DEF Begin, Resting, TypeOK, Roles
  <2>3. EntryInv'
    BY <1>2 DEF Begin, Resting, TypeOK, Roles, EntryInv
  <2>4. RaceInv'
    BY <1>2 DEF Begin, Resting, TypeOK, Roles, RaceInv
  <2>5. OneInv'
    BY <1>2 DEF Begin, Resting, TypeOK, Roles, EntryInv, RaceInv, OneInv, Installed,
       LoginStarts, OneStarts
  <2>6. FormerInv'
    BY <1>2 DEF Begin, Resting, TypeOK, Roles, EntryInv, RaceInv, FormerInv
  <2>7. LoginStarts'
    BY <1>2 DEF Begin, Resting, TypeOK, Roles, EntryInv, RaceInv, OneInv,
       LoginStarts, SomethingStarts, OneStarts, Installed
  <2>8. UninstallUndoes'
    BY <1>2 DEF Begin, Resting, TypeOK, Roles, EntryInv, RaceInv, FormerInv,
       UninstallUndoes
  <2> QED
    BY <2>1, <2>2, <2>3, <2>4, <2>5, <2>6, <2>7, <2>8
<1> QED
  BY <1>1, <1>2

LEMMA Renews ==
    ASSUME StartupInv, NEW e \in Entries, DiscordRenews(e)
    PROVE  StartupInv'
<1> USE StartupAssumption DEF StartupInv, At, Goto, End, Asleep, NoMeta, Procs,
   Main, Status, Procedures, Writes, Installing, Uninstalling, Busy, Doing, Named,
   Scarred, Raced, Renewals
<1>1. TypeOK'
  BY DEF DiscordRenews, TypeOK, Roles
<1>2. Roles'
  BY DEF DiscordRenews, TypeOK, Roles
<1>3. EntryInv'
  BY DEF DiscordRenews, TypeOK, Roles, EntryInv
<1>4. RaceInv'
  BY DEF DiscordRenews, TypeOK, Roles, RaceInv
<1>5. OneInv'
  BY DEF DiscordRenews, TypeOK, Roles, EntryInv, RaceInv, OneInv, Installed,
     LoginStarts, OneStarts
<1>6. FormerInv'
  BY DEF DiscordRenews, TypeOK, Roles, EntryInv, RaceInv, FormerInv
<1>7. LoginStarts'
  BY DEF DiscordRenews, TypeOK, Roles, EntryInv, RaceInv, OneInv, LoginStarts,
     SomethingStarts, OneStarts, Installed
<1>8. UninstallUndoes'
  BY DEF DiscordRenews, TypeOK, Roles, EntryInv, RaceInv, FormerInv, UninstallUndoes
<1> QED
  BY <1>1, <1>2, <1>3, <1>4, <1>5, <1>6, <1>7, <1>8

\* A core's tray is not disturbed by the processes beside it.
LEMMA TrayStays ==
    ASSUME StartupInv, NEW p \in Procs, Steps(p), At(Main, "tray")
    PROVE  At(Main, "tray")'
  BY DEF StartupInv, Roles, Steps, At, Goto, End, Procs, Main, Status, MigrateReads,
     MigrateCopies, MigrateDrops, AfterMigration, InstallDecides, Decides,
     InstallNotes, InstallClaims, InstallEvicts, UninstallDecides,
     UninstallReleases, UninstallReturns, UninstallForgets, Fails, Killed, Writes

\* What changes none of its variables keeps the invariant.
LEMMA Frame == StartupInv /\ UNCHANGED startupVars => StartupInv'
  BY DEF startupVars, StartupInv, TypeOK, Roles, EntryInv, RaceInv, OneInv,
     FormerInv, LoginStarts, SomethingStarts, OneStarts, Installed, UninstallUndoes,
     At, Busy, Doing, Named, Scarred

IInv == StartupInv /\ SessionTypeOK

LEMMA InitIInv == SessionInit => IInv
<1> USE StartupAssumption DEF StartupInv, At, Goto, End, Asleep, NoMeta, Procs,
   Main, Status, Procedures, Writes, Installing, Uninstalling, Busy, Doing, Named,
   Scarred, Raced, Renewals
<1> SUFFICES ASSUME SessionInit PROVE IInv
  OBVIOUS
<1>1. scars = {} /\ proc = [p \in Procs |-> Asleep]
  BY DEF SessionInit, Init
<1>2. TypeOK /\ Roles
  BY DEF SessionInit, Init, TypeOK, Roles
<1>3. EntryInv /\ RaceInv /\ OneInv /\ FormerInv
  BY DEF SessionInit, Init, EntryInv, RaceInv, OneInv, FormerInv
<1>4. LoginStarts /\ UninstallUndoes
  BY DEF SessionInit, Init, LoginStarts, SomethingStarts, OneStarts, Installed,
     UninstallUndoes
<1>5. SessionTypeOK
  BY <1>2 DEF SessionInit, SessionTypeOK, NoCore, NoDiscord, Modes
<1> QED
  BY <1>2, <1>3, <1>4, <1>5 DEF IInv

LEMMA StepIInv == IInv /\ [SessionNext]_vars => IInv'
<1> SUFFICES ASSUME IInv, [SessionNext]_vars PROVE IInv'
  OBVIOUS
<1> USE DEF At, NoCore, NoDiscord, Modes, sessionVars
<1>0. StartupInv /\ SessionTypeOK /\ Main \in Procs /\ Status \in Procs /\ Main # Status
  BY DEF IInv, Procs, Main, Status
<1>1. ASSUME NEW path \in Paths, NEW mode \in {"install", "start"}, NEW routing \in Modes,
             Starts(mode, path, routing)
      PROVE  IInv'
  <2>1. CASE MutexFree
    <3>1. StartupInv'
      BY <1>0, <1>1, <2>1, Begins DEF Starts
    <3>2. core = NoCore
      BY <1>0, <2>1 DEF MutexFree, Resting, SessionTypeOK
    <3> QED
      BY <1>0, <1>1, <3>1, <3>2 DEF Starts, SessionTypeOK, IInv, StartupInv
  <2>2. CASE ~MutexFree
    <3>1. UNCHANGED startupVars
      BY <1>1, <2>2 DEF Starts
    <3> QED
      BY <1>0, <1>1, <3>1, Frame DEF Starts, SessionTypeOK, IInv, StartupInv,
         startupVars
  <2> QED
    BY <2>1, <2>2
<1>2. ASSUME NEW path \in Paths, UninstallStarts(path) PROVE IInv'
  <2>1. StartupInv'
    BY <1>0, <1>2, Begins DEF UninstallStarts
  <2>2. core = NoCore
    BY <1>0, <1>2 DEF UninstallStarts, MutexFree, Resting, SessionTypeOK
  <2> QED
    BY <1>0, <1>2, <2>1, <2>2 DEF UninstallStarts, SessionTypeOK, IInv, StartupInv
<1>3. CASE StatusStarts
  <2>1. StartupInv'
    BY <1>0, <1>3, Begins DEF StatusStarts
  <2>2. proc'[Main] = proc[Main]
    BY <1>0, <1>3 DEF StatusStarts, Begin, StartupInv, Roles
  <2> QED
    BY <1>0, <1>3, <2>1, <2>2 DEF StatusStarts, SessionTypeOK, IInv, StartupInv
<1>4. ASSUME NEW p \in Procs, StartupSteps(p) PROVE IInv'
  <2>1. StartupInv'
    BY <1>0, <1>4, StartupStep DEF StartupSteps
  <2>2. At(Main, "tray") => At(Main, "tray")'
    BY <1>0, <1>4, TrayStays DEF StartupSteps
  <2> QED
    BY <1>0, <1>4, <2>1, <2>2 DEF StartupSteps, SessionTypeOK, IInv, StartupInv
<1>5. ASSUME NEW e \in Entries, DiscordRenews(e), UNCHANGED sessionVars PROVE IInv'
  <2>1. StartupInv'
    BY <1>0, <1>5, Renews
  <2> QED
    BY <1>0, <1>5, <2>1 DEF DiscordRenews, SessionTypeOK, IInv, StartupInv
<1>6. CASE UninstallStops
  <2>1. StartupInv'
    BY <1>0, <1>6, Ends DEF UninstallStops
  <2>2. core = NoCore
    BY <1>0, <1>6 DEF UninstallStops, SessionTypeOK
  <2> QED
    BY <1>0, <1>6, <2>1, <2>2 DEF UninstallStops, SessionTypeOK, IInv, StartupInv
<1>7. CASE TrayOpens
  <2>1. StartupInv'
    BY <1>0, <1>7, MainRests DEF TrayOpens, Opening, Goto
  <2>2. core = NoCore
    BY <1>0, <1>7 DEF TrayOpens, Opening, SessionTypeOK
  <2> QED
    BY <1>0, <1>7, <2>1, <2>2 DEF TrayOpens, SessionTypeOK, IInv, StartupInv
<1>8. CASE TrayQuits
  <2>1. StartupInv'
    BY <1>0, <1>8, MainRests DEF TrayQuits
  <2> QED
    BY <1>0, <1>8, <2>1 DEF TrayQuits, SessionTypeOK, IInv, StartupInv
<1>9. CASE Login
  <2>1. StartupInv'
    BY <1>0, <1>9, MainRests DEF Login, MutexFree, Resting
  <2> QED
    BY <1>0, <1>9, <2>1 DEF Login, SessionTypeOK, IInv, StartupInv
<1>10. CASE BootTray
  <2>1. StartupInv'
    BY <1>0, <1>10, Begins DEF BootTray
  <2>2. core = NoCore
    BY <1>0, <1>10 DEF BootTray, MutexFree, Resting, SessionTypeOK
  <2> QED
    BY <1>0, <1>10, <2>1, <2>2 DEF BootTray, SessionTypeOK, IInv, StartupInv
<1>11. CASE CoreStarts \/ CoreChecks \/ CoreMisjudges \/ CoreLaunches \/ CoreSeesExit
             \/ CoreEnds
  <2>1. StartupInv' /\ TypeOK' /\ UNCHANGED <<proc, config, boot, switched>>
    BY <1>0, <1>11, Frame DEF CoreStarts, CoreChecks, CoreMisjudges, CoreLaunches,
       CoreSeesExit, CoreEnds, StartupInv, startupVars
  <2>2. CASE CoreStarts
    BY <1>0, <2>1, <2>2 DEF CoreStarts, SessionTypeOK, IInv
  <2>3. CASE CoreChecks \/ CoreMisjudges
    BY <1>0, <2>1, <2>3 DEF CoreChecks, CoreMisjudges, SessionTypeOK, IInv
  <2>4. CASE CoreLaunches
    BY <1>0, <2>1, <2>4 DEF CoreLaunches, SessionTypeOK, IInv
  <2>5. CASE CoreSeesExit \/ CoreEnds
    BY <1>0, <2>1, <2>5 DEF CoreSeesExit, CoreEnds, SessionTypeOK, IInv
  <2> QED
    BY <1>11, <2>2, <2>3, <2>4, <2>5
<1>12. CASE DiscordStarts \/ DiscordExits \/ BootDiscord
  <2>1. StartupInv' /\ TypeOK' /\ UNCHANGED <<proc, config, core, switched>>
    BY <1>0, <1>12, Frame DEF DiscordStarts, DiscordExits, BootDiscord, StartupInv,
       startupVars
  <2>2. CASE DiscordStarts
    BY <1>0, <2>1, <2>2 DEF DiscordStarts, SessionTypeOK, IInv
  <2>4. CASE DiscordExits
    BY <1>0, <2>1, <2>4 DEF DiscordExits, SessionTypeOK, IInv
  <2>3. CASE BootDiscord
    BY <1>0, <2>1, <2>3 DEF BootDiscord, SessionTypeOK, IInv
  <2> QED
    BY <1>12, <2>2, <2>3, <2>4
<1>13. CASE UNCHANGED vars
  <2>1. UNCHANGED startupVars /\ UNCHANGED sessionVars
    BY <1>13 DEF vars
  <2>2. StartupInv'
    BY <1>0, <2>1, Frame
  <2> QED
    BY <1>0, <2>1, <2>2 DEF SessionTypeOK, IInv, StartupInv, startupVars
<1> QED
  BY <1>1, <1>2, <1>3, <1>4, <1>5, <1>6, <1>7, <1>8, <1>9, <1>10, <1>11, <1>12,
     <1>13
     DEF SessionNext

\* In every reachable state, for any paths, entries, hosts and number of scars.
THEOREM Invariance == SessionSpec => []IInv
<1>1. SessionInit => IInv
  BY InitIInv
<1>2. IInv /\ [SessionNext]_vars => IInv'
  BY StepIInv
<1> QED
  BY <1>1, <1>2, PTL DEF SessionSpec

\* The types, and a core only under a tray.
THEOREM SessionTypes == SessionSpec => []SessionTypeOK
<1>1. IInv => SessionTypeOK
  BY DEF IInv
<1> QED
  BY <1>1, Invariance, PTL

\* Discord's own entry is in the registry or in the metadata (Install,
\* Uninstall, MigrateLegacyStartup).
THEOREM EntriesAreKept == SessionSpec => []EntryKept
<1>1. IInv => EntryKept
  BY DEF IInv, StartupInv, EntryInv, EntryKept, NoMeta
<1> QED
  BY <1>1, Invariance, PTL

\* Something starts Discord at login, and one thing only after an installation.
THEOREM SomethingStartsAtLogin == SessionSpec => []LoginStarts
<1>1. IInv => LoginStarts
  BY DEF IInv, StartupInv
<1> QED
  BY <1>1, Invariance, PTL

\* An uninstallation that succeeds undoes what we did to the registry.
THEOREM UninstallationsUndo == SessionSpec => []UninstallUndoes
<1>1. IInv => UninstallUndoes
  BY DEF IInv, StartupInv
<1> QED
  BY <1>1, Invariance, PTL

-----------------------------------------------------------------------------
(* Routing.  A core reads the mode when it starts and Discord keeps the    *)
(* one it was started with, so they agree until the mode is changed.       *)
ModesAgree ==
    \/ switched
    \/ /\ core # NoCore => core.mode = config
       /\ discord.args \in Modes => discord.args = config

LEMMA StepModesAgree ==
    SessionTypeOK /\ ModesAgree /\ [SessionNext]_vars => ModesAgree'
<1> SUFFICES ASSUME SessionTypeOK, ModesAgree, [SessionNext]_vars PROVE ModesAgree'
  OBVIOUS
<1> USE DEF ModesAgree, sessionVars, NoCore, NoDiscord, Modes
<1>1. CASE UNCHANGED sessionVars
  BY <1>1
<1>2. ASSUME NEW path \in Paths, NEW mode \in {"install", "start"}, NEW routing \in Modes,
             Starts(mode, path, routing)
      PROVE  ModesAgree'
  BY <1>2 DEF Starts
<1>3. CASE TrayQuits \/ Login \/ BootTray
  BY <1>3 DEF TrayQuits, Login, BootTray
<1>4. CASE CoreStarts \/ CoreChecks \/ CoreMisjudges \/ CoreLaunches \/ CoreSeesExit
             \/ CoreEnds
  <2>1. CASE CoreStarts
    BY <2>1 DEF CoreStarts
  <2>2. CASE CoreChecks \/ CoreMisjudges
    BY <2>2 DEF CoreChecks, CoreMisjudges, SessionTypeOK
  <2>3. CASE CoreLaunches
    BY <2>3 DEF CoreLaunches, SessionTypeOK
  <2>4. CASE CoreSeesExit \/ CoreEnds
    BY <2>4 DEF CoreSeesExit, CoreEnds
  <2> QED
    BY <1>4, <2>1, <2>2, <2>3, <2>4
<1>5. CASE DiscordStarts \/ DiscordExits \/ BootDiscord
  BY <1>5 DEF DiscordStarts, DiscordExits, BootDiscord
<1> QED
  BY <1>1, <1>2, <1>3, <1>4, <1>5
  DEF SessionNext, UninstallStarts, StatusStarts, StartupSteps, UninstallStops,
      TrayOpens, vars

\* A host of three labels: the suffix it is made of, and the one it is under.
LEMMA ThreeLabels ==
    ASSUME NEW S, NEW a \in S, NEW b \in S, NEW c \in S
    PROVE  /\ <<a, b>> \o <<>> = <<a, b>>
           /\ <<a, b>> \o <<c>> = <<a, b, c>>
           /\ SubSeq(<<a, b, c>>, 1, 2) = <<a, b>>
<1> DEFINE s == <<a, b>>
           t == <<c>>
           u == <<a, b, c>>
           v == SubSeq(u, 1, 2)
<1>1. s \in Seq(S) /\ Len(s) = 2 /\ s[1] = a /\ s[2] = b
  OBVIOUS
<1>2. t \in Seq(S) /\ Len(t) = 1 /\ t[1] = c
  OBVIOUS
<1>3. u \in Seq(S) /\ Len(u) = 3 /\ u[1] = a /\ u[2] = b /\ u[3] = c
  OBVIOUS
<1> HIDE DEF s, t, u
<1>4. s \o t = u
  <2> DEFINE w == s \o t
  <2>1. /\ w \in Seq(S) /\ Len(w) = 3
        /\ \A i \in 1..3 : w[i] = IF i <= 2 THEN s[i] ELSE t[i - 2]
    <3>1. /\ w \in Seq(S) /\ Len(w) = Len(s) + Len(t)
          /\ \A i \in 1..(Len(s) + Len(t)) :
                w[i] = IF i <= Len(s) THEN s[i] ELSE t[i - Len(s)]
      BY <1>1, <1>2, ConcatProperties
    <3> HIDE DEF w
    <3>2. Len(s) = 2 /\ Len(t) = 1
      BY <1>1, <1>2
    <3> QED
      BY <3>1, <3>2
  <2> HIDE DEF w
  <2>2. \A i \in 1..Len(w) : w[i] = u[i]
    <3>1. w[1] = u[1] /\ w[2] = u[2] /\ w[3] = u[3]
      BY <1>1, <1>2, <1>3, <2>1
    <3> QED
      BY <2>1, <3>1
  <2>3. w = u
    BY <1>3, <2>1, <2>2, SeqEqual
  <2> QED
    BY <2>3 DEF w
<1>5. v = s
  <2>1. /\ v \in Seq(S) /\ Len(v) = 2 /\ \A i \in 1..2 : v[i] = u[i]
    <3>1. \A i \in 1..2 : u[i] \in S
      BY <1>3
    <3>2. /\ v \in Seq(S) /\ Len(v) = IF 1 <= 2 THEN 2 - 1 + 1 ELSE 0
          /\ \A i \in 1..(2 - 1 + 1) : v[i] = u[1 + i - 1]
      BY <1>3, <3>1, SubSeqProperties
    <3> HIDE DEF v
    <3> QED
      BY <3>2
  <2> HIDE DEF v
  <2>2. \A i \in 1..Len(v) : v[i] = s[i]
    <3>1. v[1] = s[1] /\ v[2] = s[2]
      BY <1>1, <1>3, <2>1
    <3> QED
      BY <2>1, <3>1
  <2> QED
    BY <1>1, <2>1, <2>2, SeqEqual
<1>6. s \o <<>> = s
  BY <1>1, ConcatEmptySeq
<1> QED
  BY <1>4, <1>5, <1>6 DEF s, t, u, v

Labels == {"gg", "discord", "gateway", "remote-auth-gateway", "com", "discordapp",
           "cdn"}

\* The lists: gateway hosts are routed by every PAC and admitted in every mode.
LEMMA DiscordHosts ==
    /\ Discord(<<>>) = <<"gg", "discord">>
    /\ RoutedSuffixes = {<<"gg", "discord">>}
    /\ <<"gg", "discord">> \in FullSuffixes
    /\ \A host \in RoutedHosts : Under(host, <<"gg", "discord">>)
<1>1. "gg" \in Labels /\ "discord" \in Labels /\ "gateway" \in Labels
      /\ "remote-auth-gateway" \in Labels
  BY DEF Labels
<1>2. \A l \in Labels :
         /\ <<"gg", "discord">> \o <<>> = <<"gg", "discord">>
         /\ <<"gg", "discord">> \o <<l>> = <<"gg", "discord", l>>
         /\ SubSeq(<<"gg", "discord", l>>, 1, 2) = <<"gg", "discord">>
  BY <1>1, ThreeLabels
<1>3. \A l \in Labels : Under(<<"gg", "discord">> \o <<l>>, <<"gg", "discord">>)
  <2> TAKE l \in Labels
  <2> DEFINE suffix == <<"gg", "discord">>
             host == <<"gg", "discord", l>>
  <2>1. Len(suffix) = 2 /\ Len(host) = 3
    OBVIOUS
  <2>2. suffix \o <<l>> = host /\ SubSeq(host, 1, 2) = suffix
    BY <1>2
  <2> HIDE DEF suffix, host
  <2>3. Under(host, suffix)
    BY <2>1, <2>2 DEF Under
  <2> QED
    BY <2>2, <2>3 DEF suffix
<1>4. Discord(<<>>) = <<"gg", "discord">>
  BY <1>1, <1>2 DEF Discord
<1>5. \A host \in RoutedHosts : Under(host, <<"gg", "discord">>)
  BY <1>1, <1>3 DEF RoutedHosts, Discord
<1> QED
  BY <1>4, <1>5 DEF RoutedSuffixes, FullSuffixes

\* No host below discord.gg is in the media bypass list.
LEMMA GatewayIsNotMedia ==
    ASSUME NEW host, Under(host, <<"gg", "discord">>)
    PROVE  ~Bypassed(host)
<1>1. SubSeq(host, 1, 2) = <<"gg", "discord">>
  BY DEF Under
<1>2. host # <<"com", "discordapp", "cdn">>
  <2>1. "com" \in Labels /\ "discordapp" \in Labels /\ "cdn" \in Labels
    BY DEF Labels
  <2>2. SubSeq(<<"com", "discordapp", "cdn">>, 1, 2) = <<"com", "discordapp">>
    BY <2>1, ThreeLabels
  <2> QED
    BY <1>1, <2>2
<1>3. ~Under(host, <<"media", "discord">>) /\ ~Under(host, <<"net", "discordapp">>)
  BY <1>1 DEF Under
<1> QED
  BY <1>2, <1>3 DEF Bypassed

\* What a Discord sends to the relay is dialled, also by a core that read
\* another mode if it is for the gateway, and nothing else of the network is:
\* for any hosts, when Discord's are those below its six domains
\* (pac.go, run.go:102-112, socks5.go).
THEOREM GatewayIsServed ==
    ASSUME \A host \in Hosts : host \in OwnHosts <=> UnderAny(host, FullSuffixes)
    PROVE  SessionSpec => []GatewayServed
<1> DEFINE GG == <<"gg", "discord">>
<1>1. SessionInit => ModesAgree
  BY DEF SessionInit, ModesAgree, NoDiscord, Modes
<1>2. IInv /\ ModesAgree => GatewayServed
  <2> SUFFICES ASSUME IInv, ModesAgree, NEW host \in Hosts
               PROVE  LET gateway == Under(host, Discord(<<>>))
                          relayed == Way(discord.args, host) = "relay"
                          dialled == core # NoCore /\
                                     Answer(core.mode, Request(host)) = "dials" IN
                      /\ dialled => host \in OwnHosts
                      /\ discord.args \in Modes /\ host \in OwnHosts =>
                            /\ gateway => relayed
                            /\ relayed /\ core # NoCore =>
                                  dialled \/ (switched /\ ~gateway)
    BY DEF GatewayServed
  <2>1. core # NoCore => core.mode \in Modes
    BY DEF IInv, SessionTypeOK
  <2>2. \A mode \in Modes : Answer(mode, Request(host)) = "dials" <=>
                              Admits(mode, host, Port)
    BY DEF Answer, Request, Port
  <2>3. \A mode \in Modes : Admits(mode, host, Port) <=>
                              \/ Under(host, GG)
                              \/ mode = "full" /\ UnderAny(host, FullSuffixes)
    BY DiscordHosts DEF Admits, UnderAny, Modes
  <2>4. Under(host, GG) => UnderAny(host, FullSuffixes)
    BY DiscordHosts DEF UnderAny
  <2>5. Way("gateway", host) = "relay" <=> Under(host, GG)
    BY DiscordHosts DEF Way, PacRoutes, UnderAny
  <2>6. Way("full", host) = "relay" <=> ~Bypassed(host)
    BY DEF Way
  <2>7. Under(host, GG) => ~Bypassed(host)
    BY GatewayIsNotMedia
  <2>8. core # NoCore /\ discord.args \in Modes => switched \/ core.mode = discord.args
    BY DEF ModesAgree
  <2> HIDE DEF GG
  <2>9. Discord(<<>>) = GG
    BY DiscordHosts DEF GG
  <2> QED
    BY <2>1, <2>2, <2>3, <2>4, <2>5, <2>6, <2>7, <2>8, <2>9 DEF Modes
<1>3. IInv /\ ModesAgree /\ [SessionNext]_vars => ModesAgree'
  BY StepModesAgree DEF IInv
<1> QED
  BY <1>1, <1>2, <1>3, Invariance, PTL DEF SessionSpec
=============================================================================
