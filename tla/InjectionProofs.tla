-------------------------- MODULE InjectionProofs --------------------------
(***************************************************************************)
(* Nothing of an owner's is lost, for any number of releases, archives and *)
(* kills.                                                                  *)
(***************************************************************************)
EXTENDS Injection, TLAPS

Building == {"mkdir", "package", "index", "record", "finish", "undo", "unmove"}
Restoring == {"restore", "aside", "put", "sweep"}

\* What Ensure knows about its directory at each step.
Ensuring ==
    /\ dir \in present
    /\ pc = "idle" => dir = latest
    /\ pc \in {"drop", "inspect", "repair", "rewrite", "move"} =>
          installing[dir] = NoArchive
    /\ pc = "swap" => /\ app[dir] = None /\ installing[dir] # NoArchive
                      /\ partial[dir].kind = "stub" /\ partial[dir].of = orig[dir]
    /\ pc \in {"repair", "rewrite"} => app[dir].kind = "stub"
    /\ pc = "move" => app[dir].kind = "file" /\ app[dir].of \in backups
    /\ pc \in Building => installing[dir] \in backups /\ app[dir].kind # "file"
    /\ pc \in {"record", "finish"} => app[dir].kind = "stub"
    /\ pc = "finish" => records[dir] = installing[dir]

\* What the uninstallation knows about the directories it visits.
Uninstalling ==
    /\ pc = "repairs" => \A d \in todo : d \in present /\ app[d].kind = "stub"
    /\ pc \in Restoring => \A d \in todo : Recorded(d)
    /\ pc \in {"aside", "put", "sweep"} => Recorded(dir)
    /\ pc \in {"aside", "put"} => restoring[dir] = records[dir]
    /\ pc = "aside" => app[dir].kind = "stub"
    /\ pc = "put" => /\ app[dir] = None
                     /\ aside[dir].kind = "stub" /\ aside[dir].of = orig[dir]
    /\ pc = "sweep" => app[dir] = File(records[dir])
    /\ pc \in Restoring \cup {"clean"} =>
          \A d \in present : Recorded(d) =>
              \/ d \in todo \cup kept
              \/ pc \in {"aside", "put"} /\ d = dir
              \/ app[d] = File(records[d])
    /\ pc = "clean" => todo = {} /\ \A d \in kept : records[d] \notin spent
    /\ outcome = "restored" => pc = "idle"

\* Where the archive of its owner is: in its place, set aside by an
\* installation, or recorded and in the backups.  A stub is always of it.
Whole ==
    \A d \in present :
        /\ orig[d] \in Archives
        /\ app[d].kind = "stub" => app[d].of = orig[d]
        /\ \/ app[d] = File(orig[d])
           \/ installing[d] = orig[d]
           \/ /\ app[d].kind # "file" /\ installing[d] = NoArchive
              /\ records[d] = orig[d] /\ orig[d] \in backups

\* Only a restoration, or one that was killed, leaves nothing in its place.
Missing ==
    \A d \in present :
        app[d] = None /\ installing[d] = NoArchive =>
            "put" \in scars \/ (pc = "put" /\ d = dir)

IInv == /\ TypeOK /\ Ensuring /\ Uninstalling /\ Whole /\ Missing
        /\ UninstallRestores

\* The owners of the directories put in what is theirs.
LEMMA OwnersStep ==
    ASSUME IInv, Owners
    PROVE  IInv'
<1> USE ArchivesAssumption DEF IInv, Goto, Ends, Put, files, store, restore, world,
   None, File, Stub, IsStub, Recorded, Labels, Entries, Maybe
<1>1. CASE DiscordUpdates
  <2>1. TypeOK'
    BY <1>1 DEF DiscordUpdates, TypeOK, Ensuring, Uninstalling, Building, Restoring
  <2>2. Ensuring'
    BY <1>1 DEF DiscordUpdates, TypeOK, Ensuring, Uninstalling, Whole, Building,
       Restoring
  <2>3. Uninstalling'
    BY <1>1 DEF DiscordUpdates, TypeOK, Ensuring, Uninstalling, Whole, Restoring
  <2>4. Whole'
    BY <1>1 DEF DiscordUpdates, TypeOK, Ensuring, Uninstalling, Whole, Building,
       Restoring
  <2>5. Missing'
    BY <1>1 DEF DiscordUpdates, TypeOK, Ensuring, Missing, Building, Restoring,
       Uninstalling
  <2>6. UninstallRestores'
    BY <1>1 DEF DiscordUpdates, TypeOK, UninstallRestores, Uninstalling, Whole
  <2> QED
    BY <2>1, <2>2, <2>3, <2>4, <2>5, <2>6 DEF IInv
<1>2. CASE DiscordRemoves
  <2>1. TypeOK'
    BY <1>2 DEF DiscordRemoves, TypeOK, Ensuring, Uninstalling, Building, Restoring
  <2>2. Ensuring'
    BY <1>2 DEF DiscordRemoves, TypeOK, Ensuring, Uninstalling, Whole, Building,
       Restoring
  <2>3. Uninstalling'
    BY <1>2 DEF DiscordRemoves, TypeOK, Ensuring, Uninstalling, Whole, Restoring
  <2>4. Whole'
    BY <1>2 DEF DiscordRemoves, TypeOK, Ensuring, Uninstalling, Whole, Building,
       Restoring
  <2>5. Missing'
    BY <1>2 DEF DiscordRemoves, TypeOK, Ensuring, Missing, Building, Restoring,
       Uninstalling
  <2>6. UninstallRestores'
    BY <1>2 DEF DiscordRemoves, TypeOK, UninstallRestores, Uninstalling, Whole
  <2> QED
    BY <2>1, <2>2, <2>3, <2>4, <2>5, <2>6 DEF IInv
<1>3. CASE OwnerReplaces
  <2>1. TypeOK'
    BY <1>3 DEF OwnerReplaces, TypeOK, Ensuring, Uninstalling, Building, Restoring
  <2>2. Ensuring'
    BY <1>3 DEF OwnerReplaces, TypeOK, Ensuring, Uninstalling, Whole, Building,
       Restoring
  <2>3. Uninstalling'
    BY <1>3 DEF OwnerReplaces, TypeOK, Ensuring, Uninstalling, Whole, Restoring
  <2>4. Whole'
    BY <1>3 DEF OwnerReplaces, TypeOK, Ensuring, Uninstalling, Whole, Building,
       Restoring
  <2>5. Missing'
    BY <1>3 DEF OwnerReplaces, TypeOK, Ensuring, Missing, Building, Restoring,
       Uninstalling
  <2>6. UninstallRestores'
    BY <1>3 DEF OwnerReplaces, TypeOK, UninstallRestores, Uninstalling, Whole
  <2> QED
    BY <2>1, <2>2, <2>3, <2>4, <2>5, <2>6 DEF IInv
<1>4. CASE LoaderChanges
  <2>1. TypeOK'
    BY <1>4 DEF LoaderChanges, TypeOK, Ensuring, Uninstalling, Building, Restoring
  <2>2. Ensuring'
    BY <1>4 DEF LoaderChanges, TypeOK, Ensuring, Uninstalling, Whole, Building,
       Restoring
  <2>3. Uninstalling'
    BY <1>4 DEF LoaderChanges, TypeOK, Ensuring, Uninstalling, Whole, Restoring
  <2>4. Whole'
    BY <1>4 DEF LoaderChanges, TypeOK, Ensuring, Uninstalling, Whole, Building,
       Restoring
  <2>5. Missing'
    BY <1>4 DEF LoaderChanges, TypeOK, Ensuring, Missing, Building, Restoring,
       Uninstalling
  <2>6. UninstallRestores'
    BY <1>4 DEF LoaderChanges, TypeOK, UninstallRestores, Uninstalling, Whole
  <2> QED
    BY <2>1, <2>2, <2>3, <2>4, <2>5, <2>6 DEF IInv
<1> QED
  BY <1>1, <1>2, <1>3, <1>4 DEF Owners

\* An installation, its recovery and its rollback.
LEMMA EnsureStep ==
    ASSUME IInv, EnsureBegins \/ EnsureNext
    PROVE  IInv'
<1> USE ArchivesAssumption DEF IInv, Goto, Ends, Put, files, store, restore, world,
   None, File, Stub, IsStub, Recorded, Labels, Entries, Maybe
<1>1. CASE EnsureBegins
  <2>1. TypeOK'
    BY <1>1 DEF EnsureBegins, TypeOK, Ensuring, Uninstalling, Building, Restoring
  <2>2. Ensuring'
    BY <1>1 DEF EnsureBegins, TypeOK, Ensuring, Uninstalling, Whole, Building,
       Restoring
  <2>3. Uninstalling'
    BY <1>1 DEF EnsureBegins, TypeOK, Ensuring, Uninstalling, Whole, Restoring
  <2>4. Whole'
    BY <1>1 DEF EnsureBegins, TypeOK, Ensuring, Uninstalling, Whole, Building,
       Restoring
  <2>5. Missing'
    BY <1>1 DEF EnsureBegins, TypeOK, Ensuring, Missing, Building, Restoring,
       Uninstalling
  <2>6. UninstallRestores'
    BY <1>1 DEF EnsureBegins, TypeOK, UninstallRestores, Uninstalling, Whole
  <2> QED
    BY <2>1, <2>2, <2>3, <2>4, <2>5, <2>6 DEF IInv
<1>2. CASE RecoverNothing
  <2>1. TypeOK'
    BY <1>2 DEF RecoverNothing, TypeOK, Ensuring, Uninstalling, Building, Restoring
  <2>2. Ensuring'
    BY <1>2 DEF RecoverNothing, TypeOK, Ensuring, Uninstalling, Whole, Building,
       Restoring
  <2>3. Uninstalling'
    BY <1>2 DEF RecoverNothing, TypeOK, Ensuring, Uninstalling, Whole, Restoring
  <2>4. Whole'
    BY <1>2 DEF RecoverNothing, TypeOK, Ensuring, Uninstalling, Whole, Building,
       Restoring
  <2>5. Missing'
    BY <1>2 DEF RecoverNothing, TypeOK, Ensuring, Missing, Building, Restoring,
       Uninstalling
  <2>6. UninstallRestores'
    BY <1>2 DEF RecoverNothing, TypeOK, UninstallRestores, Uninstalling, Whole
  <2> QED
    BY <2>1, <2>2, <2>3, <2>4, <2>5, <2>6 DEF IInv
<1>3. CASE RecoverRenames
  <2>1. TypeOK'
    BY <1>3 DEF RecoverRenames, TypeOK, Ensuring, Uninstalling, Building, Restoring
  <2>2. Ensuring'
    BY <1>3 DEF RecoverRenames, TypeOK, Ensuring, Uninstalling, Whole, Building,
       Restoring
  <2>3. Uninstalling'
    BY <1>3 DEF RecoverRenames, TypeOK, Ensuring, Uninstalling, Whole, Restoring
  <2>4. Whole'
    BY <1>3 DEF RecoverRenames, TypeOK, Ensuring, Uninstalling, Whole, Building,
       Restoring
  <2>5. Missing'
    BY <1>3 DEF RecoverRenames, TypeOK, Ensuring, Missing, Building, Restoring,
       Uninstalling
  <2>6. UninstallRestores'
    BY <1>3 DEF RecoverRenames, TypeOK, UninstallRestores, Uninstalling, Whole
  <2> QED
    BY <2>1, <2>2, <2>3, <2>4, <2>5, <2>6 DEF IInv
<1>4. CASE RecoverRefuses
  <2>1. TypeOK'
    BY <1>4 DEF RecoverRefuses, TypeOK, Ensuring, Uninstalling, Building, Restoring
  <2>2. Ensuring'
    BY <1>4 DEF RecoverRefuses, TypeOK, Ensuring, Uninstalling, Whole, Building,
       Restoring
  <2>3. Uninstalling'
    BY <1>4 DEF RecoverRefuses, TypeOK, Ensuring, Uninstalling, Whole, Restoring
  <2>4. Whole'
    BY <1>4 DEF RecoverRefuses, TypeOK, Ensuring, Uninstalling, Whole, Building,
       Restoring
  <2>5. Missing'
    BY <1>4 DEF RecoverRefuses, TypeOK, Ensuring, Missing, Building, Restoring,
       Uninstalling
  <2>6. UninstallRestores'
    BY <1>4 DEF RecoverRefuses, TypeOK, UninstallRestores, Uninstalling, Whole
  <2> QED
    BY <2>1, <2>2, <2>3, <2>4, <2>5, <2>6 DEF IInv
<1>5. CASE RecoverMoves
  <2>1. TypeOK'
    BY <1>5 DEF RecoverMoves, TypeOK, Ensuring, Uninstalling, Building, Restoring
  <2>2. Ensuring'
    BY <1>5 DEF RecoverMoves, TypeOK, Ensuring, Uninstalling, Whole, Building,
       Restoring
  <2>3. Uninstalling'
    BY <1>5 DEF RecoverMoves, TypeOK, Ensuring, Uninstalling, Whole, Restoring
  <2>4. Whole'
    BY <1>5 DEF RecoverMoves, TypeOK, Ensuring, Uninstalling, Whole, Building,
       Restoring
  <2>5. Missing'
    BY <1>5 DEF RecoverMoves, TypeOK, Ensuring, Missing, Building, Restoring,
       Uninstalling
  <2>6. UninstallRestores'
    BY <1>5 DEF RecoverMoves, TypeOK, UninstallRestores, Uninstalling, Whole
  <2> QED
    BY <2>1, <2>2, <2>3, <2>4, <2>5, <2>6 DEF IInv
<1>6. CASE RecoverSwaps
  <2>1. TypeOK'
    BY <1>6 DEF RecoverSwaps, TypeOK, Ensuring, Uninstalling, Building, Restoring
  <2>2. Ensuring'
    BY <1>6 DEF RecoverSwaps, TypeOK, Ensuring, Uninstalling, Whole, Building,
       Restoring
  <2>3. Uninstalling'
    BY <1>6 DEF RecoverSwaps, TypeOK, Ensuring, Uninstalling, Whole, Restoring
  <2>4. Whole'
    BY <1>6 DEF RecoverSwaps, TypeOK, Ensuring, Uninstalling, Whole, Building,
       Restoring
  <2>5. Missing'
    BY <1>6 DEF RecoverSwaps, TypeOK, Ensuring, Missing, Building, Restoring,
       Uninstalling
  <2>6. UninstallRestores'
    BY <1>6 DEF RecoverSwaps, TypeOK, UninstallRestores, Uninstalling, Whole
  <2> QED
    BY <2>1, <2>2, <2>3, <2>4, <2>5, <2>6 DEF IInv
<1>7. CASE SwapFails
  <2>1. TypeOK'
    BY <1>7 DEF SwapFails, TypeOK, Ensuring, Uninstalling, Building, Restoring
  <2>2. Ensuring'
    BY <1>7 DEF SwapFails, TypeOK, Ensuring, Uninstalling, Whole, Building,
       Restoring
  <2>3. Uninstalling'
    BY <1>7 DEF SwapFails, TypeOK, Ensuring, Uninstalling, Whole, Restoring
  <2>4. Whole'
    BY <1>7 DEF SwapFails, TypeOK, Ensuring, Uninstalling, Whole, Building,
       Restoring
  <2>5. Missing'
    BY <1>7 DEF SwapFails, TypeOK, Ensuring, Missing, Building, Restoring,
       Uninstalling
  <2>6. UninstallRestores'
    BY <1>7 DEF SwapFails, TypeOK, UninstallRestores, Uninstalling, Whole
  <2> QED
    BY <2>1, <2>2, <2>3, <2>4, <2>5, <2>6 DEF IInv
<1>8. CASE RecoverDrops
  <2>1. TypeOK'
    <3>0. None \in Entries
      OBVIOUS
    <3>1. partial' \in [Dirs -> Entries]
      <4> HIDE DEF None, Entries
      <4> QED
        BY <1>8, <3>0 DEF RecoverDrops, TypeOK
    <3>3. scars' \subseteq Labels \cup {"replaced"}
      BY <1>8 DEF RecoverDrops, TypeOK
    <3> QED
      BY <1>8, <3>1, <3>3 DEF RecoverDrops, TypeOK
  <2>2. Ensuring'
    BY <1>8 DEF RecoverDrops, TypeOK, Ensuring, Uninstalling, Whole, Building,
       Restoring
  <2>3. Uninstalling'
    BY <1>8 DEF RecoverDrops, TypeOK, Ensuring, Uninstalling, Whole, Restoring
  <2>4. Whole'
    BY <1>8 DEF RecoverDrops, TypeOK, Ensuring, Uninstalling, Whole, Building,
       Restoring
  <2>5. Missing'
    BY <1>8 DEF RecoverDrops, TypeOK, Ensuring, Missing, Building, Restoring,
       Uninstalling
  <2>6. UninstallRestores'
    BY <1>8 DEF RecoverDrops, TypeOK, UninstallRestores, Uninstalling, Whole
  <2> QED
    BY <2>1, <2>2, <2>3, <2>4, <2>5, <2>6 DEF IInv
<1>9. CASE InspectRejects
  <2>1. TypeOK'
    BY <1>9 DEF InspectRejects, TypeOK, Ensuring, Uninstalling, Building, Restoring
  <2>2. Ensuring'
    BY <1>9 DEF InspectRejects, TypeOK, Ensuring, Uninstalling, Whole, Building,
       Restoring
  <2>3. Uninstalling'
    BY <1>9 DEF InspectRejects, TypeOK, Ensuring, Uninstalling, Whole, Restoring
  <2>4. Whole'
    BY <1>9 DEF InspectRejects, TypeOK, Ensuring, Uninstalling, Whole, Building,
       Restoring
  <2>5. Missing'
    BY <1>9 DEF InspectRejects, TypeOK, Ensuring, Missing, Building, Restoring,
       Uninstalling
  <2>6. UninstallRestores'
    BY <1>9 DEF InspectRejects, TypeOK, UninstallRestores, Uninstalling, Whole
  <2> QED
    BY <2>1, <2>2, <2>3, <2>4, <2>5, <2>6 DEF IInv
<1>10. CASE InspectOurs
  <2>1. TypeOK'
    BY <1>10 DEF InspectOurs, NeedsRepair, TypeOK, Ensuring, Uninstalling, Building,
       Restoring
  <2>2. Ensuring'
    BY <1>10 DEF InspectOurs, NeedsRepair, TypeOK, Ensuring, Uninstalling, Whole,
       Building, Restoring
  <2>3. Uninstalling'
    BY <1>10 DEF InspectOurs, NeedsRepair, TypeOK, Ensuring, Uninstalling, Whole,
       Restoring
  <2>4. Whole'
    BY <1>10 DEF InspectOurs, NeedsRepair, TypeOK, Ensuring, Uninstalling, Whole,
       Building, Restoring
  <2>5. Missing'
    BY <1>10 DEF InspectOurs, NeedsRepair, TypeOK, Ensuring, Missing, Building,
       Restoring, Uninstalling
  <2>6. UninstallRestores'
    BY <1>10 DEF InspectOurs, NeedsRepair, TypeOK, UninstallRestores, Uninstalling,
       Whole
  <2> QED
    BY <2>1, <2>2, <2>3, <2>4, <2>5, <2>6 DEF IInv
<1>11. CASE EnsureRepairs
  <2>1. TypeOK'
    BY <1>11 DEF EnsureRepairs, RepairRecord, TypeOK, Ensuring, Uninstalling,
       Building, Restoring
  <2>2. Ensuring'
    BY <1>11 DEF EnsureRepairs, RepairRecord, TypeOK, Ensuring, Uninstalling, Whole,
       Building, Restoring
  <2>3. Uninstalling'
    BY <1>11 DEF EnsureRepairs, RepairRecord, TypeOK, Ensuring, Uninstalling, Whole,
       Restoring
  <2>4. Whole'
    BY <1>11 DEF EnsureRepairs, RepairRecord, TypeOK, Ensuring, Uninstalling, Whole,
       Building, Restoring
  <2>5. Missing'
    BY <1>11 DEF EnsureRepairs, RepairRecord, TypeOK, Ensuring, Missing, Building,
       Restoring, Uninstalling
  <2>6. UninstallRestores'
    BY <1>11 DEF EnsureRepairs, RepairRecord, TypeOK, UninstallRestores,
       Uninstalling, Whole
  <2> QED
    BY <2>1, <2>2, <2>3, <2>4, <2>5, <2>6 DEF IInv
<1>12. CASE RewriteStub
  <2>1. TypeOK'
    BY <1>12 DEF RewriteStub, TypeOK, Ensuring, Uninstalling, Building, Restoring
  <2>2. Ensuring'
    BY <1>12 DEF RewriteStub, TypeOK, Ensuring, Uninstalling, Whole, Building,
       Restoring
  <2>3. Uninstalling'
    BY <1>12 DEF RewriteStub, TypeOK, Ensuring, Uninstalling, Whole, Restoring
  <2>4. Whole'
    BY <1>12 DEF RewriteStub, TypeOK, Ensuring, Uninstalling, Whole, Building,
       Restoring
  <2>5. Missing'
    BY <1>12 DEF RewriteStub, TypeOK, Ensuring, Missing, Building, Restoring,
       Uninstalling
  <2>6. UninstallRestores'
    BY <1>12 DEF RewriteStub, TypeOK, UninstallRestores, Uninstalling, Whole
  <2> QED
    BY <2>1, <2>2, <2>3, <2>4, <2>5, <2>6 DEF IInv
<1>13. CASE EnsureBackup
  <2>1. TypeOK'
    <3>0. pc = "inspect" /\ app[dir].kind = "file"
      BY <1>13 DEF EnsureBackup, HasKnownArchive
    <3>1. app[dir].of \in Archives
      <4>1. orig[dir] \in Archives /\ installing[dir] = NoArchive
        BY <3>0 DEF Ensuring, Whole
      <4>2. app[dir] = File(orig[dir])
        BY <3>0, <4>1 DEF Ensuring, Whole
      <4> QED
        BY <4>1, <4>2
    <3> QED
      BY <1>13, <3>1 DEF EnsureBackup, TypeOK
  <2>2. Ensuring'
    BY <1>13 DEF EnsureBackup, HasKnownArchive, TypeOK, Ensuring, Uninstalling,
       Whole, Building, Restoring
  <2>3. Uninstalling'
    BY <1>13 DEF EnsureBackup, HasKnownArchive, TypeOK, Ensuring, Uninstalling,
       Whole, Restoring
  <2>4. Whole'
    BY <1>13 DEF EnsureBackup, HasKnownArchive, TypeOK, Ensuring, Uninstalling,
       Whole, Building, Restoring
  <2>5. Missing'
    BY <1>13 DEF EnsureBackup, HasKnownArchive, TypeOK, Ensuring, Missing, Building,
       Restoring, Uninstalling
  <2>6. UninstallRestores'
    BY <1>13 DEF EnsureBackup, HasKnownArchive, TypeOK, UninstallRestores,
       Uninstalling, Whole
  <2> QED
    BY <2>1, <2>2, <2>3, <2>4, <2>5, <2>6 DEF IInv
<1>14. CASE MoveOriginal
  <2>1. TypeOK'
    BY <1>14 DEF MoveOriginal, TypeOK, Ensuring, Uninstalling, Building, Restoring
  <2>2. Ensuring'
    BY <1>14 DEF MoveOriginal, TypeOK, Ensuring, Uninstalling, Whole, Building,
       Restoring
  <2>3. Uninstalling'
    BY <1>14 DEF MoveOriginal, TypeOK, Ensuring, Uninstalling, Whole, Restoring
  <2>4. Whole'
    BY <1>14 DEF MoveOriginal, TypeOK, Ensuring, Uninstalling, Whole, Building,
       Restoring
  <2>5. Missing'
    BY <1>14 DEF MoveOriginal, TypeOK, Ensuring, Missing, Building, Restoring,
       Uninstalling
  <2>6. UninstallRestores'
    BY <1>14 DEF MoveOriginal, TypeOK, UninstallRestores, Uninstalling, Whole
  <2> QED
    BY <2>1, <2>2, <2>3, <2>4, <2>5, <2>6 DEF IInv
<1>15. CASE MakeStub
  <2>1. TypeOK'
    BY <1>15 DEF MakeStub, Build, TypeOK, Ensuring, Uninstalling, Building,
       Restoring
  <2>2. Ensuring'
    BY <1>15 DEF MakeStub, Build, TypeOK, Ensuring, Uninstalling, Whole, Building,
       Restoring
  <2>3. Uninstalling'
    BY <1>15 DEF MakeStub, Build, TypeOK, Ensuring, Uninstalling, Whole, Restoring
  <2>4. Whole'
    BY <1>15 DEF MakeStub, Build, TypeOK, Ensuring, Uninstalling, Whole, Building,
       Restoring
  <2>5. Missing'
    BY <1>15 DEF MakeStub, Build, TypeOK, Ensuring, Missing, Building, Restoring,
       Uninstalling
  <2>6. UninstallRestores'
    BY <1>15 DEF MakeStub, Build, TypeOK, UninstallRestores, Uninstalling, Whole
  <2> QED
    BY <2>1, <2>2, <2>3, <2>4, <2>5, <2>6 DEF IInv
<1>16. CASE WritePackage
  <2>1. TypeOK'
    BY <1>16 DEF WritePackage, Build, TypeOK, Ensuring, Uninstalling, Building,
       Restoring
  <2>2. Ensuring'
    BY <1>16 DEF WritePackage, Build, TypeOK, Ensuring, Uninstalling, Whole,
       Building, Restoring
  <2>3. Uninstalling'
    BY <1>16 DEF WritePackage, Build, TypeOK, Ensuring, Uninstalling, Whole,
       Restoring
  <2>4. Whole'
    BY <1>16 DEF WritePackage, Build, TypeOK, Ensuring, Uninstalling, Whole,
       Building, Restoring
  <2>5. Missing'
    BY <1>16 DEF WritePackage, Build, TypeOK, Ensuring, Missing, Building,
       Restoring, Uninstalling
  <2>6. UninstallRestores'
    BY <1>16 DEF WritePackage, Build, TypeOK, UninstallRestores, Uninstalling, Whole
  <2> QED
    BY <2>1, <2>2, <2>3, <2>4, <2>5, <2>6 DEF IInv
<1>17. CASE WriteIndex
  <2>1. TypeOK'
    BY <1>17 DEF WriteIndex, Build, TypeOK, Ensuring, Uninstalling, Building,
       Restoring
  <2>2. Ensuring'
    BY <1>17 DEF WriteIndex, Build, TypeOK, Ensuring, Uninstalling, Whole, Building,
       Restoring
  <2>3. Uninstalling'
    BY <1>17 DEF WriteIndex, Build, TypeOK, Ensuring, Uninstalling, Whole, Restoring
  <2>4. Whole'
    BY <1>17 DEF WriteIndex, Build, TypeOK, Ensuring, Uninstalling, Whole, Building,
       Restoring
  <2>5. Missing'
    BY <1>17 DEF WriteIndex, Build, TypeOK, Ensuring, Missing, Building, Restoring,
       Uninstalling
  <2>6. UninstallRestores'
    BY <1>17 DEF WriteIndex, Build, TypeOK, UninstallRestores, Uninstalling, Whole
  <2> QED
    BY <2>1, <2>2, <2>3, <2>4, <2>5, <2>6 DEF IInv
<1>18. CASE SaveRecord
  <2>1. TypeOK'
    BY <1>18 DEF SaveRecord, TypeOK, Ensuring, Uninstalling, Building, Restoring
  <2>2. Ensuring'
    BY <1>18 DEF SaveRecord, TypeOK, Ensuring, Uninstalling, Whole, Building,
       Restoring
  <2>3. Uninstalling'
    BY <1>18 DEF SaveRecord, TypeOK, Ensuring, Uninstalling, Whole, Restoring
  <2>4. Whole'
    BY <1>18 DEF SaveRecord, TypeOK, Ensuring, Uninstalling, Whole, Building,
       Restoring
  <2>5. Missing'
    BY <1>18 DEF SaveRecord, TypeOK, Ensuring, Missing, Building, Restoring,
       Uninstalling
  <2>6. UninstallRestores'
    BY <1>18 DEF SaveRecord, TypeOK, UninstallRestores, Uninstalling, Whole
  <2> QED
    BY <2>1, <2>2, <2>3, <2>4, <2>5, <2>6 DEF IInv
<1>19. CASE Finish
  <2>1. TypeOK'
    BY <1>19 DEF Finish, TypeOK, Ensuring, Uninstalling, Building, Restoring
  <2>2. Ensuring'
    BY <1>19 DEF Finish, TypeOK, Ensuring, Uninstalling, Whole, Building, Restoring
  <2>3. Uninstalling'
    BY <1>19 DEF Finish, TypeOK, Ensuring, Uninstalling, Whole, Restoring
  <2>4. Whole'
    BY <1>19 DEF Finish, TypeOK, Ensuring, Uninstalling, Whole, Building, Restoring
  <2>5. Missing'
    BY <1>19 DEF Finish, TypeOK, Ensuring, Missing, Building, Restoring,
       Uninstalling
  <2>6. UninstallRestores'
    BY <1>19 DEF Finish, TypeOK, UninstallRestores, Uninstalling, Whole
  <2> QED
    BY <2>1, <2>2, <2>3, <2>4, <2>5, <2>6 DEF IInv
<1>20. CASE BuildFails
  <2>1. TypeOK'
    BY <1>20 DEF BuildFails, TypeOK, Ensuring, Uninstalling, Building, Restoring
  <2>2. Ensuring'
    BY <1>20 DEF BuildFails, TypeOK, Ensuring, Uninstalling, Whole, Building,
       Restoring
  <2>3. Uninstalling'
    BY <1>20 DEF BuildFails, TypeOK, Ensuring, Uninstalling, Whole, Restoring
  <2>4. Whole'
    BY <1>20 DEF BuildFails, TypeOK, Ensuring, Uninstalling, Whole, Building,
       Restoring
  <2>5. Missing'
    BY <1>20 DEF BuildFails, TypeOK, Ensuring, Missing, Building, Restoring,
       Uninstalling
  <2>6. UninstallRestores'
    BY <1>20 DEF BuildFails, TypeOK, UninstallRestores, Uninstalling, Whole
  <2> QED
    BY <2>1, <2>2, <2>3, <2>4, <2>5, <2>6 DEF IInv
<1>21. CASE UndoRemoves
  <2>1. TypeOK'
    BY <1>21 DEF UndoRemoves, TypeOK, Ensuring, Uninstalling, Building, Restoring
  <2>2. Ensuring'
    BY <1>21 DEF UndoRemoves, TypeOK, Ensuring, Uninstalling, Whole, Building,
       Restoring
  <2>3. Uninstalling'
    BY <1>21 DEF UndoRemoves, TypeOK, Ensuring, Uninstalling, Whole, Restoring
  <2>4. Whole'
    BY <1>21 DEF UndoRemoves, TypeOK, Ensuring, Uninstalling, Whole, Building,
       Restoring
  <2>5. Missing'
    BY <1>21 DEF UndoRemoves, TypeOK, Ensuring, Missing, Building, Restoring,
       Uninstalling
  <2>6. UninstallRestores'
    BY <1>21 DEF UndoRemoves, TypeOK, UninstallRestores, Uninstalling, Whole
  <2> QED
    BY <2>1, <2>2, <2>3, <2>4, <2>5, <2>6 DEF IInv
<1>22. CASE UndoRenames
  <2>1. TypeOK'
    BY <1>22 DEF UndoRenames, TypeOK, Ensuring, Uninstalling, Building, Restoring
  <2>2. Ensuring'
    BY <1>22 DEF UndoRenames, TypeOK, Ensuring, Uninstalling, Whole, Building,
       Restoring
  <2>3. Uninstalling'
    BY <1>22 DEF UndoRenames, TypeOK, Ensuring, Uninstalling, Whole, Restoring
  <2>4. Whole'
    BY <1>22 DEF UndoRenames, TypeOK, Ensuring, Uninstalling, Whole, Building,
       Restoring
  <2>5. Missing'
    BY <1>22 DEF UndoRenames, TypeOK, Ensuring, Missing, Building, Restoring,
       Uninstalling
  <2>6. UninstallRestores'
    BY <1>22 DEF UndoRenames, TypeOK, UninstallRestores, Uninstalling, Whole
  <2> QED
    BY <2>1, <2>2, <2>3, <2>4, <2>5, <2>6 DEF IInv
<1> QED
  BY <1>1, <1>2, <1>3, <1>4, <1>5, <1>6, <1>7, <1>8, <1>9, <1>10, <1>11, <1>12,
     <1>13, <1>14, <1>15, <1>16, <1>17, <1>18, <1>19, <1>20, <1>21, <1>22 DEF
     EnsureNext

\* An uninstallation.
LEMMA RestoreStep ==
    ASSUME IInv, UninstallBegins \/ RestoreNext
    PROVE  IInv'
<1> USE ArchivesAssumption DEF IInv, Goto, Ends, Put, files, store, restore, world,
   None, File, Stub, IsStub, Recorded, Labels, Entries, Maybe
<1>1. CASE UninstallBegins
  <2>1. TypeOK'
    BY <1>1 DEF UninstallBegins, TypeOK, Ensuring, Uninstalling, Building, Restoring
  <2>2. Ensuring'
    BY <1>1 DEF UninstallBegins, TypeOK, Ensuring, Uninstalling, Whole, Building,
       Restoring
  <2>3. Uninstalling'
    BY <1>1 DEF UninstallBegins, TypeOK, Ensuring, Uninstalling, Whole, Restoring
  <2>4. Whole'
    BY <1>1 DEF UninstallBegins, TypeOK, Ensuring, Uninstalling, Whole, Building,
       Restoring
  <2>5. Missing'
    BY <1>1 DEF UninstallBegins, TypeOK, Ensuring, Missing, Building, Restoring,
       Uninstalling
  <2>6. UninstallRestores'
    BY <1>1 DEF UninstallBegins, TypeOK, UninstallRestores, Uninstalling, Whole
  <2> QED
    BY <2>1, <2>2, <2>3, <2>4, <2>5, <2>6 DEF IInv
<1>2. CASE UninstallRepairs
  <2>1. TypeOK'
    BY <1>2 DEF UninstallRepairs, RepairRecord, TypeOK, Ensuring, Uninstalling,
       Building, Restoring
  <2>2. Ensuring'
    BY <1>2 DEF UninstallRepairs, RepairRecord, TypeOK, Ensuring, Uninstalling,
       Whole, Building, Restoring
  <2>3. Uninstalling'
    BY <1>2 DEF UninstallRepairs, RepairRecord, TypeOK, Ensuring, Uninstalling,
       Whole, Restoring
  <2>4. Whole'
    BY <1>2 DEF UninstallRepairs, RepairRecord, TypeOK, Ensuring, Uninstalling,
       Whole, Building, Restoring
  <2>5. Missing'
    BY <1>2 DEF UninstallRepairs, RepairRecord, TypeOK, Ensuring, Missing, Building,
       Restoring, Uninstalling
  <2>6. UninstallRestores'
    BY <1>2 DEF UninstallRepairs, RepairRecord, TypeOK, UninstallRestores,
       Uninstalling, Whole
  <2> QED
    BY <2>1, <2>2, <2>3, <2>4, <2>5, <2>6 DEF IInv
<1>3. CASE RestoreRefuses
  <2>1. TypeOK'
    BY <1>3 DEF RestoreRefuses, TypeOK, Ensuring, Uninstalling, Building, Restoring
  <2>2. Ensuring'
    BY <1>3 DEF RestoreRefuses, TypeOK, Ensuring, Uninstalling, Whole, Building,
       Restoring
  <2>3. Uninstalling'
    BY <1>3 DEF RestoreRefuses, TypeOK, Ensuring, Uninstalling, Whole, Restoring
  <2>4. Whole'
    BY <1>3 DEF RestoreRefuses, TypeOK, Ensuring, Uninstalling, Whole, Building,
       Restoring
  <2>5. Missing'
    BY <1>3 DEF RestoreRefuses, TypeOK, Ensuring, Missing, Building, Restoring,
       Uninstalling
  <2>6. UninstallRestores'
    BY <1>3 DEF RestoreRefuses, TypeOK, UninstallRestores, Uninstalling, Whole
  <2> QED
    BY <2>1, <2>2, <2>3, <2>4, <2>5, <2>6 DEF IInv
<1>4. CASE RestoreBegins
  <2>1. TypeOK'
    BY <1>4 DEF RestoreBegins, TypeOK, Ensuring, Uninstalling, Building, Restoring
  <2>2. Ensuring'
    BY <1>4 DEF RestoreBegins, TypeOK, Ensuring, Uninstalling, Whole, Building,
       Restoring
  <2>3. Uninstalling'
    BY <1>4 DEF RestoreBegins, TypeOK, Ensuring, Uninstalling, Whole, Restoring
  <2>4. Whole'
    BY <1>4 DEF RestoreBegins, TypeOK, Ensuring, Uninstalling, Whole, Building,
       Restoring
  <2>5. Missing'
    BY <1>4 DEF RestoreBegins, TypeOK, Ensuring, Missing, Building, Restoring,
       Uninstalling
  <2>6. UninstallRestores'
    BY <1>4 DEF RestoreBegins, TypeOK, UninstallRestores, Uninstalling, Whole
  <2> QED
    BY <2>1, <2>2, <2>3, <2>4, <2>5, <2>6 DEF IInv
<1>5. ASSUME NEW d \in Dirs, RestoreVisits(d) PROVE IInv'
  <2>1. TypeOK'
    BY <1>5 DEF RestoreVisits, Spend, Keep, TypeOK, Ensuring, Uninstalling,
       Building, Restoring
  <2>2. Ensuring'
    BY <1>5 DEF RestoreVisits, Spend, Keep, TypeOK, Ensuring, Uninstalling, Whole,
       Building, Restoring
  <2>3. Uninstalling'
    BY <1>5 DEF RestoreVisits, Spend, Keep, TypeOK, Ensuring, Uninstalling, Whole,
       Restoring
  <2>4. Whole'
    BY <1>5 DEF RestoreVisits, Spend, Keep, TypeOK, Ensuring, Uninstalling, Whole,
       Building, Restoring
  <2>5. Missing'
    BY <1>5 DEF RestoreVisits, Spend, Keep, TypeOK, Ensuring, Missing, Building,
       Restoring, Uninstalling
  <2>6. UninstallRestores'
    BY <1>5 DEF RestoreVisits, Spend, Keep, TypeOK, UninstallRestores, Uninstalling,
       Whole
  <2> QED
    BY <2>1, <2>2, <2>3, <2>4, <2>5, <2>6 DEF IInv
<1>6. ASSUME NEW d \in Dirs, RestoreStages(d) PROVE IInv'
  <2>1. TypeOK'
    BY <1>6 DEF RestoreStages, TypeOK, Ensuring, Uninstalling, Building, Restoring
  <2>2. Ensuring'
    BY <1>6 DEF RestoreStages, TypeOK, Ensuring, Uninstalling, Whole, Building,
       Restoring
  <2>3. Uninstalling'
    BY <1>6 DEF RestoreStages, TypeOK, Ensuring, Uninstalling, Whole, Restoring
  <2>4. Whole'
    BY <1>6 DEF RestoreStages, TypeOK, Ensuring, Uninstalling, Whole, Building,
       Restoring
  <2>5. Missing'
    BY <1>6 DEF RestoreStages, TypeOK, Ensuring, Missing, Building, Restoring,
       Uninstalling
  <2>6. UninstallRestores'
    BY <1>6 DEF RestoreStages, TypeOK, UninstallRestores, Uninstalling, Whole
  <2> QED
    BY <2>1, <2>2, <2>3, <2>4, <2>5, <2>6 DEF IInv
<1>7. CASE AsideFails
  <2>1. TypeOK'
    BY <1>7 DEF AsideFails, Keep, TypeOK, Ensuring, Uninstalling, Building,
       Restoring
  <2>2. Ensuring'
    BY <1>7 DEF AsideFails, Keep, TypeOK, Ensuring, Uninstalling, Whole, Building,
       Restoring
  <2>3. Uninstalling'
    BY <1>7 DEF AsideFails, Keep, TypeOK, Ensuring, Uninstalling, Whole, Restoring
  <2>4. Whole'
    BY <1>7 DEF AsideFails, Keep, TypeOK, Ensuring, Uninstalling, Whole, Building,
       Restoring
  <2>5. Missing'
    BY <1>7 DEF AsideFails, Keep, TypeOK, Ensuring, Missing, Building, Restoring,
       Uninstalling
  <2>6. UninstallRestores'
    BY <1>7 DEF AsideFails, Keep, TypeOK, UninstallRestores, Uninstalling, Whole
  <2> QED
    BY <2>1, <2>2, <2>3, <2>4, <2>5, <2>6 DEF IInv
<1>8. CASE AsideMoves
  <2>1. TypeOK'
    BY <1>8 DEF AsideMoves, TypeOK, Ensuring, Uninstalling, Building, Restoring
  <2>2. Ensuring'
    BY <1>8 DEF AsideMoves, TypeOK, Ensuring, Uninstalling, Whole, Building,
       Restoring
  <2>3. Uninstalling'
    BY <1>8 DEF AsideMoves, TypeOK, Ensuring, Uninstalling, Whole, Restoring
  <2>4. Whole'
    BY <1>8 DEF AsideMoves, TypeOK, Ensuring, Uninstalling, Whole, Building,
       Restoring
  <2>5. Missing'
    BY <1>8 DEF AsideMoves, TypeOK, Ensuring, Missing, Building, Restoring,
       Uninstalling
  <2>6. UninstallRestores'
    BY <1>8 DEF AsideMoves, TypeOK, UninstallRestores, Uninstalling, Whole
  <2> QED
    BY <2>1, <2>2, <2>3, <2>4, <2>5, <2>6 DEF IInv
<1>9. CASE PutsBack
  <2>1. TypeOK'
    BY <1>9 DEF PutsBack, TypeOK, Ensuring, Uninstalling, Building, Restoring
  <2>2. Ensuring'
    BY <1>9 DEF PutsBack, TypeOK, Ensuring, Uninstalling, Whole, Building, Restoring
  <2>3. Uninstalling'
    BY <1>9 DEF PutsBack, TypeOK, Ensuring, Uninstalling, Whole, Restoring
  <2>4. Whole'
    BY <1>9 DEF PutsBack, TypeOK, Ensuring, Uninstalling, Whole, Building, Restoring
  <2>5. Missing'
    BY <1>9 DEF PutsBack, TypeOK, Ensuring, Missing, Building, Restoring,
       Uninstalling
  <2>6. UninstallRestores'
    BY <1>9 DEF PutsBack, TypeOK, UninstallRestores, Uninstalling, Whole
  <2> QED
    BY <2>1, <2>2, <2>3, <2>4, <2>5, <2>6 DEF IInv
<1>10. CASE PutFails
  <2>1. TypeOK'
    BY <1>10 DEF PutFails, Keep, TypeOK, Ensuring, Uninstalling, Building, Restoring
  <2>2. Ensuring'
    BY <1>10 DEF PutFails, Keep, TypeOK, Ensuring, Uninstalling, Whole, Building,
       Restoring
  <2>3. Uninstalling'
    BY <1>10 DEF PutFails, Keep, TypeOK, Ensuring, Uninstalling, Whole, Restoring
  <2>4. Whole'
    BY <1>10 DEF PutFails, Keep, TypeOK, Ensuring, Uninstalling, Whole, Building,
       Restoring
  <2>5. Missing'
    BY <1>10 DEF PutFails, Keep, TypeOK, Ensuring, Missing, Building, Restoring,
       Uninstalling
  <2>6. UninstallRestores'
    BY <1>10 DEF PutFails, Keep, TypeOK, UninstallRestores, Uninstalling, Whole
  <2> QED
    BY <2>1, <2>2, <2>3, <2>4, <2>5, <2>6 DEF IInv
<1>11. CASE Sweep
  <2>1. TypeOK'
    <3>0. None \in Entries
      OBVIOUS
    <3>1. aside' \in [Dirs -> Entries]
      <4> HIDE DEF None, Entries
      <4> QED
        BY <1>11, <3>0 DEF Sweep, TypeOK
    <3>3. scars' \subseteq Labels \cup {"replaced"}
      BY <1>11 DEF Sweep, TypeOK
    <3>2. spent' \subseteq Archives
      BY <1>11 DEF Sweep, Spend, TypeOK, Uninstalling
    <3> QED
      BY <1>11, <3>1, <3>2, <3>3 DEF Sweep, Spend, TypeOK
  <2>2. Ensuring'
    BY <1>11 DEF Sweep, Spend, TypeOK, Ensuring, Uninstalling, Whole, Building,
       Restoring
  <2>3. Uninstalling'
    BY <1>11 DEF Sweep, Spend, TypeOK, Ensuring, Uninstalling, Whole, Restoring
  <2>4. Whole'
    BY <1>11 DEF Sweep, Spend, TypeOK, Ensuring, Uninstalling, Whole, Building,
       Restoring
  <2>5. Missing'
    BY <1>11 DEF Sweep, Spend, TypeOK, Ensuring, Missing, Building, Restoring,
       Uninstalling
  <2>6. UninstallRestores'
    BY <1>11 DEF Sweep, Spend, TypeOK, UninstallRestores, Uninstalling, Whole
  <2> QED
    BY <2>1, <2>2, <2>3, <2>4, <2>5, <2>6 DEF IInv
<1>12. CASE CleanBegins
  <2>1. TypeOK'
    BY <1>12 DEF CleanBegins, Unneeded, TypeOK, Ensuring, Uninstalling, Building,
       Restoring
  <2>2. Ensuring'
    BY <1>12 DEF CleanBegins, Unneeded, TypeOK, Ensuring, Uninstalling, Whole,
       Building, Restoring
  <2>3. Uninstalling'
    BY <1>12 DEF CleanBegins, Unneeded, TypeOK, Ensuring, Uninstalling, Whole,
       Restoring
  <2>4. Whole'
    BY <1>12 DEF CleanBegins, Unneeded, TypeOK, Ensuring, Uninstalling, Whole,
       Building, Restoring
  <2>5. Missing'
    BY <1>12 DEF CleanBegins, Unneeded, TypeOK, Ensuring, Missing, Building,
       Restoring, Uninstalling
  <2>6. UninstallRestores'
    BY <1>12 DEF CleanBegins, Unneeded, TypeOK, UninstallRestores, Uninstalling,
       Whole
  <2> QED
    BY <2>1, <2>2, <2>3, <2>4, <2>5, <2>6 DEF IInv
<1>13. CASE CleanRemoves
  <2>1. TypeOK'
    BY <1>13 DEF CleanRemoves, TypeOK, Ensuring, Uninstalling, Building, Restoring
  <2>2. Ensuring'
    BY <1>13 DEF CleanRemoves, TypeOK, Ensuring, Uninstalling, Whole, Building,
       Restoring
  <2>3. Uninstalling'
    BY <1>13 DEF CleanRemoves, TypeOK, Ensuring, Uninstalling, Whole, Restoring
  <2>4. Whole'
    BY <1>13 DEF CleanRemoves, TypeOK, Ensuring, Uninstalling, Whole, Building,
       Restoring
  <2>5. Missing'
    BY <1>13 DEF CleanRemoves, TypeOK, Ensuring, Missing, Building, Restoring,
       Uninstalling
  <2>6. UninstallRestores'
    BY <1>13 DEF CleanRemoves, TypeOK, UninstallRestores, Uninstalling, Whole
  <2> QED
    BY <2>1, <2>2, <2>3, <2>4, <2>5, <2>6 DEF IInv
<1>14. CASE RestoreEnds
  <2>1. TypeOK'
    BY <1>14 DEF RestoreEnds, TypeOK, Ensuring, Uninstalling, Building, Restoring
  <2>2. Ensuring'
    BY <1>14 DEF RestoreEnds, TypeOK, Ensuring, Uninstalling, Whole, Building,
       Restoring
  <2>3. Uninstalling'
    BY <1>14 DEF RestoreEnds, TypeOK, Ensuring, Uninstalling, Whole, Restoring
  <2>4. Whole'
    BY <1>14, ZenonT(60) DEF RestoreEnds, TypeOK, Ensuring, Uninstalling, Whole, Building,
       Restoring
  <2>5. Missing'
    BY <1>14 DEF RestoreEnds, TypeOK, Ensuring, Missing, Building, Restoring,
       Uninstalling
  <2>6. UninstallRestores'
    <3>1. outcome' = "restored" => kept = {}
      BY <1>14 DEF RestoreEnds
    <3>2. UNCHANGED <<present, app, installing, orig>> /\ pc = "clean"
      BY <1>14 DEF RestoreEnds
    <3>3. ASSUME kept = {}, NEW d \in present
          PROVE  app[d] = File(orig[d]) \/ installing[d] # NoArchive
      <4>1. Recorded(d) => app[d] = File(records[d]) /\ app[d].kind = "file"
        BY <3>2, <3>3 DEF Uninstalling, Restoring
      <4>2. orig[d] \in Archives
        BY <3>3 DEF Whole
      <4> QED
        BY <3>3, <4>1, <4>2 DEF Whole
    <3> QED
      BY <3>1, <3>2, <3>3 DEF UninstallRestores
  <2> QED
    BY <2>1, <2>2, <2>3, <2>4, <2>5, <2>6 DEF IInv
<1> QED
  BY <1>1, <1>2, <1>3, <1>4, <1>5, <1>6, <1>7, <1>8, <1>9, <1>10, <1>11, <1>12,
     <1>13, <1>14 DEF RestoreNext

\* A change that fails, or a kill, leaves what was there.
LEMMA FaultStep ==
    ASSUME IInv, StepFails \/ Crash
    PROVE  IInv'
<1> USE ArchivesAssumption DEF IInv, Goto, Ends, Put, files, store, restore, world,
   None, File, Stub, IsStub, Recorded, Labels, Entries, Maybe
<1>1. CASE StepFails
  <2>1. TypeOK'
    BY <1>1 DEF StepFails, TypeOK, Ensuring, Uninstalling, Building, Restoring
  <2>2. Ensuring'
    BY <1>1 DEF StepFails, TypeOK, Ensuring, Uninstalling, Whole, Building,
       Restoring
  <2>3. Uninstalling'
    BY <1>1 DEF StepFails, TypeOK, Ensuring, Uninstalling, Whole, Restoring
  <2>4. Whole'
    BY <1>1 DEF StepFails, TypeOK, Ensuring, Uninstalling, Whole, Building,
       Restoring
  <2>5. Missing'
    BY <1>1 DEF StepFails, TypeOK, Ensuring, Missing, Building, Restoring,
       Uninstalling
  <2>6. UninstallRestores'
    BY <1>1 DEF StepFails, TypeOK, UninstallRestores, Uninstalling, Whole
  <2> QED
    BY <2>1, <2>2, <2>3, <2>4, <2>5, <2>6 DEF IInv
<1>2. CASE Crash
  <2>1. TypeOK'
    BY <1>2 DEF Crash, TypeOK, Ensuring, Uninstalling, Building, Restoring
  <2>2. Ensuring'
    BY <1>2 DEF Crash, TypeOK, Ensuring, Uninstalling, Whole, Building, Restoring
  <2>3. Uninstalling'
    BY <1>2 DEF Crash, TypeOK, Ensuring, Uninstalling, Whole, Restoring
  <2>4. Whole'
    BY <1>2 DEF Crash, TypeOK, Ensuring, Uninstalling, Whole, Building, Restoring
  <2>5. Missing'
    BY <1>2 DEF Crash, TypeOK, Ensuring, Missing, Building, Restoring, Uninstalling
  <2>6. UninstallRestores'
    BY <1>2 DEF Crash, TypeOK, UninstallRestores, Uninstalling, Whole
  <2> QED
    BY <2>1, <2>2, <2>3, <2>4, <2>5, <2>6 DEF IInv
<1> QED
  BY <1>1, <1>2

LEMMA InitIInv == Init => IInv
  BY ArchivesAssumption DEF Init, IInv, TypeOK, Ensuring, Uninstalling, Whole,
     Missing, UninstallRestores, Building, Restoring, None, File, IsStub, Recorded,
     Labels, Entries, Maybe

LEMMA StepIInv == IInv /\ [Next]_injectionVars => IInv'
<1> SUFFICES ASSUME IInv, [Next]_injectionVars PROVE IInv'
  OBVIOUS
<1>1. CASE UNCHANGED injectionVars
  BY <1>1 DEF injectionVars, files, store, restore, world, IInv, TypeOK, Ensuring,
     Uninstalling, Whole, Missing, UninstallRestores, IsStub, Recorded
<1> QED
  BY <1>1, OwnersStep, EnsureStep, RestoreStep, FaultStep DEF Next

\* In every reachable state, for any directories, archives and number of events.
THEOREM Invariance == Spec => []IInv
  BY InitIInv, StepIInv, PTL DEF Spec

\* The types.
THEOREM TypeCorrect == Spec => []TypeOK
<1>1. IInv => TypeOK
  BY DEF IInv
<1> QED
  BY <1>1, Invariance, PTL

\* The archive of its owner is in its place, set aside or in the backups.
THEOREM NothingIsLost == Spec => []NothingLost
<1>1. IInv => NothingLost
  BY DEF IInv, Whole, NothingLost
<1> QED
  BY <1>1, Invariance, PTL

\* A complete stub finds the archive it requires.
THEOREM StubsLoad == Spec => []StubLoads
<1>1. ASSUME IInv, NEW d \in present, IsStub(d, 2)
      PROVE  app[d].of \in backups \/ app[d].of = installing[d]
  <2>1. app[d].kind = "stub" /\ app[d].of = orig[d] /\ app[d] # File(orig[d])
    BY <1>1 DEF IInv, Whole, IsStub, File
  <2> QED
    BY <1>1, <2>1 DEF IInv, Whole
<1>2. IInv => StubLoads
  BY <1>1 DEF StubLoads
<1> QED
  BY <1>2, Invariance, PTL

\* Between operations a release has a loader or the next Ensure gives it one.
THEOREM LoadersAreKept == Spec => []LoaderKept
<1>1. ASSUME IInv, pc = "idle", NEW d \in present, app[d] = None
      PROVE  installing[d] = orig[d] \/ "put" \in scars
  <2>1. None # File(orig[d])
    BY DEF None, File
  <2>2. CASE installing[d] = NoArchive
    BY <1>1, <2>2 DEF IInv, Missing
  <2>3. CASE installing[d] # NoArchive
    BY <1>1, <2>1, <2>3 DEF IInv, Whole
  <2> QED
    BY <2>2, <2>3
<1>2. IInv => LoaderKept
  BY <1>1 DEF LoaderKept
<1> QED
  BY <1>2, Invariance, PTL

\* RestoreAll gives back what it says.
THEOREM RestorationsRestore == Spec => []UninstallRestores
<1>1. IInv => UninstallRestores
  BY DEF IInv
<1> QED
  BY <1>1, Invariance, PTL
=============================================================================
