--------------------------- MODULE RollbackProofs ---------------------------
(* Proofs about upgrades and their fallback, for any number of upgrades. *)
EXTENDS Rollback, TLAPS

(* machined is up, or comes up; the steps of the installer's work. *)
Alive == Serving \union {"init"}
Working == {"copying", "config", "grub", "tag"}

(* The label that machined was not booted from. *)
Spare == Other(booted)

(* Which sequence main is in goes with what the installer was started for,  *)
(* and grub.cfg is switched at one step of the installer only.              *)
Positions ==
  /\ main = "init" => mem = {} /\ stage = "idle" /\ drop = "waits"
  /\ main \in {"init", "boot", "running"} => installer = "none"
  /\ main \in Installing \union {"reload", "save"} => installer # "none"
  /\ \/ main \in {"init", "boot", "running", "install", "copying", "config"}
     \/ main \in {"clear", "reboot"} /\ installer = "none"
     => default = booted
  /\ main \in {"grub", "tag"} => default = Spare
  /\ default = Torn => main \in {"off", "dead"}

(* Versions are numbered in the order they are installed in, and the one    *)
(* that runs is whole: the installer writes under the other label.          *)
Numbered ==
  /\ \A l \in Labels : assets[l] \in Versions => assets[l] <= newest
  /\ settled \subseteq 1..newest
  /\ main \in Alive => assets[booted] \in Versions
  /\ main \in {"config", "grub", "tag"}
       => assets[Spare] = newest /\ newest \notin settled \union {assets[booted]}

(* Each request is for one version at most: those that were installed,      *)
(* those that are staged and the one that is being installed.               *)
InFlight == main = "copying" \/ (main = "install" /\ installer = "upgrade")
Counted == (newest - 1) + asked + (IF InFlight THEN 1 ELSE 0) <= requests

(* The staged upgrades that memory, the disk and the sequence stand for.    *)
Claimed == (main = "clear" /\ installer = "none") \/ (main = "install" /\ installer = "staged")
Pending == mem \intersect StagedTags # {} \/ stage = "options"
OnDisk == \E i \in 1 .. 2 : copies[i] \intersect StagedTags # {}

StagedCounted ==
  /\ Pending \/ OnDisk \/ Claimed => asked >= 1
  /\ Claimed /\ Pending => asked >= 2
  /\ main = "install" /\ installer = "staged" /\ OnDisk => Pending

(* The fallback tag in memory is on the disk, and both copies of META are   *)
(* whole once the installer has written them.                               *)
TagKept ==
  /\ main \in Alive /\ Upgrade \in mem => Upgrade \in ReadDisk
  /\ main \in Serving \ Installing /\ installer # "none" => \A i \in 1 .. 2 : copies[i] # TornCopy

Sound(names) == holes \intersect names = {}

(* Without the two holes of BootsAWholeVersion, the label to go back to is  *)
(* never half written while there is a tag that makes revert go back to it. *)
WholeFallback ==
  Sound({"unsynced", "stacked"}) =>
    /\ default # Torn => assets[default] \in Versions
    /\ default # Torn /\ Tagged(copies) => assets[Other(default)] # Partial
    /\ main \in Working => ~Tagged(copies)

(* Without the five holes of UnreadyHasFallback: a version that was never   *)
(* ready has its tag in each copy of META that is whole, and in memory once *)
(* META is loaded; and what it falls back to has been ready.                *)
FallbackHoles == {"noTag", "tornMeta", "staleFlush", "stacked", "flipped"}

ReadyFallback ==
  Sound(FallbackHoles) =>
    /\ main \notin {"grub", "tag"} /\ default # Torn /\ assets[default] \notin ready
         => /\ Upgrade \in ReadDisk
            /\ \A i \in 1 .. 2 : Upgrade \in copies[i] \/ copies[i] = TornCopy
    /\ main \in Serving /\ installer = "none" /\ assets[booted] \notin ready => Upgrade \in mem
    /\ main # "untag" /\ default # Torn /\ Tagged(copies) => assets[Other(default)] \in ready
    /\ main = "untag" => assets[default] \in ready
    /\ main \in Working => assets[booted] \in ready /\ ~Tagged(copies)

DropAfterReady == main \in Serving /\ drop \in {"deletes", "flush"} => assets[booted] \in ready

(* Without the two holes of ReadyIsKept, a version whose fallback was       *)
(* dropped has no tag while it is the one to boot.                          *)
SettledUntagged ==
  Sound({"flipped", "keptTag"}) /\ Tagged(copies) =>
    /\ main # "untag" /\ default # Torn => assets[default] \notin settled
    /\ main = "grub" => assets[booted] \notin settled

RollbackInv ==
  /\ TypeOK /\ Positions /\ Numbered /\ Counted /\ StagedCounted
  /\ TagKept /\ WholeFallback /\ ReadyFallback /\ DropAfterReady /\ SettledUntagged

-----------------------------------------------------------------------------
(* Labels, tags and holes. *)
LEMMA LabelFacts ==
  /\ Torn \notin Labels
  /\ \A l \in Labels : Other(l) \in Labels /\ Other(l) # l /\ Other(Other(l)) = l
  /\ \A l \in Labels : \A k \in Labels : k = l \/ k = Other(l)
  BY DEF Labels, Other, Torn

Copy == (SUBSET Tags) \union {TornCopy}

LEMMA CopyFacts ==
  /\ \A t \in SUBSET Tags : t # TornCopy /\ t \in Copy
  /\ TornCopy \in Copy /\ Upgrade \notin TornCopy /\ TornCopy \intersect StagedTags = {}
  /\ Upgrade \in Tags /\ StagedTags \subseteq Tags /\ Upgrade \notin StagedTags
<1>1. Torn \in TornCopy /\ Torn \notin Tags
  BY DEF Tags, TornCopy, Torn, Upgrade, StagedTags
<1>2. \A t \in SUBSET Tags : t # TornCopy /\ t \in Copy
  BY <1>1 DEF Copy
<1>3. TornCopy \in Copy
  BY DEF Copy
<1>4. Upgrade \notin TornCopy /\ TornCopy \intersect StagedTags = {}
  BY DEF TornCopy, Torn, Upgrade, StagedTags
<1>5. Upgrade \in Tags /\ StagedTags \subseteq Tags /\ Upgrade \notin StagedTags
  BY DEF Tags, Upgrade, StagedTags
<1> QED BY <1>2, <1>3, <1>4, <1>5

LEMMA ReadDiskFacts ==
  ASSUME NEW c \in [1 .. 2 -> Copy]
  PROVE  /\ Whole(c) \in SUBSET Tags
         /\ \/ c[1] # TornCopy /\ Whole(c) = c[1]
            \/ c[1] = TornCopy /\ c[2] # TornCopy /\ Whole(c) = c[2]
            \/ c[1] = TornCopy /\ c[2] = TornCopy /\ Whole(c) = {}
         /\ Upgrade \in Whole(c) => Tagged(c)
<1>1. c[1] \in Copy /\ c[2] \in Copy
  OBVIOUS
<1>2. \A t \in Copy : t # TornCopy => t \in SUBSET Tags
  BY DEF Copy
<1>3. Whole(c) \in SUBSET Tags
  BY <1>1, <1>2 DEF Whole
<1>4. \/ c[1] # TornCopy /\ Whole(c) = c[1]
      \/ c[1] = TornCopy /\ c[2] # TornCopy /\ Whole(c) = c[2]
      \/ c[1] = TornCopy /\ c[2] = TornCopy /\ Whole(c) = {}
  BY DEF Whole
<1>5. Upgrade \in Whole(c) => Tagged(c)
  BY <1>4 DEF Tagged
<1> QED BY <1>3, <1>4, <1>5

LEMMA FlushFacts ==
  ASSUME NEW t \in SUBSET Tags, copies' = [i \in 1 .. 2 |-> t]
  PROVE  /\ copies' \in [1 .. 2 -> Copy]
         /\ copies'[1] = t /\ copies'[2] = t /\ ReadDisk' = t
  BY CopyFacts DEF ReadDisk, Whole, Copy

LEMMA RecordFacts ==
  ASSUME Record
  PROVE  /\ holes \subseteq holes' /\ holes' \subseteq holes \union Holes
         /\ \A name \in Holes : Hole(name) => name \in holes'
  BY DEF Record

(* Every action by name, and those that record what they did. *)
Records ==
  ClearStaged \/ InstallerBegins \/ FlushMeta \/ MetaFlush \/ StageFlush \/ DropDeletes \/ DropFlushes
    \/ Fails \/ DeletesTag \/ LosesPower

LEMMA HolesGrow == [Next]_vars => (holes \subseteq holes')
<1>1. Records => Record
  BY DEF Records, ClearStaged, InstallerBegins, FlushMeta, MetaFlush, StageFlush, DropDeletes, DropFlushes,
         Fails, DeletesTag, LosesPower
<1>2. CASE Records
  BY <1>1, <1>2, RecordFacts
<1>3. CASE \/ Boots \/ ReloadMeta \/ BootDone \/ UpgradeRequested \/ InstallerCopies \/ WritesConfig
           \/ GrubInstalled \/ HandleMeta \/ MetaWrite \/ StageSetsImage \/ StageSetsOptions \/ StageRuns
           \/ DropSeesReady \/ Reboots \/ Reverts \/ UNCHANGED vars
  <2>1. holes' = holes
    BY <1>3 DEF Boots, ReloadMeta, BootDone, UpgradeRequested, InstallerCopies, WritesConfig, GrubInstalled,
                HandleMeta, MetaWrite, StageSetsImage, StageSetsOptions, StageRuns, DropSeesReady, Reboots,
                Reverts, vars, ghosts
  <2> QED BY <2>1
<1> QED BY <1>2, <1>3 DEF Next, Records

LEMMA SoundBefore == ASSUME NEW names, [Next]_vars, Sound(names)' PROVE Sound(names)
  BY HolesGrow DEF Sound

-----------------------------------------------------------------------------
(* What a step does to META: who writes it, what, and when. *)
Writes(tags) == copies' = [i \in 1 .. 2 |-> tags]
Tears(tags) == copies' \in [1 .. 2 -> Copy] /\ \A i \in 1 .. 2 : copies'[i] \in {copies[i], tags, TornCopy}

LEMMA FlushingFacts ==
  ASSUME NEW tags \in Flushing
  PROVE  \/ main \in Serving \ Installing /\ tags = mem
         \/ main = "tag" /\ tags = ReadDisk \union {Upgrade}
         \/ main = "untag" /\ tags = ReadDisk \ {Upgrade}
  BY DEF Flushing, Serving, Installing, Copying

LEMMA CopiesStep ==
  ASSUME [Next]_vars
  PROVE  \/ copies' = copies
         \/ main \in Serving \ Installing /\ main' # "off" /\ Writes(mem) /\ Record
         \/ HandleMeta /\ Writes(ReadDisk \union {Upgrade})
         \/ DeletesTag /\ Writes(ReadDisk \ {Upgrade})
         \/ LosesPower /\ \E tags \in Flushing : Tears(tags)
<1>1. CASE ClearStaged \/ FlushMeta \/ MetaFlush \/ StageFlush \/ DropFlushes
  <2>1. Record /\ main \in Serving \ Installing /\ main' # "off" /\ (copies' = copies \/ Writes(mem))
    BY <1>1 DEF ClearStaged, FlushMeta, MetaFlush, StageFlush, DropFlushes, MachinedFlush, MachinedTryFlush,
                Flush, TryFlush, Writes, mainVars, AfterReload, Serving, Installing, Copying
  <2> QED BY <2>1
<1>2. CASE HandleMeta
  BY <1>2 DEF HandleMeta, Flush, Writes
<1>3. CASE DeletesTag
  BY <1>3 DEF DeletesTag, TryFlush, Flush, Writes
<1>4. CASE LosesPower
  BY <1>4 DEF LosesPower, TornFlush, Tears, Copy
<1>5. CASE \/ Boots \/ ReloadMeta \/ BootDone \/ UpgradeRequested \/ InstallerBegins \/ InstallerCopies
           \/ WritesConfig \/ GrubInstalled \/ MetaWrite \/ StageSetsImage \/ StageSetsOptions \/ StageRuns
           \/ DropSeesReady \/ DropDeletes \/ Reboots \/ Fails \/ Reverts \/ UNCHANGED vars
  BY <1>5 DEF Boots, ReloadMeta, BootDone, UpgradeRequested, InstallerBegins, InstallerCopies, WritesConfig,
              GrubInstalled, MetaWrite, StageSetsImage, StageSetsOptions, StageRuns, DropSeesReady,
              DropDeletes, Reboots, Fails, Reverts, vars, disk
<1> QED BY <1>1, <1>2, <1>3, <1>4, <1>5 DEF Next

LEMMA CopiesType == ASSUME TypeOK, [Next]_vars PROVE copies' \in [1 .. 2 -> Copy]
<1>1. copies \in [1 .. 2 -> Copy] /\ mem \in SUBSET Tags
  BY DEF TypeOK, Copy
<1>2. ReadDisk \in SUBSET Tags /\ Upgrade \in Tags
  BY <1>1, ReadDiskFacts, CopyFacts DEF ReadDisk
<1>3. \A t \in SUBSET Tags : Writes(t) => copies' \in [1 .. 2 -> Copy]
  BY FlushFacts DEF Writes
<1> QED BY <1>1, <1>2, <1>3, CopiesStep DEF Tears

(* The installer flips the default, which machined was booted from. *)
LEMMA TargetIsSpare ==
  ASSUME TypeOK, Positions
  PROVE  /\ main \in Copying => Target = Spare
         /\ main = "grub" => default = Spare /\ Other(default) = booted
<1>1. booted \in Labels
  BY DEF TypeOK
<1>2. main = "grub" => default = Spare /\ Other(default) = booted
  BY <1>1, LabelFacts DEF Positions, Spare
<1>3. main \in {"install", "copying", "config"} => default = booted /\ main # "grub"
  BY DEF Positions
<1> QED BY <1>2, <1>3 DEF Target, Spare, Copying

(* What a step does to the boot loader's configuration and to the assets. *)
LEMMA DefaultStep ==
  ASSUME TypeOK, Positions, [Next]_vars
  PROVE  \/ UNCHANGED default
         \/ WritesConfig /\ default' = Spare
         \/ Reverts /\ Revertible /\ default' = Other(default) /\ main' = "untag"
         \/ LosesPower /\ main = "grub" /\ default' \in {Spare, booted, Torn}
         \/ LosesPower /\ main = "revert" /\ Revertible /\ default' \in {Other(default), Torn}
<1>1. CASE WritesConfig \/ Reverts \/ LosesPower
  BY <1>1, TargetIsSpare DEF WritesConfig, Reverts, LosesPower, Copying
<1>2. CASE \/ Boots \/ ReloadMeta \/ ClearStaged \/ BootDone \/ UpgradeRequested \/ InstallerBegins
           \/ InstallerCopies \/ GrubInstalled \/ HandleMeta \/ FlushMeta \/ MetaWrite \/ MetaFlush
           \/ StageSetsImage \/ StageSetsOptions \/ StageFlush \/ StageRuns \/ DropSeesReady \/ DropDeletes
           \/ DropFlushes \/ Reboots \/ Fails \/ DeletesTag \/ UNCHANGED vars
  BY <1>2 DEF Boots, ReloadMeta, ClearStaged, BootDone, UpgradeRequested, InstallerBegins, InstallerCopies,
              GrubInstalled, HandleMeta, FlushMeta, MetaWrite, MetaFlush, StageSetsImage, StageSetsOptions,
              StageFlush, StageRuns, DropSeesReady, DropDeletes, DropFlushes, Reboots, Fails, DeletesTag,
              vars, disk, mainVars
<1> QED BY <1>1, <1>2 DEF Next

LEMMA AssetsStep ==
  ASSUME TypeOK, Positions, [Next]_vars
  PROVE  \/ UNCHANGED assets
         \/ InstallerBegins /\ assets' = [assets EXCEPT ![Spare] = Partial]
         \/ InstallerCopies /\ assets' = [assets EXCEPT ![Spare] = newest + 1]
         \/ LosesPower /\ main \in {"config", "grub"} /\ assets' = [assets EXCEPT ![Spare] = Partial]
<1>1. CASE InstallerBegins \/ InstallerCopies \/ LosesPower
  BY <1>1, TargetIsSpare DEF InstallerBegins, InstallerCopies, LosesPower, Copying
<1>2. CASE \/ Boots \/ ReloadMeta \/ ClearStaged \/ BootDone \/ UpgradeRequested \/ WritesConfig
           \/ GrubInstalled \/ HandleMeta \/ FlushMeta \/ MetaWrite \/ MetaFlush
           \/ StageSetsImage \/ StageSetsOptions \/ StageFlush \/ StageRuns \/ DropSeesReady \/ DropDeletes
           \/ DropFlushes \/ Reboots \/ Fails \/ Reverts \/ DeletesTag \/ UNCHANGED vars
  BY <1>2 DEF Boots, ReloadMeta, ClearStaged, BootDone, UpgradeRequested, WritesConfig,
              GrubInstalled, HandleMeta, FlushMeta, MetaWrite, MetaFlush, StageSetsImage, StageSetsOptions,
              StageFlush, StageRuns, DropSeesReady, DropDeletes, DropFlushes, Reboots, Fails, Reverts,
              DeletesTag, vars, disk, mainVars
<1> QED BY <1>1, <1>2 DEF Next

(* machined's tags, the label it runs from and the history. *)
LEMMA MemStep ==
  ASSUME [Next]_vars
  PROVE  \/ UNCHANGED mem
         \/ Boots /\ mem' = {}
         \/ ReloadMeta /\ mem' \in {ReadDisk \union mem, (ReadDisk \union mem) \ StagedTags}
         \/ StageSetsImage /\ mem' = mem \union {"imageRef"}
         \/ StageSetsOptions /\ mem' = mem \union {"installOptions"}
         \/ DropDeletes /\ mem' = mem \ {Upgrade}
<1>1. CASE Boots \/ ReloadMeta \/ StageSetsImage \/ StageSetsOptions \/ DropDeletes
  BY <1>1 DEF Boots, ReloadMeta, StageSetsImage, StageSetsOptions, DropDeletes
<1>2. CASE \/ ClearStaged \/ BootDone \/ UpgradeRequested \/ InstallerBegins \/ InstallerCopies \/ WritesConfig
           \/ GrubInstalled \/ HandleMeta \/ FlushMeta \/ MetaWrite \/ MetaFlush \/ StageFlush \/ StageRuns
           \/ DropSeesReady \/ DropFlushes \/ Reboots \/ Fails \/ Reverts \/ DeletesTag \/ LosesPower
           \/ UNCHANGED vars
  BY <1>2 DEF ClearStaged, BootDone, UpgradeRequested, InstallerBegins, InstallerCopies, WritesConfig,
              GrubInstalled, HandleMeta, FlushMeta, MetaWrite, MetaFlush, StageFlush, StageRuns,
              DropSeesReady, DropFlushes, Reboots, Fails, Reverts, DeletesTag, LosesPower, vars
<1> QED BY <1>1, <1>2 DEF Next

LEMMA HistoryStep ==
  ASSUME [Next]_vars
  PROVE  /\ booted' = booted \/ (Boots /\ main' \in {"dead", "init"} /\ booted' \in {booted, default})
         /\ ready' = ready \/ (DropSeesReady /\ ready' = ready \union {assets[booted]})
         /\ \/ settled' = settled
            \/ /\ DropDeletes \/ DropFlushes
               /\ settled' = settled \union {assets[booted]} /\ drop' = "done"
         /\ newest' = newest \/ (InstallerCopies /\ newest' = newest + 1)
<1>1. CASE Boots \/ DropSeesReady \/ DropDeletes \/ DropFlushes \/ InstallerCopies
  BY <1>1 DEF Boots, DropSeesReady, DropDeletes, DropFlushes, InstallerCopies, ghosts, mainVars
<1>2. CASE \/ ReloadMeta \/ ClearStaged \/ BootDone \/ UpgradeRequested \/ InstallerBegins \/ WritesConfig
           \/ GrubInstalled \/ HandleMeta \/ FlushMeta \/ MetaWrite \/ MetaFlush \/ StageSetsImage
           \/ StageSetsOptions \/ StageFlush \/ StageRuns \/ Reboots \/ Fails \/ Reverts \/ DeletesTag
           \/ LosesPower \/ UNCHANGED vars
  BY <1>2 DEF ReloadMeta, ClearStaged, BootDone, UpgradeRequested, InstallerBegins, WritesConfig,
              GrubInstalled, HandleMeta, FlushMeta, MetaWrite, MetaFlush, StageSetsImage, StageSetsOptions,
              StageFlush, StageRuns, Reboots, Fails, Reverts, DeletesTag, LosesPower, vars, ghosts, mainVars
<1> QED BY <1>1, <1>2 DEF Next

-----------------------------------------------------------------------------
LEMMA RollbackInvInit == Init => RollbackInv
<1> SUFFICES ASSUME Init PROVE RollbackInv
  OBVIOUS
<1> USE UpgradesAssumption DEF Init
<1>0. 1 \in Versions /\ Missing \notin Versions /\ Partial \notin Versions /\ Partial # Missing
  BY DEF Versions, Missing, Partial
<1>1. assets \in [Labels -> Versions \union {Partial, Missing}] /\ booted \in Labels /\ default \in Labels
  BY <1>0 DEF Labels
<1>2. TypeOK
  <2>1. copies \in [1 .. 2 -> (SUBSET Tags) \union {TornCopy}]
    OBVIOUS
  <2> QED BY <1>0, <1>1, <2>1 DEF TypeOK, Serving
<1>3. ~Tagged(copies) /\ ~OnDisk
  BY DEF Tagged, OnDisk
<1>4. Positions /\ Numbered
  BY <1>0, <1>1 DEF Positions, Numbered, Installing, Copying, Torn, Labels
<1>5. Counted /\ StagedCounted /\ TagKept /\ DropAfterReady
  BY <1>3 DEF Counted, StagedCounted, InFlight, Claimed, Pending, TagKept, DropAfterReady
<1>6. WholeFallback /\ ReadyFallback /\ SettledUntagged
  BY <1>0, <1>3 DEF WholeFallback, ReadyFallback, SettledUntagged, Working, Labels
<1> QED BY <1>2, <1>4, <1>5, <1>6 DEF RollbackInv

LEMMA TypeStep == TypeOK /\ Positions /\ Numbered /\ Counted /\ StagedCounted /\ [Next]_vars => TypeOK'
<1> SUFFICES ASSUME TypeOK, Positions, Numbered, Counted, StagedCounted, [Next]_vars PROVE TypeOK'
  OBVIOUS
<1> USE UpgradesAssumption
<1>1. copies' \in [1 .. 2 -> (SUBSET Tags) \union {TornCopy}]
  BY CopiesType DEF Copy
<1>2. Spare \in Labels /\ Other(default) \in Labels
  BY LabelFacts DEF TypeOK, Spare, Other, Labels
<1>3. default' \in Labels \union {Torn}
  BY <1>2, DefaultStep DEF TypeOK
<1>4. booted' \in Labels
  BY HistoryStep DEF TypeOK, Boots
<1>5. main = "copying" => newest + 1 \in Versions
  BY DEF TypeOK, Counted, InFlight, Versions
<1>6. assets' \in [Labels -> Versions \union {Partial, Missing}]
  BY <1>2, <1>5, AssetsStep DEF TypeOK, InstallerCopies
<1>7. newest' \in Versions
  BY <1>5, HistoryStep DEF TypeOK, InstallerCopies
<1>8. mem' \subseteq Tags
  <2>1. ReadDisk \subseteq Tags
    BY ReadDiskFacts DEF TypeOK, ReadDisk, Copy
  <2> QED BY <2>1, MemStep DEF TypeOK, Tags, StagedTags
<1>9. ready' \subseteq Versions /\ settled' \subseteq Versions
  <2>1. main \in Alive => assets[booted] \in Versions
    BY DEF Numbered
  <2>2. DropSeesReady \/ DropDeletes \/ DropFlushes => main \in Alive
    BY DEF DropSeesReady, DropDeletes, DropFlushes, Alive, Serving
  <2> QED BY <2>1, <2>2, HistoryStep DEF TypeOK
<1>10. holes' \subseteq Holes
  <2>1. CASE Records
    <3>1. Record
      BY <2>1 DEF Records, ClearStaged, InstallerBegins, FlushMeta, MetaFlush, StageFlush, DropDeletes,
                  DropFlushes, Fails, DeletesTag, LosesPower
    <3> QED BY <3>1, RecordFacts DEF TypeOK
  <2>2. CASE ~Records
    <3>1. holes' = holes
      BY <2>2 DEF Next, Records, Boots, ReloadMeta, BootDone, UpgradeRequested, InstallerCopies, WritesConfig,
                  GrubInstalled, HandleMeta, MetaWrite, StageSetsImage, StageSetsOptions, StageRuns,
                  DropSeesReady, Reboots, Reverts, vars, ghosts
    <3> QED BY <3>1 DEF TypeOK
  <2> QED BY <2>1, <2>2
<1>11. /\ main' \in Serving \union {"off", "dead", "init", "revert", "untag"}
       /\ installer' \in {"none", "staged", "upgrade"}
  <2>1. CASE \/ Boots \/ ReloadMeta \/ ClearStaged \/ BootDone \/ UpgradeRequested \/ InstallerBegins
             \/ InstallerCopies \/ WritesConfig \/ GrubInstalled \/ HandleMeta \/ FlushMeta \/ StageRuns
             \/ Reboots \/ Fails \/ Reverts \/ DeletesTag \/ LosesPower
    BY <2>1 DEF TypeOK, Boots, ReloadMeta, ClearStaged, BootDone, UpgradeRequested, InstallerBegins,
                InstallerCopies, WritesConfig, GrubInstalled, HandleMeta, FlushMeta, StageRuns, Reboots, Fails,
                Reverts, DeletesTag, LosesPower, AfterReload, Serving, Installing, Copying
  <2>2. CASE \/ MetaWrite \/ MetaFlush \/ StageSetsImage \/ StageSetsOptions \/ StageFlush \/ DropSeesReady
             \/ DropDeletes \/ DropFlushes \/ UNCHANGED vars
    BY <2>2 DEF TypeOK, MetaWrite, MetaFlush, StageSetsImage, StageSetsOptions, StageFlush, DropSeesReady,
                DropDeletes, DropFlushes, vars, mainVars
  <2> QED BY <2>1, <2>2 DEF Next
<1>12. /\ write' \in {"idle", "flush"}
       /\ stage' \in {"idle", "options", "flush", "run"}
       /\ drop' \in {"waits", "deletes", "flush", "done"}
  <2>1. CASE UNCHANGED api
    BY <2>1 DEF TypeOK, api
  <2>2. CASE \/ Boots \/ MetaWrite \/ MetaFlush \/ StageSetsImage \/ StageSetsOptions \/ StageFlush \/ StageRuns
             \/ DropSeesReady \/ DropDeletes \/ DropFlushes
    BY <2>2 DEF TypeOK, Boots, MetaWrite, MetaFlush, StageSetsImage, StageSetsOptions, StageFlush, StageRuns,
                DropSeesReady, DropDeletes, DropFlushes
  <2> QED BY <2>1, <2>2
          DEF Next, ReloadMeta, ClearStaged, BootDone, UpgradeRequested, InstallerBegins, InstallerCopies,
              WritesConfig, GrubInstalled, HandleMeta, FlushMeta, Reboots, Fails, Reverts, DeletesTag,
              LosesPower, vars, api
<1>13. requests' \in 0 .. MaxUpgrades /\ asked' \in 0 .. MaxUpgrades
  <2>1. CASE UNCHANGED <<requests, asked>>
    BY <2>1 DEF TypeOK
  <2>2. CASE UpgradeRequested
    BY <2>2 DEF TypeOK, UpgradeRequested
  <2>3. CASE InstallerBegins
    BY <2>3 DEF TypeOK, InstallerBegins, StagedCounted, Claimed
  <2>4. CASE StageSetsImage
    BY <2>4 DEF TypeOK, StageSetsImage, Counted, Versions
  <2> QED BY <2>1, <2>2, <2>3, <2>4
          DEF Next, Boots, ReloadMeta, ClearStaged, BootDone, InstallerCopies, WritesConfig, GrubInstalled,
              HandleMeta, FlushMeta, MetaWrite, MetaFlush, StageSetsOptions, StageFlush, StageRuns,
              DropSeesReady, DropDeletes, DropFlushes, Reboots, Fails, Reverts, DeletesTag, LosesPower, vars
<1> QED BY <1>1, <1>3, <1>4, <1>6, <1>7, <1>8, <1>9, <1>10, <1>11, <1>12, <1>13 DEF TypeOK

LEMMA PositionsStep == TypeOK /\ Positions /\ [Next]_vars => Positions'
<1> SUFFICES ASSUME TypeOK, Positions, [Next]_vars PROVE Positions'
  OBVIOUS
<1> USE DEF Positions, Installing, Copying
<1>0. Torn \notin Labels /\ Spare \in Labels /\ Other(default) \in Labels
  BY LabelFacts DEF TypeOK, Spare, Other, Labels
<1>1. CASE Boots
  BY <1>1 DEF Boots, disk
<1>2. CASE ReloadMeta \/ ClearStaged \/ BootDone \/ UpgradeRequested
  BY <1>2 DEF ReloadMeta, ClearStaged, BootDone, UpgradeRequested, AfterReload, disk, api, TypeOK, Spare
<1>3. CASE InstallerBegins \/ InstallerCopies \/ WritesConfig \/ GrubInstalled \/ HandleMeta \/ FlushMeta
  BY <1>0, <1>3, TargetIsSpare DEF InstallerBegins, InstallerCopies, WritesConfig, GrubInstalled, HandleMeta,
              FlushMeta, disk, Spare
<1>4. CASE \/ MetaWrite \/ MetaFlush \/ StageSetsImage \/ StageSetsOptions \/ StageFlush \/ StageRuns
           \/ DropSeesReady \/ DropDeletes \/ DropFlushes
  BY <1>4 DEF MetaWrite, MetaFlush, StageSetsImage, StageSetsOptions, StageFlush, StageRuns, DropSeesReady,
              DropDeletes, DropFlushes, mainVars, disk, Serving, Spare
<1>5. CASE Reboots \/ Fails \/ Reverts \/ DeletesTag
  BY <1>0, <1>5 DEF Reboots, Fails, Reverts, DeletesTag, disk, Serving
<1>6. CASE LosesPower
  BY <1>6 DEF LosesPower
<1>7. CASE UNCHANGED vars
  BY <1>7 DEF vars, Spare
<1> QED BY <1>1, <1>2, <1>3, <1>4, <1>5, <1>6, <1>7 DEF Next

(* Where main comes from. *)
LEMMA AliveStep ==
  ASSUME TypeOK, [Next]_vars, main' \in Alive
  PROVE  main \in Alive \/ (Boots /\ main' = "init")
  BY DEF TypeOK, Alive, Serving, Installing, Copying, Next, Boots, ReloadMeta, ClearStaged, BootDone,
         UpgradeRequested, InstallerBegins, InstallerCopies, WritesConfig, GrubInstalled, HandleMeta, FlushMeta,
         MetaWrite, MetaFlush, StageSetsImage, StageSetsOptions, StageFlush, StageRuns, DropSeesReady,
         DropDeletes, DropFlushes, Reboots, Fails, Reverts, DeletesTag, LosesPower, vars, mainVars

LEMMA NumberedStep == TypeOK /\ Positions /\ Counted /\ Numbered /\ [Next]_vars /\ TypeOK' => Numbered'
<1> SUFFICES ASSUME TypeOK, Positions, Counted, Numbered, [Next]_vars, TypeOK' PROVE Numbered'
  OBVIOUS
<1>0. /\ Spare \in Labels /\ Spare # booted /\ booted \in Labels
      /\ newest \in Nat /\ newest' \in Nat /\ newest <= newest'
      /\ Partial \notin Versions /\ Versions \subseteq Nat
  BY UpgradesAssumption, LabelFacts, HistoryStep DEF TypeOK, Versions, Partial, Spare
<1>1. ASSUME NEW l \in Labels, assets'[l] \in Versions PROVE assets'[l] <= newest'
  <2>1. CASE InstallerCopies
    <3>1. assets'[l] = assets[l] \/ assets'[l] = newest'
      BY <1>0, <2>1 DEF TypeOK, InstallerCopies
    <3>2. assets'[l] = newest' \/ (assets[l] \in Versions /\ assets'[l] = assets[l])
      BY <1>1, <3>1
    <3>3. assets[l] \in Versions => assets[l] <= newest /\ assets[l] \in Nat
      BY <1>0 DEF Numbered
    <3> QED BY <1>0, <3>2, <3>3
  <2>2. CASE ~InstallerCopies
    <3>1. assets'[l] \in {assets[l], Partial}
      BY <1>0, <2>2, AssetsStep DEF TypeOK
    <3>2. assets'[l] = newest' \/ (assets[l] \in Versions /\ assets'[l] = assets[l])
      BY <1>0, <1>1, <3>1
    <3>3. assets[l] \in Versions => assets[l] <= newest /\ assets[l] \in Nat
      BY <1>0 DEF Numbered
    <3> QED BY <1>0, <3>2, <3>3
  <2> QED BY <2>1, <2>2
<1>2. settled' \subseteq 1..newest'
  <2>1. DropDeletes \/ DropFlushes => main \in Alive
    BY DEF DropDeletes, DropFlushes, Alive
  <2>2. main \in Alive => assets[booted] \in 1..newest
    BY <1>0 DEF Numbered, Versions, TypeOK
  <2>3. settled' \subseteq 1..newest
    BY <2>1, <2>2, HistoryStep DEF Numbered
  <2> QED BY <1>0, <2>3
<1>3. ASSUME main' \in Alive PROVE assets'[booted'] \in Versions
  <2>1. CASE main \in Alive
    <3>1. booted' = booted
      BY <2>1, HistoryStep DEF Boots, Alive, Serving, Installing, Copying
    <3> QED BY <1>0, <2>1, <3>1, AssetsStep DEF Numbered, TypeOK
  <2>2. CASE Boots /\ main' = "init"
    BY <2>2 DEF Boots, TypeOK, disk
  <2> QED BY <1>3, <2>1, <2>2, AliveStep
<1>4. ASSUME main' \in {"config", "grub", "tag"} 
      PROVE  assets'[Spare'] = newest' /\ newest' \notin settled' \union {assets'[booted']}
  <2>1. \/ InstallerCopies
        \/ /\ main \in {"config", "grub", "tag"} /\ UNCHANGED <<assets, booted, newest>>
           /\ settled' \in {settled, settled \union {assets[booted]}}
    <3>1. \/ InstallerCopies \/ WritesConfig \/ GrubInstalled
          \/ main' = main
      BY <1>4 DEF Next, Boots, ReloadMeta, ClearStaged, BootDone, UpgradeRequested, InstallerBegins, HandleMeta,
                  FlushMeta, MetaWrite, MetaFlush, StageSetsImage, StageSetsOptions, StageFlush, StageRuns,
                  DropSeesReady, DropDeletes, DropFlushes, Reboots, Fails, Reverts, DeletesTag, LosesPower, vars,
                  mainVars, AfterReload
    <3>2. CASE WritesConfig \/ GrubInstalled
      BY <3>2 DEF WritesConfig, GrubInstalled, disk, ghosts
    <3>3. CASE main' = main
      BY <1>4, <3>3, AssetsStep, HistoryStep DEF InstallerBegins, InstallerCopies, LosesPower, Boots
    <3> QED BY <3>1, <3>2, <3>3
  <2>2. CASE InstallerCopies
    <3>1. newest + 1 \notin settled
      BY <1>0 DEF Numbered
    <3>2. assets[booted] # newest + 1
      BY <1>0, <2>2 DEF Numbered, InstallerCopies, Alive, Serving, Installing, Copying
    <3>3. assets' = [assets EXCEPT ![Spare] = newest + 1] /\ booted' = booted
      BY <2>2, TargetIsSpare DEF InstallerCopies, Copying
    <3> QED BY <1>0, <2>2, <3>1, <3>2, <3>3 DEF InstallerCopies, TypeOK, Spare, ghosts
  <2>3. CASE /\ main \in {"config", "grub", "tag"} /\ UNCHANGED <<assets, booted, newest>>
             /\ settled' \in {settled, settled \union {assets[booted]}}
    BY <2>3 DEF Numbered, Spare
  <2> QED BY <2>1, <2>2, <2>3
<1> QED BY <1>1, <1>2, <1>3, <1>4 DEF Numbered

LEMMA CountedStep == TypeOK /\ Positions /\ Counted /\ [Next]_vars => Counted'
<1> SUFFICES ASSUME TypeOK, Positions, Counted, [Next]_vars PROVE Counted'
  OBVIOUS
<1>0. newest \in Nat \ {0} /\ asked \in Nat /\ requests \in Nat
  BY UpgradesAssumption DEF TypeOK, Versions
<1>1. CASE UpgradeRequested
  <2>1. ~InFlight /\ UNCHANGED <<newest, asked>> /\ requests' = requests + 1
    BY <1>1 DEF UpgradeRequested, InFlight
  <2> QED BY <1>0, <2>1 DEF Counted
<1>2. CASE InstallerBegins
  <2>1. CASE installer = "staged"
    <3>1. ~InFlight /\ UNCHANGED <<newest, requests>> /\ asked' = asked - 1
      BY <1>2, <2>1 DEF InstallerBegins, InFlight
    <3> QED BY <1>0, <3>1 DEF Counted
  <2>2. CASE installer = "upgrade"
    <3>1. InFlight /\ UNCHANGED <<newest, requests, asked>>
      BY <1>2, <2>2 DEF InstallerBegins, InFlight
    <3> QED BY <1>0, <3>1 DEF Counted
  <2>3. installer \in {"staged", "upgrade"}
    BY <1>2 DEF InstallerBegins, Positions, TypeOK, Installing, Copying
  <2> QED BY <2>1, <2>2, <2>3
<1>3. CASE InstallerCopies
  <2>1. InFlight /\ ~InFlight' /\ newest' = newest + 1 /\ UNCHANGED <<requests, asked>>
    BY <1>3 DEF InstallerCopies, InFlight
  <2> QED BY <1>0, <2>1 DEF Counted
<1>4. CASE StageSetsImage
  <2>1. (InFlight' <=> InFlight) /\ UNCHANGED newest /\ requests' = requests + 1 /\ asked' = asked + 1
    BY <1>4 DEF StageSetsImage, InFlight, mainVars
  <2> QED BY <1>0, <2>1 DEF Counted
<1>5. CASE UNCHANGED <<newest, asked, requests>> /\ (InFlight' => InFlight)
  BY <1>0, <1>5 DEF Counted
<1>6. CASE Boots \/ ReloadMeta \/ ClearStaged \/ BootDone \/ WritesConfig \/ GrubInstalled \/ HandleMeta \/ FlushMeta
  BY <1>5, <1>6 DEF Boots, ReloadMeta, ClearStaged, BootDone, WritesConfig, GrubInstalled, HandleMeta, FlushMeta,
                    AfterReload, InFlight
<1>7. CASE \/ MetaWrite \/ MetaFlush \/ StageSetsOptions \/ StageFlush \/ StageRuns \/ DropSeesReady \/ DropDeletes
           \/ DropFlushes \/ Reboots \/ Fails \/ Reverts \/ DeletesTag \/ LosesPower \/ UNCHANGED vars
  BY <1>5, <1>7 DEF MetaWrite, MetaFlush, StageSetsOptions, StageFlush, StageRuns, DropSeesReady, DropDeletes,
                    DropFlushes, Reboots, Fails, Reverts, DeletesTag, LosesPower, vars, mainVars, InFlight
<1> QED BY <1>1, <1>2, <1>3, <1>4, <1>6, <1>7 DEF Next

(* A copy of META that holds tags of a staged upgrade got them from memory  *)
(* or had them before.                                                      *)
LEMMA OnDiskStep ==
  ASSUME TypeOK, [Next]_vars, OnDisk'
  PROVE  OnDisk \/ mem \intersect StagedTags # {}
<1>1. copies \in [1 .. 2 -> Copy]
  BY DEF TypeOK, Copy
<1>2. ReadDisk \intersect StagedTags # {} => OnDisk
  BY <1>1, ReadDiskFacts DEF ReadDisk, OnDisk
<1>3. Upgrade \notin StagedTags /\ TornCopy \intersect StagedTags = {}
  BY CopyFacts
<1>4. ASSUME NEW t, Writes(t) PROVE t \intersect StagedTags # {}
  BY <1>4 DEF Writes, OnDisk
<1>5. ASSUME NEW t, Tears(t), t \intersect StagedTags = {} PROVE OnDisk
  BY <1>3, <1>5 DEF Tears, OnDisk
<1>6. CASE LosesPower /\ \E t \in Flushing : Tears(t)
  <2>1. PICK t \in Flushing : Tears(t)
    BY <1>6
  <2>2. t \intersect StagedTags # {} => mem \intersect StagedTags # {} \/ OnDisk
    BY <1>2, <1>3, FlushingFacts
  <2> QED BY <1>5, <2>1, <2>2
<1>7. CASE copies' = copies
  BY <1>7 DEF OnDisk
<1> QED BY <1>2, <1>3, <1>4, <1>6, <1>7, CopiesStep

LEMMA StagedCountedStep ==
  TypeOK /\ TypeOK' /\ Positions /\ StagedCounted /\ [Next]_vars => StagedCounted'
<1> SUFFICES ASSUME TypeOK, TypeOK', Positions, StagedCounted, [Next]_vars PROVE StagedCounted'
  OBVIOUS
<1>0. asked \in Nat /\ asked' \in Nat
  BY DEF TypeOK
<1>a. Upgrade \notin StagedTags /\ "imageRef" \in StagedTags
  BY DEF Upgrade, StagedTags
<1>b. OnDisk' => OnDisk \/ Pending
  BY OnDiskStep DEF Pending
<1>1. CASE Boots
  BY <1>0, <1>1, <1>b DEF Boots, StagedCounted, Pending, Claimed
<1>2. CASE ReloadMeta
  <2>1. /\ UNCHANGED <<asked, copies, installer, stage>>
        /\ mem' \in {ReadDisk \union mem, (ReadDisk \union mem) \ StagedTags}
        /\ main' = "clear" => StagedTags \subseteq ReadDisk \union mem /\ mem' = (ReadDisk \union mem) \ StagedTags
        /\ main' # "install"
    BY <1>2 DEF ReloadMeta, disk, api, AfterReload
  <2>2. ReadDisk \intersect StagedTags # {} => OnDisk
    BY ReadDiskFacts DEF ReadDisk, OnDisk, TypeOK, Copy
  <2>3. Pending' => Pending \/ OnDisk
    BY <2>1, <2>2 DEF Pending
  <2>4. OnDisk' <=> OnDisk
    BY <2>1 DEF OnDisk
  <2>5. ASSUME Claimed' PROVE OnDisk /\ ~Pending'
    <3>1. main' = "clear" /\ installer = "none"
      BY <2>1, <2>5 DEF Claimed
    <3>2. main = "init" /\ mem = {} /\ stage = "idle"
      BY <1>2, <3>1 DEF ReloadMeta, Positions
    <3>3. ReadDisk \intersect StagedTags # {}
      BY <1>a, <2>1, <3>1, <3>2
    <3> QED BY <2>1, <2>2, <3>1, <3>2, <3>3 DEF Pending
  <2> QED BY <1>0, <2>1, <2>3, <2>4, <2>5 DEF StagedCounted
<1>3. CASE ClearStaged
  <2>1. /\ UNCHANGED <<asked, mem, stage>> /\ main = "clear"
        /\ Claimed' => Claimed /\ main' = "install" /\ Writes(mem)
        /\ main' = "install" /\ installer' = "staged" => Writes(mem)
    BY <1>3 DEF ClearStaged, Claimed, AfterReload, MachinedFlush, Flush, Writes, api, Positions
  <2>2. Pending' <=> Pending
    BY <2>1 DEF Pending
  <2>3. main' = "install" /\ installer' = "staged" /\ OnDisk' => Pending'
    BY <2>1 DEF Writes, OnDisk, Pending
  <2> QED BY <1>0, <1>b, <2>1, <2>2, <2>3 DEF StagedCounted
<1>4. CASE InstallerBegins
  <2>1. UNCHANGED <<mem, stage, copies>> /\ ~Claimed'
    BY <1>4 DEF InstallerBegins, api, Claimed
  <2>2. (Pending' <=> Pending) /\ (OnDisk' <=> OnDisk)
    BY <2>1 DEF Pending, OnDisk
  <2>3. CASE installer = "staged"
    <3>1. Claimed /\ main = "install" /\ asked' = asked - 1 /\ main' # "install"
      BY <1>4, <2>3 DEF InstallerBegins, Claimed
    <3> QED BY <1>0, <2>1, <2>2, <2>3, <3>1 DEF StagedCounted
  <2>4. CASE installer # "staged"
    <3>1. asked' = asked /\ main' # "install"
      BY <1>4, <2>4 DEF InstallerBegins
    <3> QED BY <1>0, <2>1, <2>2, <3>1 DEF StagedCounted
  <2> QED BY <2>3, <2>4
<1>5. CASE StageSetsImage
  <2>1. UNCHANGED <<copies, main, installer>> /\ asked' = asked + 1 /\ Pending'
    BY <1>5 DEF StageSetsImage, mainVars, Pending
  <2>2. (Claimed' <=> Claimed) /\ (OnDisk' <=> OnDisk)
    BY <2>1 DEF Claimed, OnDisk
  <2> QED BY <1>0, <2>1, <2>2 DEF StagedCounted
<1>6. CASE StageSetsOptions
  <2>1. UNCHANGED <<copies, main, installer, asked>> /\ Pending /\ Pending'
    BY <1>6 DEF StageSetsOptions, mainVars, Pending, StagedTags
  <2>2. (Claimed' <=> Claimed) /\ (OnDisk' <=> OnDisk)
    BY <2>1 DEF Claimed, OnDisk
  <2> QED BY <1>0, <2>1, <2>2 DEF StagedCounted
<1>7. CASE DropDeletes
  <2>1. UNCHANGED <<copies, main, installer, asked, stage>> /\ mem' = mem \ {Upgrade}
    BY <1>7 DEF DropDeletes, mainVars
  <2>2. (Claimed' <=> Claimed) /\ (OnDisk' <=> OnDisk) /\ (Pending' <=> Pending)
    BY <1>a, <2>1 DEF Claimed, OnDisk, Pending
  <2> QED BY <1>0, <2>1, <2>2 DEF StagedCounted
<1>8. CASE /\ UNCHANGED <<asked, mem>> /\ (Pending' => Pending) /\ (Claimed' => Claimed)
           /\ main' = "install" /\ installer' = "staged"
                => main = "install" /\ installer = "staged" /\ UNCHANGED copies /\ (Pending => Pending')
  <2>1. copies' = copies => (OnDisk' <=> OnDisk)
    BY DEF OnDisk
  <2> QED BY <1>0, <1>b, <1>8, <2>1 DEF StagedCounted
<1>9. CASE MetaFlush \/ StageFlush \/ DropFlushes
  BY <1>8, <1>9 DEF MetaFlush, StageFlush, DropFlushes, MachinedFlush, MachinedTryFlush, mainVars, Pending, Claimed,
                    Installing, Copying
<1>10. CASE \/ BootDone \/ UpgradeRequested \/ InstallerCopies \/ WritesConfig \/ GrubInstalled \/ HandleMeta
            \/ FlushMeta
  BY <1>8, <1>10 DEF BootDone, UpgradeRequested, InstallerCopies, WritesConfig, GrubInstalled, HandleMeta,
                     FlushMeta, api, Pending, Claimed
<1>11. CASE \/ MetaWrite \/ StageRuns \/ DropSeesReady \/ Reboots \/ Fails \/ Reverts \/ DeletesTag \/ LosesPower
            \/ UNCHANGED vars
  BY <1>8, <1>11 DEF MetaWrite, StageRuns, DropSeesReady, Reboots, Fails, Reverts, DeletesTag, LosesPower, vars, api,
                     mainVars, disk, Pending, Claimed
<1> QED BY <1>1, <1>2, <1>3, <1>4, <1>5, <1>6, <1>7, <1>9, <1>10, <1>11 DEF Next

-----------------------------------------------------------------------------
(* The holes, one by one: what each of them records. *)
LEMMA StackedRecorded == ASSUME InstallerBegins, Tagged(copies) PROVE "stacked" \in holes'
<1>1. Record /\ Hole("stacked")
  BY DEF InstallerBegins, Hole
<1> QED BY <1>1, RecordFacts DEF Holes

LEMMA UnsyncedRecorded == ASSUME LosesPower, main = "grub" PROVE "unsynced" \in holes'
<1>1. Record /\ Hole("unsynced")
  BY DEF LosesPower, Hole
<1> QED BY <1>1, RecordFacts DEF Holes

LEMMA NoTagRecorded ==
  ASSUME Fails \/ LosesPower, main \in {"grub", "tag"}, NEW i \in 1 .. 2, Upgrade \notin copies'[i]
  PROVE  "noTag" \in holes'
<1>1. Record /\ main' \in {"revert", "off"}
  BY DEF Fails, LosesPower
<1>2. Hole("noTag")
  BY <1>1 DEF Hole
<1> QED BY <1>1, <1>2, RecordFacts DEF Holes

LEMMA TornMetaRecorded ==
  ASSUME Record, copies' \in [1 .. 2 -> Copy], copies'[1] = TornCopy, copies'[2] = TornCopy
  PROVE  "tornMeta" \in holes'
<1>1. copies' = [i \in 1 .. 2 |-> TornCopy]
  OBVIOUS
<1>2. Hole("tornMeta")
  BY <1>1 DEF Hole
<1> QED BY <1>2, RecordFacts DEF Holes

LEMMA StaleFlushRecorded ==
  ASSUME Record, installer # "none", main # "untag", NEW i \in 1 .. 2,
         Upgrade \in copies[i], Upgrade \notin copies'[i], copies'[i] # TornCopy
  PROVE  "staleFlush" \in holes'
<1>1. Hole("staleFlush")
  BY DEF Hole
<1> QED BY <1>1, RecordFacts DEF Holes

LEMMA FlippedRecorded ==
  ASSUME Record, main' = "off", main \in {"revert", "untag"}, main = "untag" \/ default' # default, Tagged(copies')
  PROVE  "flipped" \in holes'
<1>1. Hole("flipped")
  BY DEF Hole
<1> QED BY <1>1, RecordFacts DEF Holes

LEMMA KeptTagRecorded ==
  ASSUME DropDeletes \/ DropFlushes, drop' = "done", Tagged(copies')
  PROVE  "keptTag" \in holes'
<1>1. Record /\ drop \in {"deletes", "flush"}
  BY DEF DropDeletes, DropFlushes
<1>2. Hole("keptTag")
  BY <1>1 DEF Hole
<1> QED BY <1>1, <1>2, RecordFacts DEF Holes

-----------------------------------------------------------------------------
(* The version that runs stays where it is. *)
LEMMA BootedKept ==
  ASSUME TypeOK, Positions, [Next]_vars, main \in Alive
  PROVE  booted' = booted /\ assets'[booted'] = assets[booted]
<1>1. booted' = booted
  BY HistoryStep DEF Boots, Alive, Serving, Installing, Copying
<1>2. Spare # booted /\ booted \in Labels
  BY LabelFacts DEF TypeOK, Spare
<1> QED BY <1>1, <1>2, AssetsStep DEF TypeOK

LEMMA TagKeptStep == TypeOK /\ Positions /\ TagKept /\ [Next]_vars => TagKept'
<1> SUFFICES ASSUME TypeOK, Positions, TagKept, [Next]_vars PROVE TagKept'
  OBVIOUS
<1>0. mem \in SUBSET Tags /\ copies \in [1 .. 2 -> Copy] /\ ReadDisk \in SUBSET Tags /\ Upgrade \in Tags
  BY ReadDiskFacts, CopyFacts DEF TypeOK, Copy, ReadDisk
<1>1. LosesPower \/ DeletesTag => main' = "off"
  BY DEF LosesPower, DeletesTag
<1>2. ASSUME main' \in Alive, Upgrade \in mem' PROVE Upgrade \in ReadDisk'
  <2>1. main \in Alive
    BY <1>2, AliveStep DEF Boots
  <2>2. Upgrade \in ReadDisk /\ (Upgrade \in mem \/ copies' = copies)
    <3>1. CASE ReloadMeta
      BY <1>2, <2>1, <3>1 DEF ReloadMeta, disk, TagKept
    <3>2. CASE ~ReloadMeta
      <4>1. Upgrade \in mem
        BY <1>2, <3>2, MemStep DEF Upgrade
      <4> QED BY <2>1, <4>1 DEF TagKept
    <3> QED BY <3>1, <3>2
  <2>3. CASE copies' = copies
    BY <2>2, <2>3 DEF ReadDisk
  <2>4. CASE Writes(mem)
    BY <1>0, <2>2, <2>4, FlushFacts DEF Writes, ReadDisk
  <2>5. CASE Writes(ReadDisk \union {Upgrade})
    <3>1. ReadDisk' = ReadDisk \union {Upgrade}
      BY <1>0, <2>5, FlushFacts DEF Writes
    <3> QED BY <3>1
  <2> QED BY <1>1, <1>2, <2>3, <2>4, <2>5, CopiesStep DEF Alive, Serving, Installing, Copying
<1>3. ASSUME main' \in Serving \ Installing, installer' # "none", NEW i \in 1 .. 2 PROVE copies'[i] # TornCopy
  <2>1. CASE HandleMeta
    <3>1. Writes(ReadDisk \union {Upgrade}) /\ ReadDisk \union {Upgrade} \in SUBSET Tags
      BY <1>0, <2>1 DEF HandleMeta, Flush, Writes
    <3> QED BY <3>1, CopyFacts DEF Writes
  <2>2. CASE ~HandleMeta
    <3>1. main \in Serving \ Installing /\ installer # "none"
      BY <1>3, <2>2
         DEF Next, Boots, ReloadMeta, ClearStaged, BootDone, UpgradeRequested, InstallerBegins, InstallerCopies,
             WritesConfig, GrubInstalled, FlushMeta, MetaWrite, MetaFlush, StageSetsImage, StageSetsOptions,
             StageFlush, StageRuns, DropSeesReady, DropDeletes, DropFlushes, Reboots, Fails, Reverts, DeletesTag,
             LosesPower, vars, mainVars, AfterReload, Positions, Serving, Installing, Copying
    <3>2. copies' = copies \/ Writes(mem)
      BY <1>1, <1>3, <2>2, CopiesStep DEF Serving, Installing, Copying
    <3>3. copies[i] # TornCopy
      BY <3>1 DEF TagKept
    <3> QED BY <1>0, <3>2, <3>3, CopyFacts DEF Writes
  <2> QED BY <2>1, <2>2
<1> QED BY <1>2, <1>3 DEF TagKept

LEMMA DropAfterReadyStep == TypeOK /\ Positions /\ DropAfterReady /\ [Next]_vars => DropAfterReady'
<1> SUFFICES ASSUME TypeOK, Positions, DropAfterReady, [Next]_vars, main' \in Serving, drop' \in {"deletes", "flush"}
             PROVE  assets'[booted'] \in ready'
  BY DEF DropAfterReady
<1>1. main \in Alive
  BY AliveStep DEF Alive, Serving, Installing, Copying
<1>2. assets'[booted'] = assets[booted] /\ ready \subseteq ready'
  BY <1>1, BootedKept, HistoryStep
<1>3. CASE DropSeesReady
  BY <1>2, <1>3 DEF DropSeesReady
<1>4. CASE ~DropSeesReady
  <2>1. drop \in {"deletes", "flush"}
    BY <1>4 DEF Next, Boots, ReloadMeta, ClearStaged, BootDone, UpgradeRequested, InstallerBegins, InstallerCopies,
             WritesConfig, GrubInstalled, HandleMeta, FlushMeta, MetaWrite, MetaFlush, StageSetsImage,
             StageSetsOptions, StageFlush, StageRuns, DropDeletes, DropFlushes, Reboots, Fails, Reverts,
             DeletesTag, LosesPower, vars, api
  <2>2. main \in Serving
    BY <1>1, <2>1 DEF Positions, Alive
  <2> QED BY <1>2, <2>1, <2>2 DEF DropAfterReady
<1> QED BY <1>3, <1>4

(* Only the installer tags META, and it leaves META alone until then. *)
LEMMA TaggedStep ==
  ASSUME TypeOK, TagKept, [Next]_vars, Tagged(copies')
  PROVE  Tagged(copies) \/ (main = "tag" /\ (HandleMeta \/ LosesPower))
<1>0. copies \in [1 .. 2 -> Copy] /\ Upgrade \notin TornCopy
  BY CopyFacts DEF TypeOK, Copy
<1>1. Upgrade \in ReadDisk => Tagged(copies)
  BY <1>0, ReadDiskFacts DEF ReadDisk
<1>2. main \in Serving \ Installing /\ Upgrade \in mem => Tagged(copies)
  BY <1>1 DEF TagKept, Alive
<1>3. ASSUME NEW t, Writes(t) \/ Tears(t) PROVE Tagged(copies) \/ Upgrade \in t
  BY <1>0, <1>3 DEF Writes, Tears, Tagged
<1>4. HandleMeta => main = "tag"
  BY DEF HandleMeta
<1>5. CASE LosesPower /\ \E t \in Flushing : Tears(t)
  <2>1. PICK t \in Flushing : Tears(t)
    BY <1>5
  <2> QED BY <1>2, <1>3, <1>5, <2>1, FlushingFacts
<1> QED BY <1>2, <1>3, <1>4, <1>5, CopiesStep

LEMMA WorkingStep ==
  ASSUME [Next]_vars, main' \in Working
  PROVE  copies' = copies /\ (main \in Working \/ InstallerBegins)
<1>1. main \in Working \/ InstallerBegins
  BY DEF Next, Boots, ReloadMeta, ClearStaged, BootDone, UpgradeRequested, InstallerCopies,
         WritesConfig, GrubInstalled, HandleMeta, FlushMeta, MetaWrite, MetaFlush, StageSetsImage,
         StageSetsOptions, StageFlush, StageRuns, DropSeesReady, DropDeletes, DropFlushes, Reboots, Fails,
         Reverts, DeletesTag, LosesPower, vars, mainVars, AfterReload, Working
<1>2. HandleMeta \/ DeletesTag \/ LosesPower => main' \notin Working
  BY DEF HandleMeta, DeletesTag, LosesPower, Working
<1>3. main \in Serving \ Installing => ~(main \in Working \/ InstallerBegins)
  BY DEF Working, InstallerBegins, Installing, Copying
<1> QED BY <1>1, <1>2, <1>3, CopiesStep

(* revertBootloader ends with an attempt to delete the tag, or without. *)
LEMMA UntagStep ==
  ASSUME [Next]_vars, main = "untag"
  PROVE  main' = main \/ (main' = "off" /\ Record /\ UNCHANGED <<default, assets>>)
<1>1. UNCHANGED vars \/ DeletesTag \/ LosesPower
  BY DEF Next, Boots, ReloadMeta, ClearStaged, BootDone, UpgradeRequested, InstallerBegins, InstallerCopies,
         WritesConfig, GrubInstalled, HandleMeta, FlushMeta, MetaWrite, MetaFlush, StageSetsImage,
         StageSetsOptions, StageFlush, StageRuns, DropSeesReady, DropDeletes, DropFlushes, Reboots, Fails,
         Reverts, Serving, Installing, Copying
<1> QED BY <1>1 DEF DeletesTag, LosesPower, vars

(* The assets under the label to boot change with the label only. *)
LEMMA DefaultKept ==
  ASSUME TypeOK, Positions, [Next]_vars, default' = default, default # Torn, ~(LosesPower /\ main = "grub")
  PROVE  assets'[default] = assets[default]
<1>1. InstallerBegins \/ InstallerCopies \/ (LosesPower /\ main = "config") => default = booted
  BY DEF InstallerBegins, InstallerCopies, Positions
<1>2. Spare # booted /\ booted \in Labels /\ Spare \in Labels
  BY LabelFacts DEF TypeOK, Spare
<1> QED BY <1>1, <1>2, AssetsStep DEF TypeOK

LEMMA WholeFallbackStep ==
  ASSUME TypeOK, TypeOK', Positions, Numbered, TagKept, WholeFallback, [Next]_vars
  PROVE  WholeFallback'
<1> SUFFICES ASSUME Sound({"unsynced", "stacked"})'
             PROVE  (/\ default # Torn => assets[default] \in Versions
                     /\ default # Torn /\ Tagged(copies) => assets[Other(default)] # Partial
                     /\ main \in Working => ~Tagged(copies))'
  BY DEF WholeFallback
<1>0. Sound({"unsynced", "stacked"})
  BY SoundBefore
<1>1. ~(InstallerBegins /\ Tagged(copies))
  BY StackedRecorded DEF Sound
<1>2. ~(LosesPower /\ main = "grub")
  BY UnsyncedRecorded DEF Sound
<1>3. /\ booted \in Labels /\ Spare \in Labels /\ Other(Spare) = booted
      /\ default # Torn => default \in Labels /\ Other(default) \in Labels /\ Other(Other(default)) = default
      /\ Torn \notin Labels
  BY LabelFacts DEF TypeOK, Spare
<1>4. Partial \notin Versions
  BY DEF Versions, Partial
<1>5. main = "revert" => default # Torn
  BY DEF Positions
<1>6. Revertible => Tagged(copies) /\ assets[Other(default)] # Missing
  BY ReadDiskFacts DEF Revertible, ReadDisk, TypeOK, Copy
<1>7. default # Torn /\ Revertible => assets[Other(default)] \in Versions /\ assets[default] \in Versions
  <2>1. default # Torn => assets[Other(default)] \in Versions \union {Partial, Missing}
    BY <1>3 DEF TypeOK
  <2> QED BY <1>0, <1>6, <2>1 DEF WholeFallback
<1>8. ASSUME default' # Torn PROVE assets'[default'] \in Versions
  <2>1. CASE default' = default
    BY <1>0, <1>2, <1>8, <2>1, DefaultKept DEF WholeFallback
  <2>2. CASE WritesConfig /\ default' = Spare
    BY <2>2 DEF WritesConfig, Numbered, TypeOK
  <2>3. CASE (Reverts \/ LosesPower) /\ main = "revert" /\ Revertible /\ default' = Other(default)
    <3>1. assets' = assets
      BY <2>3 DEF Reverts, LosesPower
    <3> QED BY <1>5, <1>7, <2>3, <3>1
  <2> QED BY <1>2, <1>8, <2>1, <2>2, <2>3, DefaultStep DEF Reverts
<1>9. ASSUME default' # Torn, Tagged(copies') PROVE assets'[Other(default')] # Partial
  <2>1. CASE main = "tag" /\ (HandleMeta \/ LosesPower)
    <3>1. default' = default /\ assets' = assets /\ default = Spare
      BY <2>1 DEF HandleMeta, LosesPower, Positions
    <3>2. assets[booted] \in Versions
      BY <2>1 DEF Numbered, Alive, Serving, Installing
    <3> QED BY <1>3, <1>4, <3>1, <3>2
  <2>2. CASE Tagged(copies)
    <3>1. main \notin Working
      BY <1>0, <2>2 DEF WholeFallback
    <3>2. assets' = assets
      BY <1>1, <2>2, <3>1, AssetsStep DEF InstallerCopies, Working
    <3>3. default' = default \/ (main = "revert" /\ Revertible /\ default' = Other(default))
      BY <1>9, <3>1, DefaultStep DEF WritesConfig, Reverts, Working
    <3>4. CASE default' = default
      BY <1>0, <1>9, <2>2, <3>2, <3>4 DEF WholeFallback
    <3>5. CASE main = "revert" /\ Revertible /\ default' = Other(default)
      BY <1>3, <1>4, <1>5, <1>7, <3>2, <3>5
    <3> QED BY <3>3, <3>4, <3>5
  <2> QED BY <1>9, <2>1, <2>2, TaggedStep
<1>10. ASSUME main' \in Working PROVE ~Tagged(copies')
  BY <1>0, <1>1, <1>10, WorkingStep DEF WholeFallback
<1> QED BY <1>8, <1>9, <1>10

LEMMA SettledUntaggedStep ==
  ASSUME TypeOK, TypeOK', Positions, Numbered, TagKept, SettledUntagged, [Next]_vars
  PROVE  SettledUntagged'
<1> SUFFICES ASSUME Sound({"flipped", "keptTag"})', Tagged(copies')
             PROVE  (/\ main # "untag" /\ default # Torn => assets[default] \notin settled
                     /\ main = "grub" => assets[booted] \notin settled)'
  BY DEF SettledUntagged
<1>0. Sound({"flipped", "keptTag"})
  BY SoundBefore
<1>1. settled' = settled
  BY HistoryStep, KeptTagRecorded DEF Sound
<1>2. /\ booted \in Labels /\ Spare \in Labels /\ Spare # booted
      /\ default # Torn => default \in Labels
  BY LabelFacts DEF TypeOK, Spare
<1>3. Partial \notin settled /\ newest + 1 \notin settled
  BY UpgradesAssumption DEF TypeOK, Numbered, Versions, Partial
<1>4. CASE main = "tag" /\ (HandleMeta \/ LosesPower)
  <2>1. default' = default /\ assets' = assets /\ default = Spare /\ main' # "grub"
    BY <1>4 DEF HandleMeta, LosesPower, Positions
  <2>2. assets[Spare] \notin settled
    BY <1>4 DEF Numbered
  <2> QED BY <1>1, <2>1, <2>2
<1>5. CASE Tagged(copies)
  <2>1. ASSUME main' # "untag", default' # Torn PROVE assets'[default'] \notin settled
    <3>1. CASE default' = default
      <4>1. main # "untag"
        <5>1. main = "untag" => main' = "off" /\ Record
          BY <2>1, UntagStep
        <5> QED BY <5>1, FlippedRecorded DEF Sound
      <4>2. assets[default] \notin settled
        BY <1>0, <1>5, <2>1, <3>1, <4>1 DEF SettledUntagged
      <4>3. assets'[default] \in {assets[default], Partial, newest + 1}
        BY <1>2, <2>1, <3>1, AssetsStep DEF TypeOK
      <4> QED BY <1>3, <3>1, <4>2, <4>3
    <3>2. CASE WritesConfig /\ default' = Spare
      BY <3>2 DEF WritesConfig, Numbered
    <3>3. CASE LosesPower /\ main = "grub" /\ default' \in {Spare, booted, Torn}
      <4>1. assets'[Spare] \in {assets[Spare], Partial} /\ assets'[booted] = assets[booted]
        BY <1>2, <3>3, AssetsStep DEF InstallerBegins, InstallerCopies, TypeOK
      <4>2. assets[Spare] \notin settled
        BY <3>3 DEF Numbered
      <4>3. assets[booted] \notin settled
        BY <1>0, <1>5, <3>3 DEF SettledUntagged
      <4> QED BY <1>3, <2>1, <3>3, <4>1, <4>2, <4>3
    <3>4. ~(LosesPower /\ main = "revert" /\ default' # default)
      BY FlippedRecorded DEF LosesPower, Sound
    <3> QED BY <2>1, <3>1, <3>2, <3>3, <3>4, DefaultStep
  <2>2. ASSUME main' = "grub" PROVE assets'[booted'] \notin settled
    <3>1. main = "grub" \/ WritesConfig
      BY <2>2 DEF Next, Boots, ReloadMeta, ClearStaged, BootDone, UpgradeRequested, InstallerBegins,
             InstallerCopies, GrubInstalled, HandleMeta, FlushMeta, MetaWrite, MetaFlush, StageSetsImage,
             StageSetsOptions, StageFlush, StageRuns, DropSeesReady, DropDeletes, DropFlushes, Reboots, Fails,
             Reverts, DeletesTag, LosesPower, vars, mainVars, AfterReload
    <3>2. main \in Alive
      BY <3>1 DEF WritesConfig, Alive, Serving, Installing, Copying
    <3>3. assets[booted] \notin settled
      <4>1. CASE WritesConfig
        <5>1. main = "config" /\ default = booted /\ default # Torn
          BY <1>2, <4>1, LabelFacts DEF WritesConfig, Positions
        <5> QED BY <1>0, <1>5, <5>1 DEF SettledUntagged
      <4>2. CASE main = "grub"
        BY <1>0, <1>5, <4>2 DEF SettledUntagged
      <4> QED BY <3>1, <4>1, <4>2
    <3> QED BY <3>2, <3>3, BootedKept
  <2> QED BY <1>1, <2>1, <2>2
<1> QED BY <1>4, <1>5, TaggedStep

(* What a flush of machined's memory, whole or torn, does to the tag of a   *)
(* version that was never ready.                                            *)
LEMMA UnreadyFlush ==
  ASSUME TypeOK, Positions, TagKept, ReadyFallback, Sound(FallbackHoles), Sound(FallbackHoles)', Record,
         main \in Serving \ Installing, default # Torn, assets[default] \notin ready, Writes(mem) \/ Tears(mem)
  PROVE  Upgrade \in ReadDisk' /\ \A i \in 1 .. 2 : Upgrade \in copies'[i] \/ copies'[i] = TornCopy
<1>0. copies \in [1 .. 2 -> Copy] /\ mem \in SUBSET Tags /\ mem # TornCopy
  BY CopyFacts DEF TypeOK, Copy
<1>1. \A i \in 1 .. 2 : Upgrade \in copies[i] \/ copies[i] = TornCopy
  BY DEF ReadyFallback, Serving, Installing, Copying
<1>2. copies' \in [1 .. 2 -> Copy] /\ \A i \in 1 .. 2 : copies'[i] \in {copies[i], mem, TornCopy}
  BY <1>0, FlushFacts DEF Writes, Tears
<1>3. ~(copies'[1] = TornCopy /\ copies'[2] = TornCopy)
  BY <1>2, TornMetaRecorded DEF Sound, FallbackHoles
<1>4. ASSUME NEW i \in 1 .. 2 PROVE Upgrade \in copies'[i] \/ copies'[i] = TornCopy
  <2>1. CASE installer = "none"
    <3>1. default = booted
      BY <2>1 DEF Positions, Serving, Installing, Copying
    <3>2. Upgrade \in mem
      BY <2>1, <3>1 DEF ReadyFallback
    <3> QED BY <1>1, <1>2, <3>2
  <2>2. CASE installer # "none"
    <3>1. Upgrade \in copies[i]
      BY <1>1, <2>2 DEF TagKept
    <3>2. main # "untag"
      BY DEF Serving, Installing, Copying
    <3> QED BY <2>2, <3>1, <3>2, StaleFlushRecorded DEF Sound, FallbackHoles
  <2> QED BY <2>1, <2>2
<1>5. Upgrade \in ReadDisk'
  BY <1>2, <1>3, <1>4, ReadDiskFacts DEF ReadDisk
<1> QED BY <1>4, <1>5

LEMMA ReadyFallbackStep ==
  ASSUME TypeOK, TypeOK', Positions, Numbered, TagKept, ReadyFallback, DropAfterReady, [Next]_vars
  PROVE  ReadyFallback'
<1> SUFFICES ASSUME Sound(FallbackHoles)'
             PROVE  (/\ main \notin {"grub", "tag"} /\ default # Torn /\ assets[default] \notin ready
                          => /\ Upgrade \in ReadDisk
                             /\ \A i \in 1 .. 2 : Upgrade \in copies[i] \/ copies[i] = TornCopy
                     /\ main \in Serving /\ installer = "none" /\ assets[booted] \notin ready => Upgrade \in mem
                     /\ main # "untag" /\ default # Torn /\ Tagged(copies) => assets[Other(default)] \in ready
                     /\ main = "untag" => assets[default] \in ready
                     /\ main \in Working => assets[booted] \in ready /\ ~Tagged(copies))'
  BY DEF ReadyFallback
<1>0. Sound(FallbackHoles)
  BY SoundBefore
<1>1. ~(InstallerBegins /\ Tagged(copies))
  BY StackedRecorded DEF Sound, FallbackHoles
<1>2. ready \subseteq ready'
  BY HistoryStep
<1>3. /\ booted \in Labels /\ Spare \in Labels /\ Other(Spare) = booted /\ Spare # booted
      /\ default # Torn => default \in Labels /\ Other(default) \in Labels /\ Other(Other(default)) = default
      /\ Torn \notin Labels
  BY LabelFacts DEF TypeOK, Spare
<1>4. copies \in [1 .. 2 -> Copy] /\ copies' \in [1 .. 2 -> Copy] /\ Upgrade \notin TornCopy
  BY CopyFacts DEF TypeOK, Copy
<1>5. (Upgrade \in ReadDisk => Tagged(copies)) /\ (Upgrade \in ReadDisk' => Tagged(copies'))
  BY <1>4, ReadDiskFacts DEF ReadDisk
<1>6. main \in Working => main \in Alive
  BY DEF Working, Alive, Serving, Installing, Copying
<1>7. ~(LosesPower /\ main = "revert" /\ Revertible /\ default' # default)
  <2>1. LosesPower /\ main = "revert" => copies' = copies
    BY DEF LosesPower, Flushing, Serving, Installing, Copying
  <2> QED BY <1>5, <2>1, FlippedRecorded DEF LosesPower, Revertible, Sound, FallbackHoles
(* While the installer works: the version that runs was ready. *)
<1>a. ASSUME main' \in Working PROVE assets'[booted'] \in ready' /\ ~Tagged(copies')
  <2>1. CASE main \in Working
    BY <1>0, <1>2, <1>6, <1>a, <2>1, WorkingStep, BootedKept DEF ReadyFallback, Working, InstallerBegins
  <2>2. CASE InstallerBegins
    <3>1. main = "install" /\ copies' = copies /\ ~Tagged(copies) /\ default = booted /\ default # Torn
      BY <1>1, <1>3, <2>2 DEF InstallerBegins, Positions
    <3>2. assets[booted] \in ready
      BY <1>0, <1>5, <3>1 DEF ReadyFallback
    <3>3. main \in Alive
      BY <3>1 DEF Alive, Serving, Installing, Copying
    <3> QED BY <1>2, <3>1, <3>2, <3>3, BootedKept
  <2> QED BY <1>a, <2>1, <2>2, WorkingStep
(* revertBootloader goes back to a version that was ready. *)
<1>b. ASSUME main' = "untag" PROVE assets'[default'] \in ready'
  <2>1. Reverts \/ UNCHANGED vars
    BY <1>b DEF Next, Boots, ReloadMeta, ClearStaged, BootDone, UpgradeRequested, InstallerBegins,
           InstallerCopies, WritesConfig, GrubInstalled, HandleMeta, FlushMeta, MetaWrite, MetaFlush,
           StageSetsImage, StageSetsOptions, StageFlush, StageRuns, DropSeesReady, DropDeletes, DropFlushes,
           Reboots, Fails, DeletesTag, LosesPower, mainVars, AfterReload, Serving, Installing, Copying
  <2>2. CASE UNCHANGED vars
    BY <1>0, <1>b, <2>2 DEF ReadyFallback, vars
  <2>3. CASE Reverts
    <3>1. main = "revert" /\ Revertible /\ default' = Other(default) /\ assets' = assets
      BY <1>b, <2>3 DEF Reverts
    <3>2. default # Torn /\ Tagged(copies)
      BY <1>5, <3>1 DEF Positions, Revertible
    <3> QED BY <1>0, <1>2, <3>1, <3>2 DEF ReadyFallback
  <2> QED BY <2>1, <2>2, <2>3
(* What there is to go back to. *)
<1>c. ASSUME main' # "untag", default' # Torn, Tagged(copies') PROVE assets'[Other(default')] \in ready'
  <2>1. CASE main = "tag" /\ (HandleMeta \/ LosesPower)
    <3>1. default' = default /\ assets' = assets /\ default = Spare
      BY <2>1 DEF HandleMeta, LosesPower, Positions
    <3>2. assets[booted] \in ready
      BY <1>0, <2>1 DEF ReadyFallback, Working
    <3> QED BY <1>2, <1>3, <3>1, <3>2
  <2>2. CASE Tagged(copies)
    <3>1. main \notin Working
      BY <1>0, <2>2 DEF ReadyFallback
    <3>2. assets' = assets
      BY <1>1, <2>2, <3>1, AssetsStep DEF InstallerCopies, Working
    <3>3. main # "untag"
      BY <1>c, UntagStep, FlippedRecorded DEF Sound, FallbackHoles
    <3>4. default' = default
      BY <1>7, <1>c, <3>1, DefaultStep DEF WritesConfig, Working
    <3> QED BY <1>0, <1>2, <1>c, <2>2, <3>2, <3>3, <3>4 DEF ReadyFallback
  <2> QED BY <1>c, <2>1, <2>2, TaggedStep
(* A version that runs before it is ready has its tag in memory. *)
<1>d. ASSUME main' \in Serving, installer' = "none", assets'[booted'] \notin ready' PROVE Upgrade \in mem'
  <2>1. main \in Alive
    BY <1>d, AliveStep DEF Alive, Serving, Installing, Copying
  <2>2. assets[booted] \notin ready
    BY <1>2, <1>d, <2>1, BootedKept
  <2>3. CASE main = "init"
    <3>1. default = booted /\ default # Torn
      BY <1>3, <2>3 DEF Positions
    <3>2. Upgrade \in ReadDisk
      BY <1>0, <2>2, <2>3, <3>1 DEF ReadyFallback
    <3>3. ReloadMeta
      BY <1>d, <2>3 DEF Next, Boots, ClearStaged, BootDone, UpgradeRequested, InstallerBegins,
             InstallerCopies, WritesConfig, GrubInstalled, HandleMeta, FlushMeta, MetaWrite, MetaFlush,
             StageSetsImage, StageSetsOptions, StageFlush, StageRuns, DropSeesReady, DropDeletes, DropFlushes,
             Reboots, Fails, Reverts, DeletesTag, LosesPower, vars, Serving, Installing, Copying
    <3> QED BY <3>2, <3>3, CopyFacts DEF ReloadMeta
  <2>4. CASE main \in Serving
    <3>1. installer = "none"
      BY <1>d, <2>4 DEF Next, Boots, ReloadMeta, ClearStaged, BootDone, UpgradeRequested, InstallerBegins,
             InstallerCopies, WritesConfig, GrubInstalled, HandleMeta, FlushMeta, MetaWrite, MetaFlush,
             StageSetsImage, StageSetsOptions, StageFlush, StageRuns, DropSeesReady, DropDeletes, DropFlushes,
             Reboots, Fails, Reverts, DeletesTag, LosesPower, vars, mainVars, Serving, Installing, Copying
    <3>2. Upgrade \in mem
      BY <1>0, <2>2, <2>4, <3>1 DEF ReadyFallback
    <3>3. ~DropDeletes
      BY <2>2, <2>4 DEF DropDeletes, DropAfterReady
    <3>4. ~Boots
      BY <2>4 DEF Boots, Serving, Installing, Copying
    <3> QED BY <3>2, <3>3, <3>4, CopyFacts, MemStep
  <2> QED BY <2>1, <2>3, <2>4 DEF Alive
(* A version to boot that was never ready has its tag on the disk. *)
<1>e. ASSUME main' \notin {"grub", "tag"}, default' # Torn, assets'[default'] \notin ready'
      PROVE  Upgrade \in ReadDisk' /\ \A i \in 1 .. 2 : Upgrade \in copies'[i] \/ copies'[i] = TornCopy
  <2>1. CASE main \in {"grub", "tag"}
    <3>1. ~Tagged(copies)
      BY <1>0, <2>1 DEF ReadyFallback, Working
    <3>2. CASE HandleMeta
      <4>1. ReadDisk \union {Upgrade} \in SUBSET Tags /\ Writes(ReadDisk \union {Upgrade})
        BY <1>4, <3>2, ReadDiskFacts, CopyFacts DEF HandleMeta, Flush, Writes, ReadDisk
      <4>2. ReadDisk' = ReadDisk \union {Upgrade} /\ \A i \in 1 .. 2 : copies'[i] = ReadDisk \union {Upgrade}
        BY <4>1, FlushFacts DEF Writes
      <4> QED BY <4>2
    <3>3. CASE Fails \/ LosesPower
      <4>1. \A i \in 1 .. 2 : Upgrade \in copies'[i]
        BY <2>1, <3>3, NoTagRecorded DEF Sound, FallbackHoles
      <4> QED BY <1>4, <4>1, ReadDiskFacts DEF ReadDisk
    <3>4. HandleMeta \/ Fails \/ LosesPower
      BY <1>e, <2>1 DEF Next, Boots, ReloadMeta, ClearStaged, BootDone, UpgradeRequested, InstallerBegins,
             InstallerCopies, WritesConfig, GrubInstalled, FlushMeta, MetaWrite, MetaFlush,
             StageSetsImage, StageSetsOptions, StageFlush, StageRuns, DropSeesReady, DropDeletes, DropFlushes,
             Reboots, Reverts, DeletesTag, vars, mainVars
    <3> QED BY <3>2, <3>3, <3>4
  <2>2. CASE main \notin {"grub", "tag"}
    <3>1. default' = default
      <4>1. ~WritesConfig
        BY <1>e DEF WritesConfig
      <4>2. ~(Reverts /\ main' = "untag")
        BY <1>b, <1>e
      <4> QED BY <1>7, <2>2, <4>1, <4>2, DefaultStep
    <3>2. default # Torn /\ assets[default] \notin ready
      BY <1>2, <1>e, <2>2, <3>1, DefaultKept
    <3>3. main # "untag"
      BY <1>0, <3>2 DEF ReadyFallback
    <3>4. CASE copies' = copies
      BY <1>0, <2>2, <3>2, <3>4 DEF ReadyFallback, ReadDisk
    <3>5. CASE main \in Serving \ Installing /\ Writes(mem) /\ Record
      BY <1>0, <3>2, <3>5, UnreadyFlush
    <3>6. CASE LosesPower /\ \E t \in Flushing : Tears(t)
      <4>1. PICK t \in Flushing : Tears(t)
        BY <3>6
      <4>2. main \in Serving \ Installing /\ t = mem
        BY <2>2, <3>3, FlushingFacts
      <4>3. Record
        BY <3>6 DEF LosesPower
      <4> QED BY <1>0, <3>2, <4>1, <4>2, <4>3, UnreadyFlush
    <3>7. ~HandleMeta /\ ~DeletesTag
      BY <2>2, <3>3 DEF HandleMeta, DeletesTag
    <3> QED BY <3>4, <3>5, <3>6, <3>7, CopiesStep
  <2> QED BY <2>1, <2>2
<1> QED BY <1>a, <1>b, <1>c, <1>d, <1>e

-----------------------------------------------------------------------------
(* The inductive invariant of upgrades. *)
THEOREM RollbackInvariant == Spec => []RollbackInv
<1>1. RollbackInv /\ [Next]_vars => RollbackInv'
  <2> SUFFICES ASSUME RollbackInv, [Next]_vars PROVE RollbackInv'
    OBVIOUS
  <2>1. TypeOK'
    BY TypeStep DEF RollbackInv
  <2>2. Positions' /\ Numbered' /\ Counted' /\ StagedCounted' /\ TagKept' /\ DropAfterReady'
    BY <2>1, PositionsStep, NumberedStep, CountedStep, StagedCountedStep, TagKeptStep, DropAfterReadyStep
       DEF RollbackInv
  <2>3. WholeFallback' /\ ReadyFallback' /\ SettledUntagged'
    BY <2>1, WholeFallbackStep, ReadyFallbackStep, SettledUntaggedStep DEF RollbackInv
  <2> QED BY <2>1, <2>2, <2>3 DEF RollbackInv
<1> QED BY RollbackInvInit, <1>1, PTL DEF Spec

(* GRUB's default entry is whole whenever power is lost and however an      *)
(* upgrade is interrupted, but for the two steps that Config.Upgrade and    *)
(* Config.revert leave open.                                                *)
THEOREM BootsWhole == Spec => []BootsAWholeVersion
<1>1. RollbackInv => BootsAWholeVersion
  <2>1. Partial \notin Versions /\ Missing \notin Versions
    BY UpgradesAssumption DEF Versions, Partial, Missing
  <2> QED BY <2>1 DEF RollbackInv, WholeFallback, Sound, BootsAWholeVersion
<1> QED BY <1>1, RollbackInvariant, PTL

(* A version that was never ready is not the one to boot without a tag that *)
(* reverts it, but for the five steps that leave it so.                     *)
THEOREM UnreadyFallsBack == Spec => []UnreadyHasFallback
<1>1. RollbackInv => UnreadyHasFallback
  BY DEF RollbackInv, ReadyFallback, Sound, FallbackHoles, UnreadyHasFallback, Installing, Copying
<1> QED BY <1>1, RollbackInvariant, PTL

(* probeMeta clears META before the installer runs, so that each staged     *)
(* upgrade is installed at most once.                                       *)
THEOREM StagedAtMostOnce == Spec => StagedOnce
<1>1. RollbackInv /\ [Next]_vars => [InstallerBegins /\ installer = "staged" => asked > 0]_vars
  BY DEF RollbackInv, TypeOK, StagedCounted, Claimed, InstallerBegins
<1> QED BY <1>1, RollbackInvariant, PTL DEF Spec, StagedOnce

(* A version whose fallback was dropped is not reverted, but after the two  *)
(* steps that leave its tag on the disk.                                    *)
THEOREM SettledIsKept == Spec => ReadyIsKept
<1>1. RollbackInv /\ [Next]_vars
        => [Reverts /\ default' # default
              => assets[default] \notin settled \/ holes \intersect {"flipped", "keptTag"} # {}]_vars
  <2> SUFFICES ASSUME RollbackInv, Reverts, default' # default, Sound({"flipped", "keptTag"})
               PROVE  assets[default] \notin settled
    BY DEF Sound
  <2>1. main = "revert" /\ Revertible /\ default # Torn
    BY DEF Reverts, RollbackInv, Positions
  <2>2. Tagged(copies)
    BY <2>1, ReadDiskFacts DEF Revertible, ReadDisk, RollbackInv, TypeOK, Copy
  <2> QED BY <2>1, <2>2 DEF RollbackInv, SettledUntagged
<1> QED BY <1>1, RollbackInvariant, PTL DEF Spec, ReadyIsKept
=============================================================================
