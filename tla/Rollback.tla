------------------------------ MODULE Rollback ------------------------------
(***************************************************************************)
(* Upgrades that survive crashes: the two copies of META, the two labels   *)
(* of GRUB, the installer, and what machined does about them in the        *)
(* Initialize, Install, Boot and Upgrade sequences, in revertBootloader,   *)
(* in the API handlers that write META and in DropUpgradeFallback.         *)
(*                                                                         *)
(* The machine may lose power at any step.  What is being written then is  *)
(* on the disk, is not, or is there in part.                               *)
(***************************************************************************)
EXTENDS Naturals, FiniteSets

CONSTANT MaxUpgrades   \* bound: upgrade requests

ASSUME UpgradesAssumption == MaxUpgrades \in Nat

Labels == {"A", "B"}

(* The tags of META that concern upgrades; only whether Upgrade is empty   *)
(* matters of its value, and the installer never sets it to the empty one. *)
Upgrade == "upgrade"
StagedTags == {"imageRef", "installOptions"}
Tags == {Upgrade} \union StagedTags

(* What a write that was cut short leaves. *)
Torn == "torn"
TornCopy == {Torn}
Partial == 0
Missing == MaxUpgrades + 2

VARIABLES
  copies,    \* META on disk, written twice
  default,   \* the default entry of grub.cfg
  assets,    \* the version whose kernel and initramfs are under each label
  main,      \* where machined, or the installer it waits for, is
  booted,    \* the label it was booted from
  installer, \* for which sequence the installer runs or has run
  mem,       \* the tags in machined's memory
  write,     \* a MetaWrite or MetaDelete of another key
  stage,     \* an Upgrade request with stage
  drop,      \* DropUpgradeFallbackController
  requests,  \* upgrades requested
  newest,    \* the last version installed
  asked,     \* staged upgrades requested, less the installers run for one
  ready,     \* the versions that were running and ready
  settled,   \* the versions whose fallback tag was dropped
  holes      \* what has gone wrong that the code does not guard against

disk == <<copies, default, assets>>
api == <<write, stage, drop>>
ghosts == <<ready, settled, holes>>
vars == <<copies, default, assets, main, booted, installer, mem, write, stage, drop,
          requests, newest, asked, ready, settled, holes>>

Versions == 1 .. MaxUpgrades + 1
Holes == {"noTag", "tornMeta", "staleFlush", "stacked", "flipped", "keptTag", "unsynced"}

(* While the installer runs it has the disk locked, and Flush and Reload wait. *)
Copying == {"install", "copying", "config", "grub"}
Installing == Copying \union {"tag"}
Serving == {"boot", "running", "reload", "clear", "save", "reboot"} \union Installing

TypeOK ==
  /\ copies \in [1 .. 2 -> (SUBSET Tags) \union {TornCopy}]
  /\ default \in Labels \union {Torn} /\ booted \in Labels
  /\ assets \in [Labels -> Versions \union {Partial, Missing}]
  /\ main \in Serving \union {"off", "dead", "init", "revert", "untag"}
  /\ installer \in {"none", "staged", "upgrade"}
  /\ mem \subseteq Tags
  /\ write \in {"idle", "flush"}
  /\ stage \in {"idle", "options", "flush", "run"}
  /\ drop \in {"waits", "deletes", "flush", "done"}
  /\ requests \in 0 .. MaxUpgrades /\ newest \in Versions /\ asked \in 0 .. MaxUpgrades
  /\ ready \subseteq Versions /\ settled \subseteq Versions /\ holes \subseteq Holes

Other(l) == IF l = "A" THEN "B" ELSE "A"

(***************************************************************************)
(* META: Reload reads the first copy that is whole, and nothing if neither *)
(* is; Flush writes both in one write.                                     *)
(***************************************************************************)
Whole(c) == IF c[1] # TornCopy THEN c[1] ELSE IF c[2] # TornCopy THEN c[2] ELSE {}
ReadDisk == Whole(copies)

Flush(tags) == copies' = [i \in 1 .. 2 |-> tags]

(* An attempt: nothing was written, or it was and at most Sync failed. *)
TryFlush(tags) == UNCHANGED copies \/ Flush(tags)

(* machined's own Flush, of what it has in memory, waits for the disk. *)
MachinedFlush == main \notin Installing /\ Flush(mem)
MachinedTryFlush == main \notin Installing /\ TryFlush(mem)

(* Losing power during a Flush. *)
TornFlush(tags) == copies' \in {f \in [1 .. 2 -> (SUBSET Tags) \union {TornCopy}] :
                                  \A i \in 1 .. 2 : f[i] \in {copies[i], tags, TornCopy}}

(***************************************************************************)
(* The steps that the fallback does not survive: a history variable keeps  *)
(* the names of those that have been taken.                                *)
(***************************************************************************)
Tagged(c) == \E i \in 1 .. 2 : Upgrade \in c[i]

Hole(name) ==
  CASE name = "noTag" ->      \* the boot loader was switched and META not written
         main \in {"grub", "tag"} /\ main' \in {"revert", "off"}
           /\ \E i \in 1 .. 2 : Upgrade \notin copies'[i]
    [] name = "unsynced" ->   \* power is lost before the BOOT partition is unmounted
         main = "grub" /\ main' = "off"
    [] name = "tornMeta" ->   \* neither copy of META is whole
         copies' = [i \in 1 .. 2 |-> TornCopy]
    [] name = "staleFlush" -> \* machined has written over the installer's META
         installer # "none" /\ main # "untag"
           /\ \E i \in 1 .. 2 : Upgrade \in copies[i] /\ Upgrade \notin copies'[i] /\ copies'[i] # TornCopy
    [] name = "stacked" ->    \* an upgrade begins before the last one is settled
         main = "install" /\ main' = "copying" /\ Tagged(copies)
    [] name = "flipped" ->    \* the boot loader was reverted and META not written
         main' = "off" /\ main \in {"revert", "untag"} /\ (main = "untag" \/ default' # default)
           /\ Tagged(copies')
    [] name = "keptTag" ->    \* the controller ends, the tag stays on the disk
         drop \in {"deletes", "flush"} /\ drop' \in {"waits", "done"} /\ Tagged(copies')

Record == holes' = holes \union {name \in Holes : Hole(name)}

Init ==
  /\ copies = [i \in 1 .. 2 |-> {}]
  /\ default = "A" /\ assets = [l \in Labels |-> IF l = "A" THEN 1 ELSE Missing]
  /\ main = "running" /\ booted = "A" /\ installer = "none" /\ mem = {}
  /\ write = "idle" /\ stage = "idle" /\ drop = "done"
  /\ requests = 0 /\ newest = 1 /\ asked = 0
  /\ ready = {1} /\ settled = {1} /\ holes = {}

(***************************************************************************)
(* Booting, and the sequences.                                             *)
(***************************************************************************)
Boots ==
  /\ main = "off"
  /\ IF default = Torn \/ assets[default] \in {Partial, Missing}
     THEN main' = "dead" /\ UNCHANGED booted
     ELSE main' = "init" /\ booted' = default
  /\ installer' = "none" /\ mem' = {}
  /\ write' = "idle" /\ stage' = "idle" /\ drop' = "waits"
  /\ UNCHANGED <<disk, requests, newest, asked, ghosts>>

(* ReloadMeta, first in Initialize and then after the installer: tags in   *)
(* memory are kept, and staged ones are taken out before they are used.    *)
AfterReload == CASE installer = "none" -> "boot" [] installer = "staged" -> "save" [] OTHER -> "reboot"

ReloadMeta ==
  /\ main \in {"init", "reload"}
  /\ LET tags == ReadDisk \union mem IN
       IF StagedTags \subseteq tags
       THEN mem' = tags \ StagedTags /\ main' = "clear"
       ELSE mem' = tags /\ main' = AfterReload
  /\ UNCHANGED <<disk, booted, installer, api, requests, newest, asked, ghosts>>

(* Mutant: the tags are cleared in memory only. *)
ClearStagedUnflushed ==
  /\ main = "clear"
  /\ main' = IF installer = "none" THEN "install" ELSE AfterReload
  /\ installer' = IF installer = "none" THEN "staged" ELSE installer
  /\ UNCHANGED <<disk, booted, mem, api, requests, newest, asked, ghosts>>

(* probeMeta's Flush: a staged install that cannot be cleared is not run. *)
ClearStaged ==
  /\ main = "clear"
  /\ \/ /\ MachinedFlush /\ installer = "none"
        /\ main' = "install" /\ installer' = "staged"
     \/ /\ MachinedTryFlush
        /\ main' = AfterReload /\ UNCHANGED installer
  /\ UNCHANGED <<default, assets, booted, mem, api, requests, newest, asked, ready, settled>>
  /\ Record

(* The Boot sequence ends; machined's stage is running. *)
BootDone ==
  /\ main = "boot" /\ main' = "running"
  /\ UNCHANGED <<disk, booted, installer, mem, api, requests, newest, asked, ghosts>>

(* The Upgrade sequence: it takes over Boot. *)
UpgradeRequested ==
  /\ main \in {"boot", "running"} /\ requests < MaxUpgrades
  /\ requests' = requests + 1 /\ main' = "install" /\ installer' = "upgrade"
  /\ UNCHANGED <<disk, booted, mem, api, newest, asked, ghosts>>

(***************************************************************************)
(* The installer: Config.Upgrade on the BOOT partition, which is unmounted *)
(* at the end, then handleMeta with a Meta of its own.                     *)
(***************************************************************************)
(* flip: the label that is not the default of grub.cfg, until it is. *)
Target == IF main = "grub" THEN default ELSE Other(default)

InstallerBegins ==
  /\ main = "install" /\ main' = "copying"
  /\ assets' = [assets EXCEPT ![Target] = Partial]
  /\ asked' = IF installer = "staged" THEN asked - 1 ELSE asked
  /\ UNCHANGED <<copies, default, booted, installer, mem, api, requests, newest, ready, settled>>
  /\ Record

InstallerCopies ==
  /\ main = "copying" /\ main' = "config"
  /\ assets' = [assets EXCEPT ![Target] = newest + 1] /\ newest' = newest + 1
  /\ UNCHANGED <<copies, default, booted, installer, mem, api, requests, asked, ghosts>>

(* Mutant: grub.cfg is written before the assets. *)
WritesConfigFirst ==
  /\ main \in {"copying", "config"} /\ main' = "grub" /\ default' = Target
  /\ UNCHANGED <<copies, assets, booted, installer, mem, api, requests, newest, asked, ghosts>>

WritesConfig ==
  /\ main = "config" /\ main' = "grub" /\ default' = Target
  /\ UNCHANGED <<copies, assets, booted, installer, mem, api, requests, newest, asked, ghosts>>

GrubInstalled ==
  /\ main = "grub" /\ main' = "tag"
  /\ UNCHANGED <<disk, booted, installer, mem, api, requests, newest, asked, ghosts>>

(* Mutant: the tag is set and not flushed. *)
HandleMetaUnflushed ==
  /\ main = "tag" /\ main' = "reload"
  /\ UNCHANGED <<disk, booted, installer, mem, api, requests, newest, asked, ghosts>>

HandleMeta ==
  /\ main = "tag" /\ main' = "reload" /\ Flush(ReadDisk \union {Upgrade})
  /\ UNCHANGED <<default, assets, booted, installer, mem, api, requests, newest, asked, ghosts>>

(* saveMeta of the Install sequence. *)
FlushMeta ==
  /\ main = "save" /\ main' = "reboot" /\ MachinedFlush
  /\ UNCHANGED <<default, assets, booted, installer, mem, api, requests, newest, asked, ready, settled>>
  /\ Record

(***************************************************************************)
(* What else writes META in machined: MetaWrite and MetaDelete of some key *)
(* of the user's, a staged upgrade, and the controller that drops the      *)
(* fallback once the machine is ready.                                     *)
(***************************************************************************)
mainVars == <<main, booted, installer, default, assets, newest, ready>>

MetaWrite ==
  /\ write = "idle" /\ main \in Serving /\ write' = "flush"
  /\ UNCHANGED <<mainVars, copies, mem, stage, drop, requests, asked, settled, holes>>

MetaFlush ==
  /\ write = "flush" /\ main \in Serving /\ write' = "idle"
  /\ MachinedTryFlush
  /\ UNCHANGED <<mainVars, mem, stage, drop, requests, asked, settled>>
  /\ Record

StageSetsImage ==
  /\ stage = "idle" /\ main \in Serving /\ requests < MaxUpgrades
  /\ requests' = requests + 1 /\ asked' = asked + 1
  /\ mem' = mem \union {"imageRef"} /\ stage' = "options"
  /\ UNCHANGED <<mainVars, copies, write, drop, settled, holes>>

StageSetsOptions ==
  /\ stage = "options" /\ main \in Serving
  /\ mem' = mem \union {"installOptions"} /\ stage' = "flush"
  /\ UNCHANGED <<mainVars, copies, write, drop, requests, asked, settled, holes>>

StageFlush ==
  /\ stage = "flush" /\ main \in Serving
  /\ \/ MachinedFlush /\ stage' = "run"
     \/ MachinedTryFlush /\ stage' = "idle"
  /\ UNCHANGED <<mainVars, mem, write, drop, requests, asked, settled>>
  /\ Record

(* The StageUpgrade sequence takes over none. *)
StageRuns ==
  /\ stage = "run" /\ main \in Serving /\ stage' = "idle"
  /\ main' = IF main = "running" THEN "reboot" ELSE main
  /\ UNCHANGED <<disk, booted, installer, mem, write, drop, requests, newest, asked, ghosts>>

DropSeesReady ==
  /\ drop = "waits" /\ main = "running" /\ drop' = "deletes"
  /\ ready' = ready \union {assets[booted]}
  /\ UNCHANGED <<disk, main, booted, installer, mem, write, stage, requests, newest, asked, settled, holes>>

DropDeletes ==
  /\ drop = "deletes" /\ main \in Serving
  /\ mem' = mem \ {Upgrade}
  /\ drop' = IF Upgrade \in mem THEN "flush" ELSE "done"
  /\ settled' = IF Upgrade \in mem THEN settled ELSE settled \union {assets[booted]}
  /\ UNCHANGED <<mainVars, copies, write, stage, requests, asked>>
  /\ Record

(* A failed controller is run again, finds no tag and flushes nothing. *)
DropFlushes ==
  /\ drop = "flush" /\ main \in Serving
  /\ \/ MachinedFlush /\ drop' = "done" /\ settled' = settled \union {assets[booted]}
     \/ MachinedTryFlush /\ drop' = "waits" /\ UNCHANGED settled
  /\ UNCHANGED <<mainVars, mem, write, stage, requests, asked>>
  /\ Record

(***************************************************************************)
(* The end of machined: a clean reboot, a failure, or a loss of power.     *)
(***************************************************************************)
Reboots ==
  /\ main = "reboot" /\ main' = "off"
  /\ UNCHANGED <<disk, booted, installer, mem, api, requests, newest, asked, ghosts>>

(* A sequence, or the installer in it, has failed: handle reverts. *)
Fails ==
  /\ main \in Serving \union {"init"} /\ main' = "revert"
  /\ UNCHANGED <<disk, booted, installer, mem, api, requests, newest, asked, ready, settled>>
  /\ Record

(* Mutant: reverts whether there was an upgrade or not. *)
RevertibleAlways == assets[Other(default)] # Missing

Revertible == Upgrade \in ReadDisk /\ assets[Other(default)] # Missing

Reverts ==
  /\ main = "revert"
  /\ IF Revertible THEN main' = "untag" /\ default' = Other(default)
                   ELSE main' = "off" /\ UNCHANGED default
  /\ UNCHANGED <<copies, assets, booted, installer, mem, api, requests, newest, asked, ghosts>>

(* The tag is deleted once the boot loader has been switched. *)
DeletesTag ==
  /\ main = "untag" /\ main' = "off"
  /\ TryFlush(ReadDisk \ {Upgrade})
  /\ UNCHANGED <<default, assets, booted, installer, mem, api, requests, newest, asked, ready, settled>>
  /\ Record

(* What may be in the middle of being written to META. *)
Flushing ==
     (IF main \in {"clear", "save"} THEN {mem} ELSE {})
  \union (IF main \in Serving \ Installing /\ "flush" \in {write, stage, drop} THEN {mem} ELSE {})
  \union (IF main = "tag" THEN {ReadDisk \union {Upgrade}} ELSE {})
  \union (IF main = "untag" THEN {ReadDisk \ {Upgrade}} ELSE {})

LosesPower ==
  /\ main \notin {"off", "dead"} /\ main' = "off"
  /\ \/ UNCHANGED copies
     \/ \E tags \in Flushing : TornFlush(tags)
  /\ default' \in IF main = "grub" \/ (main = "revert" /\ Revertible)
                  THEN {default, Other(default), Torn} ELSE {default}
  /\ assets' \in IF main \in {"config", "grub"} THEN {assets, [assets EXCEPT ![Target] = Partial]}
                 ELSE {assets}
  /\ UNCHANGED <<booted, installer, mem, api, requests, newest, asked, ready, settled>>
  /\ Record

Next ==
  \/ Boots \/ ReloadMeta \/ ClearStaged \/ BootDone \/ UpgradeRequested
  \/ InstallerBegins \/ InstallerCopies \/ WritesConfig \/ GrubInstalled \/ HandleMeta \/ FlushMeta
  \/ MetaWrite \/ MetaFlush \/ StageSetsImage \/ StageSetsOptions \/ StageFlush \/ StageRuns
  \/ DropSeesReady \/ DropDeletes \/ DropFlushes
  \/ Reboots \/ Fails \/ Reverts \/ DeletesTag \/ LosesPower

Spec == Init /\ [][Next]_vars

-----------------------------------------------------------------------------
(* The entry that GRUB boots has a kernel and an initramfs that were       *)
(* written to the end, whatever was interrupted.  There are three          *)
(* exceptions: power is lost while WriteFile overwrites grub.cfg in place, *)
(* in Config.Upgrade or in Config.revert, and GRUB finds a torn one;       *)
(* power is lost in Config.Upgrade, which relies on unmounting to order    *)
(* the assets before grub.cfg; and a failure reverts, because of the last  *)
(* upgrade's tag, to a label that an interrupted upgrade had begun to      *)
(* overwrite (Config.revert looks only for the directory).  The state      *)
(* keeps its types.                                                        *)
BootsAWholeVersion ==
  /\ TypeOK
  /\ default # Torn /\ assets[default] \in {Partial, Missing} => holes \intersect {"unsynced", "stacked"} # {}

(* A version that has never been ready is never the one to boot without a  *)
(* tag that makes revertBootloader go back from it, except after           *)
(*  - the installer is interrupted between boot loader and META,           *)
(*  - both copies of META are torn, which reads as an empty META,          *)
(*  - a Flush that waited for the installer writes machined's META over it,*)
(*  - an upgrade of a version that was not settled itself,                 *)
(*  - revertBootloader is interrupted between boot loader and META.        *)
UnreadyHasFallback ==
  (main \notin Installing /\ default # Torn /\ assets[default] \notin ready)
     => \/ Upgrade \in ReadDisk
        \/ holes \intersect {"noTag", "tornMeta", "staleFlush", "stacked", "flipped"} # {}

(* The installer runs at most once for each staged upgrade, however often  *)
(* power is lost and whichever Flush fails: probeMeta clears META first.   *)
StagedOnce == [][InstallerBegins /\ installer = "staged" => asked > 0]_vars

(* A version whose fallback DropUpgradeFallback has dropped is not         *)
(* reverted by a later failure, except after the controller's Flush did    *)
(* not reach both copies of META, which it never tries again, or           *)
(* revertBootloader was interrupted between boot loader and META.          *)
ReadyIsKept ==
  [][Reverts /\ default' # default
       => assets[default] \notin settled \/ holes \intersect {"flipped", "keptTag"} # {}]_vars
=============================================================================
