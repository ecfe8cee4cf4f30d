---------------------------- MODULE MCSequencer -----------------------------
(* main, a handler of the API or of the maintenance service, and a second  *)
(* one, or the SIGTERM listener, that may take over.                       *)
EXTENDS Sequencer

CONSTANTS m, a, b

Asking(seq, takeover, in) == [seq |-> seq, takeover |-> takeover, in |-> in]

RebootAsk(mode) == Asking("reboot", FALSE, Data("RebootRequest", mode, FALSE))

(* Apply-config and rollback insist, without a RebootRequest. *)
RebootNow == Asking("reboot", TRUE, NoData)

UpgradeAsk(seq, mode) == Asking(seq, FALSE, Data("UpgradeRequest", mode, FALSE))
ShutdownAsk == Asking("shutdown", TRUE, Data("ShutdownRequest", "DEFAULT", FALSE))
ResetAsk(in) == Asking("reset", FALSE, in)

AskedBy(as, bs) == [p \in {a, b} |-> IF p = a THEN as ELSE bs]

(* An opengyoza server of two that has booted. *)
Server == [container |-> FALSE, installed |-> TRUE, staged |-> FALSE, server |-> TRUE,
           override |-> TRUE, checks |-> {}, wipe |-> {}, peers |-> 2, booted |-> TRUE,
           asks |-> AskedBy({RebootAsk("DEFAULT"), UpgradeAsk("upgrade", "DEFAULT"),
                             UpgradeAsk("stageUpgrade", "DEFAULT"), ShutdownAsk,
                             ResetAsk(ResetData(TRUE, TRUE, TRUE, {"STATE"}, FALSE)),
                             ResetAsk(ResetData(FALSE, TRUE, TRUE, {"BOOT", "STATE"}, FALSE)),
                             ResetAsk(ResetData(FALSE, FALSE, TRUE, {}, TRUE))},
                            {SigTerm, RebootNow, RebootAsk("FORCE")})]

(* A worker that boots. *)
Booting == [Server EXCEPT !.server = FALSE, !.booted = FALSE,
              !.asks = AskedBy({RebootAsk("POWERCYCLE"), UpgradeAsk("upgrade", "DEFAULT")}, {SigTerm})]

(* The Reset of the maintenance service. *)
MaintenanceResetAsk == Asking("reboot", FALSE, Data("ResetRequest", "DEFAULT", FALSE))

(* One in maintenance mode, or with the other deferred checks. *)
Maintained == [Booting EXCEPT !.checks = {"haltIfInstalled"},
                 !.asks = AskedBy({UpgradeAsk("maintenanceUpgrade", "DEFAULT"), MaintenanceResetAsk},
                                  {RebootNow})]
Unhalted == [Maintained EXCEPT !.checks = {"dualBoot"}]

(* One in a container, one to install, and two that wipe partitions. *)
Container == [Booting EXCEPT !.container = TRUE,
                !.asks = AskedBy({ShutdownAsk, ResetAsk(ResetData(FALSE, FALSE, TRUE, {}, FALSE))}, {})]
Blank == [Booting EXCEPT !.installed = FALSE, !.asks = AskedBy({RebootNow}, {})]
Wiping == [Booting EXCEPT !.checks = {"wipe"}, !.wipe = {"BOOT", "STATE"}, !.asks = AskedBy({}, {})]
Wiped == [Wiping EXCEPT !.wipe = Partitions]

(* A server of two that asks its agent for the peers. *)
MCQuorum == {[Server EXCEPT !.override = FALSE,
                !.asks = AskedBy({UpgradeAsk("upgrade", "DEFAULT")}, {})]}

MCMachines == {Server, Booting, Maintained, Unhalted, Container, Blank, Wiping, Wiped}
=============================================================================
