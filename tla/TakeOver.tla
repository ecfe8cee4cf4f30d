------------------------------ MODULE TakeOver ------------------------------
(* Which machine sequence may interrupt which: the table of                *)
(* runtime/sequencer.go and the test that the lock applies to a request.   *)

Noop == "noop"

(* The sequences of runtime/sequencer.go; noop is the zero value. *)
Sequences == {"boot", "initialize", "install", "shutdown", "upgrade",
              "stageUpgrade", "maintenanceUpgrade", "reset", "reboot"}

(* What a caller of Controller.Run asks for: a sequence, and whether it    *)
(* insists (WithTakeover).                                                 *)
Request(seq, takeover) == [seq |-> seq, takeover |-> takeover]

AnyRequest == [seq : Sequences \union {Noop}, takeover : BOOLEAN]

NoRequest == Request(Noop, FALSE)

(* sequenceTakeOver[running]: the sequences that may interrupt running. *)
sequenceTakeOver ==
  [running \in Sequences |->
     CASE running = "initialize" -> {"maintenanceUpgrade"}
       [] running = "boot"       -> {"reboot", "reset", "upgrade"}
       [] running = "reboot"     -> {"reboot"}
       [] running = "reset"      -> {"reboot"}
       [] OTHER                  -> {}]

CanTakeOver(s, running) == running = Noop \/ s \in sequenceTakeOver[running]

(* The test of Lock: by the table, or because the caller insists. *)
MayRun(r, running) == CanTakeOver(r.seq, running) \/ r.takeover

=============================================================================
