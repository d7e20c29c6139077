---------------------------- MODULE MCScheduler ----------------------------
(* Small instances of Scheduler: the daemon and one or two commands. *)
EXTENDS Scheduler

CONSTANTS daemon, c1, c2
OneCommand == {c1}
AllKinds == {"check", "apply", "dry"}
ApplyOnly == {"apply"}
CheckOrApply == {"check", "apply"}
AllModes == {"check", "apply", "other"}
AlwaysOn == {TRUE}
OnOff == BOOLEAN
=============================================================================
