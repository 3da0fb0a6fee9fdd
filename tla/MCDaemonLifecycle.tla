------------------------- MODULE MCDaemonLifecycle -------------------------
(* Instances of DaemonLifecycle for TLC: a launch from a terminal, one     *)
(* under the tray, and a command beside them.                              *)
EXTENDS DaemonLifecycle
=============================================================================
