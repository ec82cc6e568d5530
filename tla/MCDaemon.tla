-------------------------------- MODULE MCDaemon --------------------------------
(* Daemon with a few processes; they are interchangeable where no liveness is checked. *)
EXTENDS Daemon, TLC

PidSymmetry == Permutations(Pid)
===============================================================================
