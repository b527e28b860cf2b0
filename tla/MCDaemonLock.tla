----------------------------- MODULE MCDaemonLock -----------------------------
(* DaemonLock on a small instance: processes are interchangeable.          *)
EXTENDS DaemonLock, TLC

ProcessSymmetry == Permutations(Processes)

=============================================================================
