---------------------------- MODULE MCDaemonPool ----------------------------
(* DaemonPool on a small instance: more sessions than slots, one retry.    *)
EXTENDS DaemonPool

=============================================================================
