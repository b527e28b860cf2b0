----------------------------- MODULE MCSessionLog -----------------------------
(* SessionLog on a small instance: two writers, batches of up to two       *)
(* events, every kind of operation.                                        *)
EXTENDS SessionLog

=============================================================================
