--------------------------- MODULE MCCronScheduler ---------------------------
(* CronScheduler on a small instance: two schedulers over one store.       *)
EXTENDS CronScheduler

=============================================================================
