---------------------------- MODULE MCWorkQueue -----------------------------
(* A queue as each pool has one: one producer, one consumer, and the       *)
(* coordinator that clears it.                                             *)
EXTENDS WorkQueue
CONSTANTS feeder, jobs, coordinator
MCProducers == {feeder}
MCConsumers == {jobs}
MCClearers  == {coordinator}
=============================================================================
