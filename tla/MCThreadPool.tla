----------------------------- MODULE MCThreadPool -----------------------------
(***************************************************************************)
(* An instance of ThreadPool for TLC: fewer workers than tasks of one call *)
(* and more than one caller, so that tasks queue up, workers sleep and     *)
(* wake, and dropped futures have tasks left when the pool is stopped.     *)
(***************************************************************************)
EXTENDS ThreadPool
=============================================================================
