------------------------------ MODULE MCDaemon ------------------------------
(***************************************************************************)
(* Instances of Daemon for TLC.  Ids of kinds that never meet share their  *)
(* model values, streams with access ids and runs, requests with tokens:   *)
(* the symmetry group stays small, and with it the time a state takes.     *)
(***************************************************************************)
EXTENDS Daemon

MCSymmetry == Permutations(Streams) \cup Permutations(Requests)
=============================================================================
