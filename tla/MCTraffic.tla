----------------------------- MODULE MCTraffic -----------------------------
(* Small instances of Traffic for TLC. *)
EXTENDS Traffic, TLC

\* A short and a longer month.
Calendar == (0 :> 2) @@ (1 :> 3)
=============================================================================
