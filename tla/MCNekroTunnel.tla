--------------------------- MODULE MCNekroTunnel ---------------------------
(* NekroTunnel for TLC: process ids are interchangeable. *)
EXTENDS NekroTunnel, TLC

ProcessIds == Permutations(Daemons)
=============================================================================
