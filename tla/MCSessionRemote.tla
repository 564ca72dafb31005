-------------------------- MODULE MCSessionRemote --------------------------
(* TLC instance of SessionRemote. *)
EXTENDS SessionRemote, TLC

\* The objects are interchangeable (used in runs without liveness only).
RemoteSymmetry == Permutations(Remotes)
=============================================================================
