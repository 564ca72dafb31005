------------------------------- MODULE MCSeat -------------------------------
(* TLC instance of Seat. *)
EXTENDS Seat, TLC

\* The session objects are interchangeable (runs without liveness only).
RemoteSymmetry == Permutations(Remotes)
=============================================================================
