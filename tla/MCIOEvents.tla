---------------------------- MODULE MCIOEvents ----------------------------
(***************************************************************************)
(* Instance of IOEvents for TLC: the threads are interchangeable.          *)
(***************************************************************************)
EXTENDS IOEvents, TLC

Symmetry == Permutations(Clients)
=============================================================================
