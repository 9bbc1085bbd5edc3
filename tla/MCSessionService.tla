-------------------------- MODULE MCSessionService --------------------------
(***************************************************************************)
(* Small instances of the session service.                                 *)
(***************************************************************************)
EXTENDS SessionService, TLC

Symmetry == Permutations(SessionIds) \cup Permutations(Connections) \cup Permutations(ObservationIds)
=============================================================================
