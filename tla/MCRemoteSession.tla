-------------------------- MODULE MCRemoteSession ---------------------------
(***************************************************************************)
(* Small instances of the remote session.  The second observation is stale *)
(* once the first one is accepted.                                         *)
(***************************************************************************)
EXTENDS RemoteSession, TLC

CONSTANTS Fresh, Old

MCSymmetry == Permutations(Listeners)

MCObservations ==
  {[observationId |-> Fresh, sourceRevision |-> 1], [observationId |-> Old, sourceRevision |-> 0]}

MCOneObservation == {[observationId |-> Fresh, sourceRevision |-> 0]}
=============================================================================
