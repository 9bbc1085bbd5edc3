---------------------------- MODULE SnapshotFeed ----------------------------
(***************************************************************************)
(* What a client's stream of one session promises to whoever consumes it:  *)
(* the server publishes ever newer snapshots, the consumer is shown some   *)
(* of them, never one that is not newer than what it was shown before and  *)
(* never one that was not published, and nothing after the feed has ended. *)
(* Snapshots are their revisions.                                          *)
(***************************************************************************)
EXTENDS Naturals

VARIABLES
  published,      \* the newest snapshot of the server
  seen,           \* the snapshot the consumer was shown last
  open

feedVars == <<published, seen, open>>

Init == published = 0 /\ seen = 0 /\ open = TRUE

Publish ==
  /\ published' = published + 1
  /\ UNCHANGED <<seen, open>>

\* The feed may end with the snapshot it delivers.
Deliver ==
  /\ open
  /\ \E revision \in seen + 1 .. published : seen' = revision
  /\ open' \in BOOLEAN
  /\ UNCHANGED published

End == open' = FALSE /\ UNCHANGED <<published, seen>>

Next == Publish \/ Deliver \/ End

Spec == Init /\ [][Next]_feedVars
=============================================================================
