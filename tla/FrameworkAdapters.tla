------------------------- MODULE FrameworkAdapters --------------------------
(***************************************************************************)
(* A component of a user interface that shows the shared session through   *)
(* an adapter controller of its own: the adapters of packages/react,       *)
(* preact, vue, angular, svelte, solid and lit.  They differ in when they  *)
(* make the controller and when they connect it:                           *)
(*                                                                         *)
(*   hook     React and Preact make it while rendering; effects, which run *)
(*            later, release the controller before and connect the new one *)
(*   service  Vue and Angular replace it and connect in one call           *)
(*   store    Svelte, Solid and Lit make one and connect it whenever the   *)
(*            first subscriber or the host comes (Solid once)              *)
(*                                                                         *)
(* The application goes on using other controllers and the session itself. *)
(***************************************************************************)
EXTENDS AdapterController

VARIABLES
  lifecycle,
  own,            \* the controllers the component made
  rendered,       \* the one it uses, or None
  mounted,        \* the one it listens to and will release, or None
  published       \* what it showed last, and of which controller

componentVars == <<lifecycle, own, rendered, mounted, published>>
allVars == <<vars, componentVars>>

ComponentInit ==
  /\ Init
  /\ lifecycle \in {"hook", "service", "store"}
  /\ own = {} /\ rendered = None /\ mounted = None
  /\ published = [controller |-> None, state |-> StateAt(0)]

-----------------------------------------------------------------------------
\* useMemo of a hook at the first rendering and for another session, and the
\* one controller of a store.
Render(c) ==
  /\ lifecycle = "hook" \/ (lifecycle = "store" /\ rendered = None)
  /\ Create(c)
  /\ own' = own \cup {c}
  /\ rendered' = c
  /\ published' = IF rendered = None THEN [controller |-> c, state |-> StateAt(snapshot)]
                  ELSE published
  /\ UNCHANGED <<lifecycle, mounted>>

\* Mutation: the controller before is not disposed.
Attach_KeepsOld(old, new) ==
  LET fresh == new \notin created
      base  == IF fresh THEN StateAt(snapshot) ELSE state[new]
      opens == ~closed[new] /\ ~sessionClosed
  IN  /\ subscribers' = IF opens THEN Append(subscribers, new) ELSE subscribers
      /\ connected' = [connected EXCEPT ![new] = opens]
      /\ UNCHANGED lifecycleRevision
      /\ IF opens /\ ~fresh THEN AcceptSnapshot(new, snapshot) ELSE UNCHANGED jobs
      /\ SetState(new, IF opens THEN [base EXCEPT !.status = "ready"] ELSE base)
      /\ mounted' = IF opens \/ closed[new] THEN new ELSE None
      /\ published' = IF opens \/ closed[new] THEN [controller |-> new, state |-> state'[new]]
                      ELSE published

\* One synchronous call that releases old, connects new, reads its state and
\* listens to it.  connect throws on a closed session, and leaves new without
\* a listener; on a controller that was closed it does nothing.
Attach(old, new) ==
  LET fresh     == new \notin created
      base      == IF fresh THEN StateAt(snapshot) ELSE state[new]
      opens     == ~closed[new] /\ ~sessionClosed
      remaining == IF old # None /\ connected[old] THEN Without(subscribers, old)
                   ELSE subscribers
  IN  /\ subscribers' = IF opens THEN Append(remaining, new) ELSE remaining
      /\ connected' = [c \in Controllers |-> IF c = new THEN opens ELSE connected[c] /\ c # old]
      /\ lifecycleRevision' =
           [c \in Controllers |-> lifecycleRevision[c] + (IF c = old THEN 1 ELSE 0)]
      /\ IF opens /\ ~fresh THEN AcceptSnapshot(new, snapshot) ELSE UNCHANGED jobs
      /\ SetState(new, IF opens THEN [base EXCEPT !.status = "ready"] ELSE base)
      /\ mounted' = IF opens \/ closed[new] THEN new ELSE None
      /\ published' = IF opens \/ closed[new] THEN [controller |-> new, state |-> state'[new]]
                      ELSE published

\* The effects of a hook, run once more for the same controller by React's
\* StrictMode; the first subscriber of a store, its host, or Solid's owner.
\* Lit's hostConnected does nothing while it holds a release function.
Mount ==
  /\ lifecycle \in {"hook", "store"}
  /\ ApplicationRuns
  /\ rendered # None /\ mounted # rendered
  /\ Attach(mounted, rendered)
  /\ UNCHANGED <<snapshot, sessionClosed, heard, created, closed, stack, lifecycle, own, rendered>>

\* Angular's connect, and Vue's watch for the first and for another session:
\* a new controller each time.
Replace(c) ==
  /\ lifecycle = "service"
  /\ ApplicationRuns
  /\ c \notin created
  /\ Attach(rendered, c)
  /\ created' = created \cup {c}
  /\ own' = own \cup {c}
  /\ rendered' = c
  /\ UNCHANGED <<snapshot, sessionClosed, heard, closed, stack, lifecycle>>

\* The component goes away, or Svelte's last subscriber: the controller is
\* released and the session stays open.  Angular forgets the controller.
Unmount ==
  /\ mounted # None
  /\ Dispose(mounted)
  /\ mounted' = None
  /\ rendered' \in IF lifecycle = "service" THEN {rendered, None} ELSE {rendered}
  /\ UNCHANGED <<lifecycle, own, published>>

-----------------------------------------------------------------------------
\* The listener the component has in its controller reads the new state.
Displays ==
  published' = IF mounted # None /\ state'[mounted] # state[mounted]
               THEN [controller |-> mounted, state |-> state'[mounted]] ELSE published

\* The functions a hook returned stay bound to the controller of their
\* rendering; the other components use the controller they have.
Reachable(c) == c \notin own \/ c = rendered \/ lifecycle = "hook"

ComponentNext ==
  \/ /\ \/ Runtime \/ SessionCalls
        \/ \E c \in Controllers \ own : Create(c) \/ Connect(c) \/ Dispose(c)
        \/ \E c \in Controllers : Reachable(c) /\ (Begin(c) \/ Close(c))
     /\ Displays
     /\ UNCHANGED <<lifecycle, own, rendered, mounted>>
  \/ \E c \in Controllers : Render(c) \/ Replace(c)
  \/ Mount \/ Unmount

ComponentSpec == ComponentInit /\ [][ComponentNext]_allVars

-----------------------------------------------------------------------------
\* Mutation: a hook shows the state it was given last.
View_Unguarded == published.state

\* What the component shows: while the effects for a new controller are
\* pending, a hook reads that controller instead of the published state.
View ==
  IF lifecycle = "hook" /\ published.controller # rendered THEN state[rendered]
  ELSE published.state

\* In every order of rendering, mounting, unmounting and replacing, each
\* subscription belongs to one controller, and of the controllers a component
\* made only the mounted one has one; an unmounted component has none.
SubscriptionsAreOwned ==
  /\ SubscriptionIsOwned
  /\ \A c \in own : connected[c] => c = mounted

\* A mounted component shows the state of the controller it uses, never that
\* of one it has replaced, and is connected as long as neither the session nor
\* the controller was closed; so between jobs it shows the current snapshot or
\* that snapshot waits for it.
ViewIsCurrent ==
  /\ ConnectedIsCurrent
  /\ mounted # None =>
       /\ View = state[rendered]
       /\ closed[mounted] \/ sessionClosed \/ connected[mounted]
=============================================================================
