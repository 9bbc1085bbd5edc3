CONSTANTS
  Controllers = {c1, c2}
  Listeners = {l1, l2}
  MaxCalls = 5
  None = None
SYMMETRY Symmetry
SPECIFICATION ComponentSpec
CHECK_DEADLOCK FALSE
INVARIANTS
  SubscriptionsAreOwned
  ViewIsCurrent
  SettledIsVisible
  ListenersAreCurrent
PROPERTIES
  NothingAfterRelease
