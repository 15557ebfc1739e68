\* Two producers and four pushes (tasks, and at most one stop), both for a consumer
\* that drains, as the maintainer does, and for one that streams, as the callback and
\* log threads do.
CONSTANTS
  Producer = {p1, p2}
  MaxPush = 4
SPECIFICATION Spec
INVARIANTS
  NoUseAfterFree
PROPERTIES
  ImplementsFifo
  MessagesTaken
  StopServed
CHECK_DEADLOCK FALSE
