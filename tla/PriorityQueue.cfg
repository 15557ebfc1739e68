\* Two producers, two consumers and three items.
CONSTANTS
  Producer = {p1, p2}
  Consumer = {c1, c2}
  Stopper = s
  Item = {1, 2, 3}
  Nobody = Nobody
SPECIFICATION Spec
INVARIANTS
  HeapExclusive
  NoStrandedItem
PROPERTIES
  ItemsTaken
  StopServed
CHECK_DEADLOCK FALSE
