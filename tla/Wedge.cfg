\* Five threads: one holder, two failed attempts being taken back, one thread between
\* its load and its exchange, and one more.
CONSTANTS
  Thread = {t1, t2, t3, t4, t5}
  Highest = 8
SPECIFICATION WedgeSpec
INVARIANTS
  InitialisesAlone
  FreeWhenUnused
