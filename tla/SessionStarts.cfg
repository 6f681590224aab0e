SPECIFICATION Spec
CONSTANTS
  Sessions = {s1, s2}
  Calls = {c1, c2}
  Runtimes = {r1}
  Notebooks = {n1, n2}
  Console = console
  None = none
SYMMETRY Symmetry
INVARIANTS
  TypeOK
  EntriesAreCurrent
  ReservationsAreOwned
CHECK_DEADLOCK FALSE
