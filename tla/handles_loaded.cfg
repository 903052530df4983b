\* Sessions restored by LoadReplSnapshot as well: memory safety with every rare failure.
CONSTANTS
  Threads = {t1, t2}
  Repls   = {r1}
  Progs   = {p1, p2}
  Runners = {w1}
  Natives = {n1, n2, n3}
  None    = None
  Faults  <- AllFaults
  Reserve = 0
SPECIFICATION LoadSpec
SYMMETRY Symmetry
INVARIANTS SoleOwner
PROPERTIES BorrowedStaysOpen
