\* Three goroutines on one Repl and its Snapshots, with every rare failure.
CONSTANTS
  Threads = {t1, t2, t3}
  Repls   = {r1}
  Progs   = {p1, p2}
  Runners = {}
  Natives = {n1, n2, n3}
  None    = None
  Faults  <- AllFaults
  Reserve = 0
SPECIFICATION Spec
SYMMETRY Symmetry
INVARIANTS TypeOK OneExecution
PROPERTIES FeedClosedIsTruthful ImplementsContract
