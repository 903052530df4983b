\* Violated: ErrClosed from a Repl that is alive.
CONSTANTS
  Threads = {t1, t2}
  Repls   = {r1}
  Progs   = {p1}
  Runners = {}
  Natives = {n1}
  None    = None
  Faults  <- NoFaults
  Reserve = 0
SPECIFICATION Spec
PROPERTY ClosedIsTruthful
