\* Violated: an older snippet ends while the base Repl executes a new one.
CONSTANTS
  Threads = {t1, t2}
  Repls   = {r1}
  Progs   = {p1, p2}
  Runners = {}
  Natives = {n1, n2}
  None    = None
  Faults  <- NoFaults
  Reserve = 0
SPECIFICATION LoadSpec
INVARIANT FeedHoldsRepl
