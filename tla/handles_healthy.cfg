\* Two goroutines, a Repl and its Snapshots, no rare failure, fair scheduling.
CONSTANTS
  Threads = {t1, t2}
  Repls   = {r1}
  Progs   = {p1, p2, p3}
  Runners = {}
  Natives = {n1, n2}
  None    = None
  Faults  <- NoFaults
  Reserve = 2
SPECIFICATION FairSpec
INVARIANTS SessionSurvives
PROPERTIES ImplementsContract CallsReturn
