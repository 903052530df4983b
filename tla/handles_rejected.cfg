\* Violated: a resume payload Rust rejects costs the session.
CONSTANTS
  Threads = {t1}
  Repls   = {r1}
  Progs   = {p1, p2}
  Runners = {}
  Natives = {n1, n2}
  None    = None
  Faults  <- Rejects
  Reserve = 1
SPECIFICATION Spec
INVARIANT SessionSurvives
