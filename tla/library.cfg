\* Two processes, started over and over, and three faults.
CONSTANTS
  Procs = {p1, p2}
  Existing = {"whole"}
  MaxTemps = 8
  MaxFaults = 3
SPECIFICATION Spec
INVARIANTS TypeOK LoadedIsWhole NoLitter
PROPERTIES GoodStaysGood Heals
CHECK_DEADLOCK FALSE
