\* Violated: an error of a name lookup is joined with ErrClosed.
CONSTANTS
  Calls = {c1}
SPECIFICATION Spec
INVARIANT ErrClosedMeansClosed
CHECK_DEADLOCK FALSE
