\* Two calls, waiters that answer, promise again or promise nil, fair scheduling.
CONSTANTS
  Calls = {c1, c2}
SPECIFICATION FairSpec
INVARIANTS TypeOK SessionComesBack SpansEnd PromisesAreKept
PROPERTIES ImplementsHostCalls CancelReturns AnswersArrive
CHECK_DEADLOCK FALSE
