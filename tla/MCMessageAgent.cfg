SPECIFICATION Spec
CONSTANTS
  Queues = {q1}
  Requests = {r1, r2, r3}
  Readers = {t1, t2}
  Answers = 2
  TimeLimited = {}
  UserOps = {}
  None = None

INVARIANTS Inv NoReplySleptOver FairTurns
SYMMETRY Anyone
CHECK_DEADLOCK FALSE
