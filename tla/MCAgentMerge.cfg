SPECIFICATION Spec
CONSTANTS
  Queues = {q1, q2}
  Requests = {r1, r2}
  Readers = {t1}
  Answers = 1
  TimeLimited = {r1}
  UserOps = {"abandon", "abandonAll", "merge"}
  None = None

INVARIANT ReplyIsInReach
SYMMETRY AnyQueue
CHECK_DEADLOCK FALSE
