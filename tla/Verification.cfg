SPECIFICATION Spec
CONSTANTS
  r1 = r1
  r2 = r2
  r3 = r3
  p1 = p1
  p2 = p2
  Rows = {r1, r2, r3}
  Procs = {p1, p2}
  Idle = Idle
  Wrong = Wrong
  MaxAttempts = 1
  TTL = 1
  Cooldown = 1
  MaxNow = 2
SYMMETRY Symmetry
INVARIANT MailsSpaced
INVARIANT ConsumedVerifies
INVARIANT ChallengesBounded
CHECK_DEADLOCK FALSE
