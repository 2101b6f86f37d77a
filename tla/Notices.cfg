SPECIFICATION Spec
CONSTANTS
  h = h
  a = a
  Users = {h, a}
  Host = h
  Period = 2
  MailFrom = 0
  MailTo = 6
  PromptFrom = 7
  MaxTime = 10
  MaxLag = 2
INVARIANT MailOnce
INVARIANT LateAcceptsMailed
INVARIANT PromptsMeetScans
CHECK_DEADLOCK FALSE
