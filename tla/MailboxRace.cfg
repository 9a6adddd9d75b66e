SPECIFICATION ReuseSpec
CONSTANTS
  Procs = {p1, p2}
  Values = {1}
  MAILBOX_SIZE = 2
  SIZE_T = 8
  Null = Null
INVARIANT CountInRange
