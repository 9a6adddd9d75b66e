SPECIFICATION FairReuse
CONSTANTS
  Procs = {p1, p2}
  Values = {1}
  MAILBOX_SIZE = 2
  SIZE_T = 4
  Null = Null
INVARIANT IndicesInside
PROPERTY CallsReturn
