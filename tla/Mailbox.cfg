SPECIFICATION Spec
CONSTANTS
  Procs = {p1, p2, p3}
  Values = {1, 2}
  MAILBOX_SIZE = 3
  SIZE_T = 8
  Null = Null
INVARIANT TypeOK
PROPERTY Linearizable
