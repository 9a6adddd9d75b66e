SPECIFICATION Spec
CONSTANTS
  t1 = t1
  disk0 = disk0
  tape0 = tape0
  Procs = {p1, p2}
  Bufs = {b1, b2}
  Blocks = {d1, t1}
  NODEV = NODEV
  DevOf <- MCDevOf
  TapeDevs = {tape0}
  Values = {0, 1}
  Null = Null
  FreeChan = FreeChan
  Ops = {"bread", "getblk", "geteblk", "bflush"}
  IOErrors = FALSE
SYMMETRY BufSymmetry
INVARIANTS
  TypeOK
  AvailableIffNotBusy
  OneBufferPerBlock
  ExclusiveOwner
  NothingLost
  NoLostWakeup
  GotWhatWasAsked
  NoneForgotten
