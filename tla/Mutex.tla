-------------------------------- MODULE Mutex --------------------------------
(***************************************************************************)
(* What the locks of h/spinlock.h promise: at most one thread is between   *)
(* spinlock_lock and spinlock_unlock.                                      *)
(***************************************************************************)
CONSTANTS Threads, Null

VARIABLES
  waiting,    \* the threads that have called spinlock_lock
  holder      \* the thread between lock and unlock, or Null

Init == waiting = {} /\ holder = Null

Call(t) ==
  /\ t \notin waiting /\ holder # t
  /\ waiting' = waiting \cup {t}
  /\ UNCHANGED holder

Enter(t) ==
  /\ t \in waiting /\ holder = Null
  /\ waiting' = waiting \ {t}
  /\ holder' = t

Leave(t) ==
  /\ holder = t
  /\ holder' = Null
  /\ UNCHANGED waiting

Next == \E t \in Threads : Call(t) \/ Enter(t) \/ Leave(t)

Spec == Init /\ [][Next]_<<waiting, holder>>
=============================================================================
