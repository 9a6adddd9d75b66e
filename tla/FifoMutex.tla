------------------------------ MODULE FifoMutex ------------------------------
(***************************************************************************)
(* What the ticket lock of h/spinlock.h promises on top of Mutex: threads  *)
(* enter in the order in which they called.                                *)
(***************************************************************************)
EXTENDS Naturals, Sequences

CONSTANTS Threads

VARIABLES
  queue,      \* the threads that called and have not left, in call order
  inside      \* whether the first of them is between lock and unlock

Init == queue = <<>> /\ inside = FALSE

Call(t) ==
  /\ \A i \in DOMAIN queue : queue[i] # t
  /\ queue' = Append(queue, t)
  /\ UNCHANGED inside

Enter(t) ==
  /\ queue # <<>> /\ t = Head(queue) /\ ~inside
  /\ inside' = TRUE
  /\ UNCHANGED queue

Leave(t) ==
  /\ inside /\ t = Head(queue)
  /\ queue' = Tail(queue)
  /\ inside' = FALSE

Next == \E t \in Threads : Call(t) \/ Enter(t) \/ Leave(t)

Spec == Init /\ [][Next]_<<queue, inside>>
=============================================================================
