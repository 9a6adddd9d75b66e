--------------------------- MODULE TestAndSetLock ---------------------------
(***************************************************************************)
(* The default spinlock of h/spinlock.h (USE_TICKET_LOCK not defined), one *)
(* step per access to the lock word.                                       *)
(***************************************************************************)
EXTENDS Naturals

CONSTANTS Threads, Null

ASSUME NullAssumption == Null \notin Threads

VARIABLES
  lock,       \* lk->lock
  pc          \* idle, tas and spin in spinlock_lock_raw, critical

vars == <<lock, pc>>

TypeOK ==
  /\ lock \in {0, 1}
  /\ pc \in [Threads -> {"idle", "tas", "spin", "critical"}]

Init == lock = 0 /\ pc = [t \in Threads |-> "idle"]

Call(t) ==
  /\ pc[t] = "idle"
  /\ pc' = [pc EXCEPT ![t] = "tas"]
  /\ UNCHANGED lock

(* Mutant: tests the word and does not set it. *)
TestOnly(t) ==
  /\ pc[t] = "tas"
  /\ pc' = [pc EXCEPT ![t] = IF lock = 0 THEN "critical" ELSE "spin"]
  /\ UNCHANGED lock

(* __sync_lock_test_and_set(&lk->lock, 1) *)
TestAndSet(t) ==
  /\ pc[t] = "tas"
  /\ lock' = 1
  /\ pc' = [pc EXCEPT ![t] = IF lock = 0 THEN "critical" ELSE "spin"]

(* The inner loop: leave it once the word reads 0, and try again. *)
Spin(t) ==
  /\ pc[t] = "spin" /\ lock = 0
  /\ pc' = [pc EXCEPT ![t] = "tas"]
  /\ UNCHANGED lock

(* Mutant: the word is not cleared. *)
UnlockKeeps(t) ==
  /\ pc[t] = "critical"
  /\ pc' = [pc EXCEPT ![t] = "idle"]
  /\ UNCHANGED lock

Unlock(t) ==
  /\ pc[t] = "critical"
  /\ lock' = 0
  /\ pc' = [pc EXCEPT ![t] = "idle"]

Next == \E t \in Threads : Call(t) \/ TestAndSet(t) \/ Spin(t) \/ Unlock(t)

Spec == Init /\ [][Next]_vars

(* Every processor goes on executing; nobody stays in the critical section for
   ever. *)
FairSpec ==
  Spec /\ \A t \in Threads : WF_vars(TestAndSet(t) \/ Spin(t) \/ Unlock(t))
-----------------------------------------------------------------------------
Holding == {t \in Threads : pc[t] = "critical"}

(* The lock implements Mutex: no test-and-set succeeds while a thread is in its
   critical section, whatever the others are doing in the two loops. *)
Abstract == INSTANCE Mutex WITH
  waiting <- {t \in Threads : pc[t] \in {"tas", "spin"}},
  holder <- IF Holding = {} THEN Null ELSE CHOOSE t \in Holding : TRUE

ImplementsMutex == Abstract!Spec

(* Threads that wait do not block one another: as long as some thread is in
   spinlock_lock, a thread gets the lock again and again. *)
SomeoneEnters ==
  (\E t \in Threads : pc[t] \in {"tas", "spin"}) ~> (Holding # {})
=============================================================================
