--------------------------- MODULE TicketSpinlock ---------------------------
(***************************************************************************)
(* The ticket lock of h/spinlock.h (USE_TICKET_LOCK), one step per atomic  *)
(* access to next and owner.  Both are unsigned ints and wrap around at    *)
(* Limit (2^32 in the code).                                               *)
(***************************************************************************)
EXTENDS Naturals, FiniteSets

CONSTANTS
  Threads,
  Limit       \* 2^(width of unsigned int)

ASSUME TicketAssumption ==
  /\ IsFiniteSet(Threads) /\ Cardinality(Threads) \in Nat
  /\ Limit \in Nat \ {0} /\ Cardinality(Threads) <= Limit

VARIABLES
  next,       \* lk->next
  owner,      \* lk->owner
  ticket,     \* the local ticket of each thread
  pc          \* idle, cas and spin in ticketlock_acquire_raw, critical

vars == <<next, owner, ticket, pc>>

UInt == 0..(Limit - 1)

TypeOK ==
  /\ next \in UInt /\ owner \in UInt
  /\ ticket \in [Threads -> UInt]
  /\ pc \in [Threads -> {"idle", "cas", "spin", "critical"}]

(* Mutant: the counter stops at its last value. *)
PlusSaturates(n) == IF n = Limit - 1 THEN n ELSE n + 1

(* An unsigned int plus one. *)
Plus(n) == IF n = Limit - 1 THEN 0 ELSE n + 1

Init ==
  /\ next = 0 /\ owner = 0
  /\ ticket \in [Threads -> {0}]
  /\ pc = [t \in Threads |-> "idle"]

(* Mutant: the ticket is read and next incremented from a stale copy, so that
   two callers get the same ticket. *)
FetchStale(t) ==
  /\ pc[t] = "idle"
  /\ ticket' = [ticket EXCEPT ![t] = next]
  /\ next' = Plus(owner)
  /\ pc' = [pc EXCEPT ![t] = "cas"]
  /\ UNCHANGED owner

(* ticket = __sync_fetch_and_add(&lk->next, 1) *)
FetchTicket(t) ==
  /\ pc[t] = "idle"
  /\ ticket' = [ticket EXCEPT ![t] = next]
  /\ next' = Plus(next)
  /\ pc' = [pc EXCEPT ![t] = "cas"]
  /\ UNCHANGED owner

(* __sync_val_compare_and_swap(&lk->owner, ticket, ticket) != ticket *)
CompareOwner(t) ==
  /\ pc[t] = "cas"
  /\ pc' = [pc EXCEPT ![t] = IF owner = ticket[t] THEN "critical" ELSE "spin"]
  /\ UNCHANGED <<next, owner, ticket>>

(* while (lk->owner != ticket) ; *)
Spin(t) ==
  /\ pc[t] = "spin" /\ owner = ticket[t]
  /\ pc' = [pc EXCEPT ![t] = "cas"]
  /\ UNCHANGED <<next, owner, ticket>>

(* Mutant: the lock is handed to the last ticket given out. *)
ReleaseLast(t) ==
  /\ pc[t] = "critical"
  /\ owner' = IF Plus(owner) = next THEN next
              ELSE IF next = 0 THEN Limit - 1 ELSE next - 1
  /\ pc' = [pc EXCEPT ![t] = "idle"]
  /\ UNCHANGED <<next, ticket>>

(* __sync_fetch_and_add(&lk->owner, 1) *)
Release(t) ==
  /\ pc[t] = "critical"
  /\ owner' = Plus(owner)
  /\ pc' = [pc EXCEPT ![t] = "idle"]
  /\ UNCHANGED <<next, ticket>>

Next ==
  \E t \in Threads : FetchTicket(t) \/ CompareOwner(t) \/ Spin(t) \/ Release(t)

Spec == Init /\ [][Next]_vars

(* Every processor goes on executing; nobody stays in the critical section for
   ever. *)
FairSpec ==
  Spec /\ \A t \in Threads : WF_vars(CompareOwner(t) \/ Spin(t) \/ Release(t))
-----------------------------------------------------------------------------
Active == {t \in Threads : pc[t] # "idle"}

(* How far ticket n is behind the owner. *)
Dist(n) == IF n >= owner THEN n - owner ELSE n - owner + Limit

(* At most one thread is between ticketlock_acquire and ticketlock_release, also
   after next has wrapped around to the tickets of threads still waiting. *)
MutualExclusion ==
  \A s, t \in Threads : pc[s] = "critical" /\ pc[t] = "critical" => s = t

(* The threads in and before the critical section, in the order of their
   tickets. *)
Queue ==
  LET Behind(k) == {t \in Active : Dist(ticket[t]) = k}
  IN  [i \in 1..Cardinality(Active) |->
        CHOOSE t \in Threads : Behind(i - 1) # {} => t \in Behind(i - 1)]

Fifo == INSTANCE FifoMutex WITH
  queue <- Queue, inside <- \E t \in Threads : pc[t] = "critical"

(* The lock is granted in the order of the fetch-and-adds, across the wraparound
   of the counters. *)
ImplementsFifo == Fifo!Spec

(* No starvation: whoever has taken a ticket gets the lock. *)
EveryoneEnters ==
  \A t \in Threads : pc[t] = "cas" ~> pc[t] = "critical"
=============================================================================
