---------------------------- MODULE TicketProofs ----------------------------
(***************************************************************************)
(* Proofs about TicketSpinlock, for every set of at most Limit threads.    *)
(***************************************************************************)
EXTENDS TicketSpinlock, Sequences, FiniteSetTheorems, TLAPS

(* The n active threads hold the n tickets from owner up to, not including,
   next, one each.  Who is in the critical section holds the ticket owner. *)
Window(n) ==
  /\ n <= Limit
  /\ next = owner + n \/ next = owner + n - Limit
  /\ \A t \in Active : Dist(ticket[t]) < n
  /\ \A s, t \in Active : ticket[s] = ticket[t] => s = t
  /\ \A k \in 0..(n - 1) : \E t \in Active : Dist(ticket[t]) = k
  /\ \A t \in Threads : pc[t] = "critical" => ticket[t] = owner

TicketInv == TypeOK /\ Window(Cardinality(Active))

(* A finite set of threads, and what a thread that comes or goes does to its
   size. *)
LEMMA ActiveSize ==
  ASSUME NEW A \in SUBSET Threads, NEW t \in Threads
  PROVE  /\ Cardinality(A) \in Nat /\ Cardinality(A) <= Limit
         /\ t \notin A => Cardinality(A \cup {t}) = Cardinality(A) + 1
         /\ t \in A => Cardinality(A \ {t}) = Cardinality(A) - 1
<1>1. IsFiniteSet(A) /\ Cardinality(A) <= Cardinality(Threads)
  BY TicketAssumption, FS_Subset
<1>2. Cardinality(A) \in Nat
  BY <1>1, FS_CardinalityType
<1>3. t \notin A => Cardinality(A \cup {t}) = Cardinality(A) + 1
  BY <1>1, FS_AddElement
<1>4. t \in A => Cardinality(A \ {t}) = Cardinality(A) - 1
  BY <1>1, FS_RemoveElement
<1> QED BY <1>1, <1>2, <1>3, <1>4, TicketAssumption

(* A new ticket lies at the end of the window: it is nobody else's, because
   fewer than Limit tickets are out. *)
LEMMA FetchStep ==
  ASSUME NEW n \in Nat, TypeOK, Window(n), n + 1 <= Limit,
         NEW t \in Threads, FetchTicket(t)
  PROVE  /\ Window(n + 1)'
         /\ Dist(ticket[t])' = n
         /\ \A s \in Active : Dist(ticket[s])' = Dist(ticket[s])
<1> USE TicketAssumption DEF UInt
<1>1. Active' = Active \cup {t} /\ t \notin Active /\ owner' = owner
  BY DEF FetchTicket, Active, TypeOK
<1>2. ticket'[t] = next /\ \A s \in Active : ticket'[s] = ticket[s]
  BY <1>1 DEF FetchTicket, TypeOK, Active
<1>3. Dist(ticket[t])' = n
  BY <1>1, <1>2 DEF TypeOK, Window, Dist
<1>4. \A s \in Active : Dist(ticket[s])' = Dist(ticket[s])
  BY <1>1, <1>2 DEF Dist
<1>5. next' = owner' + (n + 1) \/ next' = owner' + (n + 1) - Limit
  BY <1>1 DEF FetchTicket, Plus, TypeOK, Window
<1>6. \A s \in Active : ticket[s] # next
  <2>1. \A s \in Active : Dist(ticket[s]) < n
    BY DEF Window
  <2>2. Dist(next) = n
    BY DEF TypeOK, Window, Dist
  <2> QED BY <2>1, <2>2
<1>7. \A r, s \in Active' : ticket'[r] = ticket'[s] => r = s
  BY <1>1, <1>2, <1>6 DEF Window
<1>8. \A k \in 0..n : \E s \in Active' : Dist(ticket[s])' = k
  <2> TAKE k \in 0..n
  <2>1. CASE k = n
    BY <1>1, <1>3, <2>1
  <2>2. CASE k # n
    <3>1. PICK s \in Active : Dist(ticket[s]) = k
      BY <2>2 DEF Window
    <3> QED BY <1>1, <1>4, <3>1
  <2> QED BY <2>1, <2>2
<1>9. \A s \in Active' : Dist(ticket[s])' < n + 1
  <2>1. \A s \in Active : Dist(ticket[s]) \in Int /\ Dist(ticket[s]) < n
    BY DEF Window, Dist, TypeOK, Active
  <2> QED BY <1>1, <1>3, <1>4, <2>1
<1>10. \A s \in Threads : pc'[s] = "critical" => ticket'[s] = owner'
  BY <1>1 DEF FetchTicket, TypeOK, Window
<1> QED BY <1>3, <1>4, <1>5, <1>7, <1>8, <1>9, <1>10 DEF Window

(* A release takes the front ticket, owner, out of the window and moves
   everyone else one place up. *)
LEMMA ReleaseStep ==
  ASSUME NEW n \in Nat, TypeOK, Window(n), NEW t \in Threads, Release(t)
  PROVE  /\ Window(n - 1)'
         /\ Dist(ticket[t]) = 0
         /\ \A s \in Active' : Dist(ticket[s])' = Dist(ticket[s]) - 1
<1> USE TicketAssumption DEF UInt
<1>1. Active' = Active \ {t} /\ t \in Active /\ ticket' = ticket /\ next' = next
  BY DEF Release, Active, TypeOK
<1>2. ticket[t] = owner /\ Dist(ticket[t]) = 0 /\ n > 0
  BY <1>1 DEF Release, Window, TypeOK, Dist, Active
<1>3. owner' = IF owner + 1 = Limit THEN 0 ELSE owner + 1
  BY DEF Release, Plus, TypeOK
<1>4. \A s \in Active' : Dist(ticket[s])' = Dist(ticket[s]) - 1 /\ Dist(ticket[s]) # 0
  <2> TAKE s \in Active'
  <2>1. ticket[s] # owner /\ ticket[s] \in UInt
    BY <1>1, <1>2 DEF Window, TypeOK, Active
  <2> QED BY <1>1, <1>3, <2>1 DEF Dist, TypeOK
<1>5. next' = owner' + (n - 1) \/ next' = owner' + (n - 1) - Limit
  BY <1>1, <1>2, <1>3 DEF TypeOK, Window
<1>6. \A s \in Active' : Dist(ticket[s])' < n - 1
  <2>1. \A s \in Active : Dist(ticket[s]) \in Int /\ Dist(ticket[s]) < n
    BY DEF Window, Dist, TypeOK, Active
  <2> QED BY <1>1, <1>4, <2>1
<1>7. \A k \in 0..(n - 2) : \E s \in Active' : Dist(ticket[s])' = k
  <2> TAKE k \in 0..(n - 2)
  <2>1. PICK s \in Active : Dist(ticket[s]) = k + 1
    BY DEF Window
  <2>2. s # t
    BY <1>2, <2>1
  <2> QED BY <1>1, <1>4, <2>1, <2>2
<1>8. \A s \in Threads : pc'[s] = "critical" => ticket'[s] = owner'
  <2> SUFFICES ASSUME NEW s \in Threads, pc'[s] = "critical" PROVE FALSE
    OBVIOUS
  <2>1. s # t /\ pc[s] = "critical"
    BY DEF Release, TypeOK
  <2>2. s \in Active /\ ticket[s] = owner
    BY <2>1 DEF Active, Window
  <2> QED BY <1>1, <1>2, <2>1, <2>2 DEF Window
<1>9. \A r, s \in Active' : ticket'[r] = ticket'[s] => r = s
  BY <1>1 DEF Window
<1>10. n - 1 <= Limit
  BY DEF Window
<1> QED BY <1>2, <1>4, <1>5, <1>6, <1>7, <1>8, <1>9, <1>10 DEF Window

(* Comparing with owner, in the compare-and-swap or in the loop, lets in only
   the thread whose ticket is owner. *)
LEMMA CompareStep ==
  ASSUME NEW n \in Nat, TypeOK, Window(n), NEW t \in Threads,
         CompareOwner(t) \/ Spin(t)
  PROVE  Window(n)' /\ Active' = Active /\ UNCHANGED <<next, owner, ticket>>
<1>1. Active' = Active /\ UNCHANGED <<next, owner, ticket>>
  BY DEF CompareOwner, Spin, Active, TypeOK
<1>2. \A s \in Threads : pc'[s] = "critical" => ticket'[s] = owner'
  BY DEF CompareOwner, Spin, TypeOK, Window
<1>3. \A s \in Active : Dist(ticket[s])' = Dist(ticket[s])
  BY <1>1 DEF Dist
<1> QED BY <1>1, <1>2, <1>3 DEF Window

(* Every step keeps the variables in their types. *)
LEMMA TypeStep ==
  ASSUME TypeOK, [Next]_vars
  PROVE  TypeOK'
<1> USE TicketAssumption DEF TypeOK, UInt
<1>1. ASSUME NEW t \in Threads, FetchTicket(t)
      PROVE  TypeOK'
  BY <1>1 DEF FetchTicket, Plus
<1>2. ASSUME NEW t \in Threads, CompareOwner(t) \/ Spin(t)
      PROVE  TypeOK'
  BY <1>2 DEF CompareOwner, Spin
<1>3. ASSUME NEW t \in Threads, Release(t)
      PROVE  TypeOK'
  BY <1>3 DEF Release, Plus
<1> QED BY <1>1, <1>2, <1>3 DEF Next, vars

(* Nobody holds a ticket at first. *)
LEMMA InitTicketInv ==
  Init => TicketInv
<1> SUFFICES ASSUME Init PROVE TicketInv
  OBVIOUS
<1>1. Active = {}
  BY DEF Init, Active
<1>2. Cardinality(Active) = 0
  BY <1>1, FS_EmptySet
<1>3. TypeOK /\ Window(0)
  BY <1>1, TicketAssumption DEF Init, TypeOK, Window, UInt
<1> QED BY <1>2, <1>3 DEF TicketInv

(* Every step keeps the window. *)
LEMMA NextTicketInv ==
  ASSUME TicketInv, [Next]_vars
  PROVE  TicketInv'
<1> DEFINE n == Cardinality(Active)
<1>1. TypeOK /\ Window(n) /\ TypeOK'
  BY TypeStep DEF TicketInv
<1>2. Active \in SUBSET Threads /\ Active' \in SUBSET Threads
  BY DEF Active
<1>3. ASSUME NEW t \in Threads, FetchTicket(t)
      PROVE  TicketInv'
  <2>1. Active' = Active \cup {t} /\ t \notin Active
    BY <1>1, <1>3 DEF FetchTicket, Active, TypeOK
  <2>2. n \in Nat /\ n' = n + 1 /\ n + 1 <= Limit
    BY <1>2, <2>1, ActiveSize
  <2> QED BY <1>1, <1>3, <2>2, FetchStep DEF TicketInv
<1>4. ASSUME NEW t \in Threads, Release(t)
      PROVE  TicketInv'
  <2>1. Active' = Active \ {t} /\ t \in Active
    BY <1>1, <1>4 DEF Release, Active, TypeOK
  <2>2. n \in Nat /\ n' = n - 1
    BY <1>2, <2>1, ActiveSize
  <2> QED BY <1>1, <1>4, <2>2, ReleaseStep DEF TicketInv
<1>5. ASSUME NEW t \in Threads, CompareOwner(t) \/ Spin(t)
      PROVE  TicketInv'
  <2>1. n \in Nat
    BY <1>2, ActiveSize
  <2> QED BY <1>1, <1>5, <2>1, CompareStep DEF TicketInv
<1>6. CASE UNCHANGED vars
  BY <1>1, <1>6 DEF vars, TicketInv, Window, Active, Dist
<1> QED BY <1>3, <1>4, <1>5, <1>6 DEF Next

(* The window is an invariant. *)
THEOREM TicketWindow ==
  Spec => []TicketInv
<1> QED BY InitTicketInv, NextTicketInv, PTL DEF Spec

(* ticketlock_acquire lets in one thread at a time, for any number of threads
   up to the number of values of an unsigned int and any number of wraparounds
   of next and owner. *)
THEOREM TicketExclusion ==
  Spec => []MutualExclusion
<1>1. TicketInv => MutualExclusion
  BY DEF TicketInv, Window, MutualExclusion, Active
<1> QED BY <1>1, TicketWindow, PTL

(* The thread at place i of the queue is the one whose ticket is i - 1 behind
   owner. *)
Places(n) ==
  /\ n \in Nat
  /\ Queue \in Seq(Active) /\ Len(Queue) = n
  /\ \A i \in 1..n : Queue[i] \in Active /\ Dist(ticket[Queue[i]]) = i - 1
  /\ \A i \in 1..n, t \in Active : Dist(ticket[t]) = i - 1 => Queue[i] = t

(* The window determines the queue. *)
LEMMA QueuePlace ==
  TicketInv => Places(Cardinality(Active))
<1> SUFFICES ASSUME TicketInv PROVE Places(Cardinality(Active))
  OBVIOUS
<1> DEFINE n == Cardinality(Active)
           Behind(k) == {t \in Active : Dist(ticket[t]) = k}
           At(i) == CHOOSE t \in Threads : Behind(i - 1) # {} => t \in Behind(i - 1)
<1>1. n \in Nat
  <2>1. IsFiniteSet(Active)
    BY TicketAssumption, FS_Subset DEF Active
  <2> QED BY <2>1, FS_CardinalityType
<1>2. Window(n) /\ TypeOK
  BY DEF TicketInv
<1>3. Queue = [i \in 1..n |-> At(i)]
  BY DEF Queue
<1> HIDE DEF n
<1>4. \A i \in 1..n : \E t \in Active : Dist(ticket[t]) = i - 1
  BY <1>1, <1>2 DEF Window
<1>5. \A i \in 1..n : At(i) \in Active /\ Dist(ticket[At(i)]) = i - 1
  BY <1>4 DEF Active
<1>6. \A s, t \in Active : Dist(ticket[s]) = Dist(ticket[t]) => s = t
  <2> SUFFICES ASSUME NEW s \in Active, NEW t \in Active,
                      Dist(ticket[s]) = Dist(ticket[t])
               PROVE  ticket[s] = ticket[t]
    BY <1>2 DEF Window
  <2> QED BY <1>2, TicketAssumption DEF Dist, TypeOK, UInt, Active
<1> HIDE DEF At
<1>7. \A i \in 1..n : Queue[i] = At(i)
  BY <1>3
<1>8. Queue \in Seq(Active) /\ Len(Queue) = n
  BY <1>1, <1>3, <1>5
<1>9. Places(n)
  BY <1>1, <1>5, <1>6, <1>7, <1>8 DEF Places
<1> QED BY <1>9 DEF n

(* A fetch-and-add of next puts the caller at the end of the queue. *)
LEMMA QueueFetch ==
  ASSUME TicketInv, TicketInv', NEW t \in Threads, FetchTicket(t)
  PROVE  Fifo!Call(t)
<1> DEFINE n == Cardinality(Active)
<1>1. Active' = Active \cup {t} /\ t \notin Active
  BY DEF FetchTicket, Active, TicketInv, TypeOK
<1>2. n \in Nat /\ n' = n + 1 /\ n + 1 <= Limit
  <2>1. Active \in SUBSET Threads /\ Active' \in SUBSET Threads
    BY DEF Active
  <2> QED BY <1>1, <2>1, ActiveSize
<1>3. /\ Dist(ticket[t])' = n
      /\ \A s \in Active : Dist(ticket[s])' = Dist(ticket[s])
  BY <1>2, FetchStep DEF TicketInv
<1>4. Places(n)
  BY QueuePlace
<1>5. Places(n)'
  <2>1. TicketInv' => Places(n)'
    BY QueuePlace, PTL
  <2> QED BY <2>1
<1> HIDE DEF n
<1>6. \A i \in 1..n : Queue'[i] = Queue[i]
  BY <1>1, <1>2, <1>3, <1>4, <1>5 DEF Places
<1>7. Queue'[n + 1] = t
  BY <1>1, <1>2, <1>3, <1>5 DEF Places
<1>8. Queue' = Append(Queue, t)
  BY <1>1, <1>2, <1>4, <1>5, <1>6, <1>7 DEF Places
<1>9. \A i \in DOMAIN Queue : Queue[i] # t
  BY <1>1, <1>2, <1>4 DEF Places
<1>10. UNCHANGED (\E s \in Threads : pc[s] = "critical")
  BY DEF FetchTicket, TicketInv, TypeOK
<1> QED BY <1>8, <1>9, <1>10 DEF Fifo!Call

(* A fetch-and-add of owner takes the first thread off the queue. *)
LEMMA QueueRelease ==
  ASSUME TicketInv, TicketInv', NEW t \in Threads, Release(t)
  PROVE  Fifo!Leave(t)
<1> DEFINE n == Cardinality(Active)
<1>1. Active' = Active \ {t} /\ t \in Active
  BY DEF Release, Active, TicketInv, TypeOK
<1>2. n \in Nat /\ n' = n - 1
  <2>1. Active \in SUBSET Threads /\ Active' \in SUBSET Threads
    BY DEF Active
  <2> QED BY <1>1, <2>1, ActiveSize
<1>3. /\ Dist(ticket[t]) = 0
      /\ \A s \in Active' : Dist(ticket[s])' = Dist(ticket[s]) - 1
  BY <1>2, ReleaseStep DEF TicketInv
<1>4. Places(n)
  BY QueuePlace
<1>5. Places(n)'
  <2>1. TicketInv' => Places(n)'
    BY QueuePlace, PTL
  <2> QED BY <2>1
<1>6. n > 0
  BY <1>2, <1>5 DEF Places
<1> HIDE DEF n
<1>7. Queue[1] = t
  BY <1>1, <1>2, <1>3, <1>4, <1>6 DEF Places
<1>8. \A i \in 1..(n - 1) : Queue'[i] = Queue[i + 1]
  <2> TAKE i \in 1..(n - 1)
  <2>1. Queue[i + 1] \in Active /\ Dist(ticket[Queue[i + 1]]) = i
    BY <1>2, <1>4 DEF Places
  <2>2. Queue[i + 1] \in Active' /\ Dist(ticket[Queue[i + 1]]) # 0
    BY <1>1, <1>3, <2>1
  <2>3. PICK s \in Active' : s = Queue[i + 1]
    BY <2>2
  <2>4. Dist(ticket[s])' = i - 1
    BY <1>3, <2>1, <2>3
  <2> QED BY <1>2, <1>5, <2>3, <2>4 DEF Places
<1>9. Queue' = Tail(Queue)
  BY <1>2, <1>4, <1>5, <1>6, <1>8 DEF Places
<1>10. Head(Queue) = t
  BY <1>4, <1>6, <1>7 DEF Places
<1>11. /\ \E s \in Threads : pc[s] = "critical"
       /\ (\E s \in Threads : pc[s] = "critical")' = FALSE
  <2>1. \A s \in Threads : pc[s] = "critical" => s = t
    BY DEF Release, TicketInv, Window, Active
  <2> QED BY <2>1 DEF Release, TicketInv, TypeOK
<1> QED BY <1>9, <1>10, <1>11 DEF Fifo!Leave

(* The thread that gets in is the first of the queue; a failed comparison and
   the exit from the inner loop change nothing that FifoMutex sees. *)
LEMMA QueueCompare ==
  ASSUME TicketInv, TicketInv', NEW t \in Threads, CompareOwner(t) \/ Spin(t)
  PROVE  Fifo!Enter(t)
         \/ UNCHANGED <<Queue, \E s \in Threads : pc[s] = "critical">>
<1> DEFINE n == Cardinality(Active)
<1>1. Places(n)
  BY QueuePlace
<1>2. Active' = Active /\ UNCHANGED <<next, owner, ticket>>
  BY <1>1, CompareStep DEF TicketInv, Places
<1>3. Queue' = Queue
  BY <1>2 DEF Queue, Dist
<1>4. CASE CompareOwner(t) /\ owner = ticket[t]
  <2>1. t \in Active /\ Dist(ticket[t]) = 0
    BY <1>4, TicketAssumption DEF CompareOwner, Active, Dist, TicketInv, TypeOK, UInt
  <2>2. n > 0
    BY <2>1 DEF TicketInv, Window
  <2>3. Queue # <<>> /\ Head(Queue) = t
    BY <1>1, <2>1, <2>2 DEF Places
  <2>4. ~ \E s \in Threads : pc[s] = "critical"
    BY <1>4, <2>1 DEF TicketInv, Window, Active, CompareOwner
  <2>5. (\E s \in Threads : pc[s] = "critical")' = TRUE
    BY <1>4 DEF CompareOwner, TicketInv, TypeOK
  <2> QED BY <1>3, <2>3, <2>4, <2>5 DEF Fifo!Enter
<1>5. CASE ~(CompareOwner(t) /\ owner = ticket[t])
  <2>1. UNCHANGED (\E s \in Threads : pc[s] = "critical")
    BY <1>5 DEF CompareOwner, Spin, TicketInv, TypeOK
  <2> QED BY <1>3, <2>1
<1> QED BY <1>4, <1>5

(* The ticket lock implements the first-in first-out lock: threads enter in the
   order of their fetch-and-adds. *)
THEOREM TicketFifo ==
  Spec => ImplementsFifo
<1> DEFINE inside == \E t \in Threads : pc[t] = "critical"
<1>1. Init => Fifo!Init
  <2> SUFFICES ASSUME Init PROVE Queue = <<>> /\ inside = FALSE
    BY DEF Fifo!Init
  <2>1. Active = {}
    BY DEF Init, Active
  <2>2. Cardinality(Active) = 0
    BY <2>1, FS_EmptySet
  <2>3. Places(0)
    BY <2>2, InitTicketInv, QueuePlace
  <2> QED BY <2>3 DEF Places, Init
<1>2. TicketInv /\ TicketInv' /\ [Next]_vars => [Fifo!Next]_<<Queue, inside>>
  <2> SUFFICES ASSUME TicketInv, TicketInv', [Next]_vars
               PROVE  [Fifo!Next]_<<Queue, inside>>
    OBVIOUS
  <2>1. CASE UNCHANGED vars
    BY <2>1 DEF vars, Queue, Active, Dist
  <2>2. ASSUME NEW t \in Threads,
               FetchTicket(t) \/ CompareOwner(t) \/ Spin(t) \/ Release(t)
        PROVE  [Fifo!Next]_<<Queue, inside>>
    BY <2>2, QueueFetch, QueueRelease, QueueCompare DEF Fifo!Next
  <2> QED BY <2>1, <2>2 DEF Next
<1> QED BY <1>1, <1>2, TicketWindow, PTL DEF Spec, ImplementsFifo, Fifo!Spec
=============================================================================
