---------------------------- MODULE MailboxProofs ----------------------------
(***************************************************************************)
(* Proofs about Mailbox and MailboxReuse, for any number of processes, any *)
(* MAILBOX_SIZE and any width of size_t that can count to it.              *)
(***************************************************************************)
EXTENDS MailboxReuse, TLAPS

(* The lock word tells whether a process holds the lock; one at most does; who
   is past spinlock_lock holds it. *)
LockInv ==
  /\ \A p, q \in Procs : lpc[p] = "critical" /\ lpc[q] = "critical" => p = q
  /\ \A p \in Procs : lpc[p] = "critical" => lock = 1
  /\ \A p \in Procs : pc[p] = "idle" <=> lpc[p] = "idle"
  /\ \A p \in Procs : pc[p] \notin {"idle", "lock"} => lpc[p] = "critical"

(* What a process knows between its test of count and spinlock_unlock. *)
CallInv ==
  \A p \in Procs :
    /\ pc[p] = "idle" => op[p] = "none" /\ val[p] = Null
    /\ pc[p] # "idle" => op[p] \in {"send", "recv"}
    /\ pc[p] # "unlock" => ret[p] = -1
    /\ pc[p] \in {"store", "tail", "inc"} => op[p] = "send" /\ count < MAILBOX_SIZE
    /\ pc[p] \in {"load", "head", "dec"} => op[p] = "recv" /\ count > 0
    /\ op[p] = "send" => val[p] \in Values
    /\ op[p] = "recv" /\ pc[p] \in {"lock", "load"} => val[p] = Null
    /\ op[p] = "recv" /\ pc[p] = "unlock" /\ ret[p] = -1 => val[p] = Null
    /\ pc[p] \in {"tail", "inc"} => buffer[Slot(count)] = val[p]
    /\ pc[p] \in {"head", "dec"} => buffer[First] = val[p]

(* tail is count slots after head, one more when a sender has moved it and not
   yet counted. *)
RingInv ==
  tail = IF \E p \in Procs : pc[p] = "inc" THEN After(Slot(count)) ELSE Slot(count)

MInv == TypeOK /\ LockInv /\ CallInv /\ RingInv

(* After, without the remainder. *)
LEMMA AfterIndex ==
  ASSUME NEW i \in Index
  PROVE  /\ After(i) \in Index
         /\ After(i) = IF i = MAILBOX_SIZE - 1 THEN 0 ELSE i + 1
<1> USE MailboxAssumption DEF Index
<1>1. CASE i = MAILBOX_SIZE - 1
  BY <1>1 DEF After
<1>2. CASE i # MAILBOX_SIZE - 1
  BY <1>2 DEF After
<1> QED BY <1>1, <1>2

(* Plus, where it does not wrap. *)
LEMMA PlusExact ==
  ASSUME NEW n \in 0..MAILBOX_SIZE
  PROVE  /\ n < MAILBOX_SIZE => Plus(n, 1) = n + 1
         /\ n > 0 => Plus(n, -1) = n - 1
<1> USE MailboxAssumption
<1>1. \A m \in 0..MAILBOX_SIZE : m % SIZE_T = m
  OBVIOUS
<1>2. ASSUME n < MAILBOX_SIZE PROVE Plus(n, 1) = n + 1
  BY <1>1, <1>2 DEF Plus
<1>3. ASSUME n > 0 PROVE Plus(n, -1) = n - 1
  <2>1. n + (-1) = n - 1 /\ n - 1 \in 0..MAILBOX_SIZE
    BY <1>3
  <2> QED BY <1>1, <2>1 DEF Plus
<1> QED BY <1>2, <1>3

(* First and Slot are indices of the ring. *)
LEMMA SlotIndex ==
  ASSUME TypeOK
  PROVE  /\ First \in Index
         /\ \A i \in 0..MAILBOX_SIZE : Slot(i) \in Index
         /\ \A i \in 0..(MAILBOX_SIZE - 1) : After(Slot(i)) = Slot(i + 1)
         /\ Slot(0) = First
<1> USE MailboxAssumption
<1>1. First \in Index
  BY DEF First, TypeOK, Index
<1>2. \A i \in 0..MAILBOX_SIZE : Slot(i) \in Index
  BY <1>1 DEF Slot, Index
<1>3. \A i \in 0..(MAILBOX_SIZE - 1) : After(Slot(i)) = Slot(i + 1)
  BY <1>1, <1>2, AfterIndex DEF Slot, Index
<1> QED BY <1>1, <1>2, <1>3 DEF Slot, Index

(* The process that holds the lock is the only one past it. *)
LEMMA Alone ==
  ASSUME MInv, NEW p \in Procs, lpc[p] = "critical"
  PROVE  \A q \in Procs : q # p => lpc[q] # "critical" /\ pc[q] \in {"idle", "lock"}
BY DEF MInv, LockInv

(* Steps that leave the ring alone leave the queue alone. *)
LEMMA QuietStep ==
  ASSUME MInv, NEW p \in Procs, NEW l, pc' = [pc EXCEPT ![p] = l],
         UNCHANGED ring, pc[p] \notin {"inc", "dec"}, l \notin {"inc", "dec"}
  PROVE  /\ First' = First /\ \A i : Slot(i)' = Slot(i)
         /\ Queue' = Queue /\ RingInv'
<1> USE DEF ring
<1>1. \A m \in {"inc", "dec"} :
        (\E q \in Procs : pc'[q] = m) <=> (\E q \in Procs : pc[q] = m)
  BY DEF MInv, TypeOK
<1>2. First' = First
  BY <1>1 DEF First
<1>3. \A i : Slot(i)' = Slot(i)
  BY <1>2 DEF Slot
<1>4. Queue' = Queue
  BY <1>3 DEF Queue
<1>5. RingInv'
  BY <1>1, <1>3 DEF RingInv, MInv, After
<1> QED BY <1>2, <1>3, <1>4, <1>5

(* A call begins. *)
LEMMA BeginStep ==
  ASSUME MInv, NEW p \in Procs, mailbox_send(p) \/ mailbox_recv(p)
  PROVE  MInv' /\ Queue' = Queue
<1> USE MailboxAssumption
<1>1. PICK o \in {"send", "recv"}, v \in Values \cup {Null} :
        Begin(p, o, v) /\ (o = "send" => v \in Values) /\ (o = "recv" => v = Null)
  BY DEF mailbox_send, mailbox_recv
<1>2. pc[p] = "idle" /\ lpc[p] = "idle" /\ pc' = [pc EXCEPT ![p] = "lock"]
  BY <1>1 DEF Begin, Lock!Call, Goto, MInv, LockInv
<1>3. UNCHANGED ring
  BY <1>1 DEF Begin
<1>4. /\ First' = First /\ \A i : Slot(i)' = Slot(i)
      /\ Queue' = Queue /\ RingInv'
  BY <1>2, <1>3, QuietStep, ZenonT(40)
<1>5. TypeOK'
  BY <1>1, <1>2, <1>3 DEF Begin, Lock!Call, Lock!TypeOK, MInv, TypeOK, ring
<1>6. LockInv'
  BY <1>1, <1>2 DEF Begin, Lock!Call, MInv, TypeOK, Lock!TypeOK, LockInv
<1>7. CallInv'
  BY <1>1, <1>2, <1>3, <1>4 DEF Begin, MInv, TypeOK, CallInv, ring
<1> QED BY <1>4, <1>5, <1>6, <1>7 DEF MInv

(* Steps in spinlock_lock. *)
LEMMA LockStep ==
  ASSUME MInv, NEW p \in Procs, spinlock_lock(p)
  PROVE  MInv' /\ Queue' = Queue
<1>1. UNCHANGED <<ring, pc, args>>
  BY DEF spinlock_lock
<1>2. First' = First /\ \A i : Slot(i)' = Slot(i)
  BY <1>1 DEF First, Slot, ring
<1>3. Queue' = Queue
  BY <1>1, <1>2 DEF Queue, ring
<1>4. TypeOK'
  BY <1>1 DEF spinlock_lock, Lock!TestAndSet, Lock!Spin, Lock!TypeOK, MInv, TypeOK,
              ring, args
<1>5. LockInv'
  BY <1>1 DEF spinlock_lock, Lock!TestAndSet, Lock!Spin, MInv, TypeOK, Lock!TypeOK,
              LockInv
<1>6. CallInv' /\ RingInv'
  BY <1>1, <1>2 DEF MInv, CallInv, RingInv, ring, args, After
<1> QED BY <1>3, <1>4, <1>5, <1>6 DEF MInv

(* The test of count. *)
LEMMA TestStep ==
  ASSUME MInv, NEW p \in Procs, TestCount(p)
  PROVE  MInv' /\ Queue' = Queue
<1>1. PICK l \in {"store", "load", "unlock"} :
        /\ pc' = [pc EXCEPT ![p] = l]
        /\ l = "store" => op[p] = "send" /\ count < MAILBOX_SIZE
        /\ l = "load" => op[p] = "recv" /\ count > 0
  BY DEF TestCount, Goto
<1>2. pc[p] = "lock" /\ lpc[p] = "critical" /\ UNCHANGED <<lock, lpc, ring, args>>
  BY DEF TestCount, Holding
<1>3. /\ First' = First /\ \A i : Slot(i)' = Slot(i)
      /\ Queue' = Queue /\ RingInv'
  BY <1>1, <1>2, QuietStep, Zenon
<1>4. TypeOK' /\ LockInv'
  BY <1>1, <1>2 DEF MInv, TypeOK, Lock!TypeOK, LockInv, ring, args
<1>5. CallInv'
  BY <1>1, <1>2, <1>3 DEF MInv, TypeOK, CallInv, ring, args
<1> QED BY <1>3, <1>4, <1>5 DEF MInv

(* The call ends. *)
LEMMA UnlockStep ==
  ASSUME MInv, NEW p \in Procs, spinlock_unlock(p)
  PROVE  MInv' /\ Queue' = Queue
<1> USE MailboxAssumption
<1>1. pc[p] = "unlock" /\ lpc[p] = "critical" /\ pc' = [pc EXCEPT ![p] = "idle"]
  BY DEF spinlock_unlock, Lock!Unlock, Goto
<1>2. UNCHANGED ring
  BY DEF spinlock_unlock
<1>3. /\ First' = First /\ \A i : Slot(i)' = Slot(i)
      /\ Queue' = Queue /\ RingInv'
  BY <1>1, <1>2, QuietStep, Zenon
<1>4. TypeOK'
  BY <1>1, <1>2 DEF spinlock_unlock, Lock!Unlock, Lock!TypeOK, MInv, TypeOK, ring
<1>5. LockInv'
  BY <1>1 DEF spinlock_unlock, Lock!Unlock, MInv, TypeOK, Lock!TypeOK, LockInv
<1>6. CallInv'
  BY <1>1, <1>2, <1>3 DEF spinlock_unlock, MInv, TypeOK, CallInv, ring
<1> QED BY <1>3, <1>4, <1>5, <1>6 DEF MInv

(* Where the others are while p is past the lock, before and after its step. *)
LEMMA BodyStep ==
  ASSUME MInv, NEW p \in Procs, NEW k, NEW l, Holding(p, k), k \notin {"idle", "lock"},
         l \in {"tail", "inc", "head", "dec", "unlock"},
         pc' = [pc EXCEPT ![p] = l], UNCHANGED <<lock, lpc>>
  PROVE  /\ pc[p] = k /\ pc'[p] = l
         /\ \A m \in {"inc", "dec"} : (\E q \in Procs : pc[q] = m) <=> k = m
         /\ \A m \in {"inc", "dec"} : (\E q \in Procs : pc'[q] = m) <=> l = m
         /\ \A q \in Procs : q # p => pc'[q] = pc[q] /\ pc[q] \in {"idle", "lock"}
         /\ pc' \in [Procs -> {"idle", "lock", "store", "tail", "inc",
                               "load", "head", "dec", "unlock"}]
         /\ Lock!TypeOK' /\ LockInv'
<1>1. pc[p] = k /\ lpc[p] = "critical" /\ pc \in [Procs -> {"idle", "lock", "store",
        "tail", "inc", "load", "head", "dec", "unlock"}]
  BY DEF Holding, MInv, TypeOK
<1>2. \A q \in Procs : q # p => pc'[q] = pc[q] /\ pc[q] \in {"idle", "lock"}
  BY <1>1, Alone
<1>3. Lock!TypeOK' /\ LockInv'
  BY <1>1 DEF MInv, TypeOK, Lock!TypeOK, LockInv
<1> QED BY <1>1, <1>2, <1>3

(* buffer[tail] = value, in a slot that holds no message. *)
LEMMA StoreStep ==
  ASSUME MInv, NEW p \in Procs, Store(p)
  PROVE  MInv' /\ Queue' = Queue
<1> USE MailboxAssumption
<1>1. /\ Holding(p, "store") /\ pc' = [pc EXCEPT ![p] = "tail"]
      /\ buffer' = [buffer EXCEPT ![tail] = val[p]]
      /\ UNCHANGED <<lock, lpc, head, tail, count, op, val, ret>>
  BY DEF Store, Goto, args
<1>2. /\ pc[p] = "store" /\ pc'[p] = "tail"
      /\ ~ \E q \in Procs : pc[q] \in {"inc", "dec"}
      /\ ~ \E q \in Procs : pc'[q] \in {"inc", "dec"}
      /\ \A q \in Procs : q # p => pc'[q] = pc[q] /\ pc[q] \in {"idle", "lock"}
      /\ LockInv'
  BY <1>1, BodyStep, Zenon
<1>3. First' = First /\ \A i : Slot(i)' = Slot(i)
  BY <1>1, <1>2 DEF First, Slot
<1>4. tail = Slot(count) /\ count < MAILBOX_SIZE /\ val[p] \in Values /\ count \in Nat
  BY <1>2 DEF MInv, RingInv, CallInv, TypeOK
<1>5. TypeOK'
  BY <1>1, <1>4, BodyStep, Zenon DEF MInv, TypeOK
<1>6. \A i \in 0..(count - 1) : Slot(i) # Slot(count) /\ Slot(i) \in Index
  BY <1>4, SlotIndex DEF MInv, Slot, Index
<1>7. Queue' = Queue
  BY <1>1, <1>3, <1>4, <1>6 DEF Queue, MInv, TypeOK
<1>8. RingInv'
  BY <1>1, <1>2, <1>3, <1>4 DEF RingInv
<1>9. CallInv'
  BY <1>1, <1>2, <1>3, <1>4 DEF MInv, CallInv, TypeOK
<1> QED BY <1>2, <1>5, <1>7, <1>8, <1>9 DEF MInv

(* tail moves before the message is counted. *)
LEMMA AdvanceTailStep ==
  ASSUME MInv, NEW p \in Procs, AdvanceTail(p)
  PROVE  MInv' /\ Queue' = Queue
<1> USE MailboxAssumption
<1>1. /\ Holding(p, "tail") /\ pc' = [pc EXCEPT ![p] = "inc"] /\ tail' = After(tail)
      /\ UNCHANGED <<lock, lpc, head, count, buffer, op, val, ret>>
  BY DEF AdvanceTail, Goto, args
<1>2. /\ pc[p] = "tail" /\ pc'[p] = "inc"
      /\ ~ \E q \in Procs : pc[q] \in {"inc", "dec"}
      /\ ~ \E q \in Procs : pc'[q] = "dec"
      /\ \A q \in Procs : q # p => pc'[q] = pc[q] /\ pc[q] \in {"idle", "lock"}
      /\ LockInv'
  BY <1>1, BodyStep, Zenon
<1>3. First' = First /\ \A i : Slot(i)' = Slot(i)
  BY <1>1, <1>2 DEF First, Slot
<1>4. Queue' = Queue
  BY <1>1, <1>3 DEF Queue
<1>5. TypeOK'
  BY <1>1, AfterIndex, BodyStep, Zenon DEF MInv, TypeOK
<1>6. RingInv'
  BY <1>1, <1>2, <1>3 DEF MInv, RingInv, After
<1>7. CallInv'
  BY <1>1, <1>2, <1>3 DEF MInv, CallInv
<1> QED BY <1>2, <1>4, <1>5, <1>6, <1>7 DEF MInv

(* Counting the message puts it at the end of the queue. *)
LEMMA IncrementStep ==
  ASSUME MInv, NEW p \in Procs, Increment(p)
  PROVE  MInv' /\ Queue' = Append(Queue, val[p]) /\ Len(Queue) < MAILBOX_SIZE
<1> USE MailboxAssumption
<1>1. /\ Holding(p, "inc") /\ pc' = [pc EXCEPT ![p] = "unlock"] /\ count' = count + 1
      /\ ret' = [ret EXCEPT ![p] = 0]
      /\ UNCHANGED <<lock, lpc, head, tail, buffer, op, val>>
  <2>1. count \in 0..MAILBOX_SIZE /\ count < MAILBOX_SIZE
    BY DEF Increment, Holding, MInv, CallInv, TypeOK
  <2>2. Plus(count, 1) = count + 1
    BY <2>1, PlusExact
  <2> QED BY <2>2 DEF Increment, Goto
<1>2. /\ pc[p] = "inc" /\ pc'[p] = "unlock"
      /\ ~ \E q \in Procs : pc[q] = "dec"
      /\ ~ \E q \in Procs : pc'[q] \in {"inc", "dec"}
      /\ \A q \in Procs : q # p => pc'[q] = pc[q] /\ pc[q] \in {"idle", "lock"}
      /\ LockInv'
  BY <1>1, BodyStep, Zenon
<1>3. First' = First /\ \A i : Slot(i)' = Slot(i)
  BY <1>1, <1>2 DEF First, Slot
<1>4. /\ tail = After(Slot(count)) /\ count < MAILBOX_SIZE /\ count \in Nat
      /\ buffer[Slot(count)] = val[p] /\ op[p] = "send" /\ val[p] \in Values
  BY <1>2 DEF MInv, RingInv, CallInv, TypeOK
<1>5. TypeOK'
  <2>1. Lock!TypeOK' /\ pc' \in [Procs -> {"idle", "lock", "store", "tail", "inc",
                                         "load", "head", "dec", "unlock"}]
    BY <1>1, BodyStep, Zenon
  <2>2. count' \in 0..MAILBOX_SIZE /\ ret' \in [Procs -> {-1, 0}]
    BY <1>1, <1>4 DEF MInv, TypeOK
  <2> QED BY <1>1, <2>1, <2>2 DEF MInv, TypeOK
<1>6. tail' = Slot(count + 1)
  BY <1>1, <1>4, SlotIndex DEF MInv
<1>7. RingInv'
  BY <1>1, <1>2, <1>3, <1>6 DEF RingInv
<1>8. CallInv'
  BY <1>1, <1>2, <1>4 DEF MInv, CallInv, TypeOK
<1>9. /\ \A i \in 0..count : Slot(i) \in Index
      /\ Queue \in Seq(Values) /\ Len(Queue) = count
  <2>1. \A i \in 0..count : Slot(i) \in Index
    BY <1>4, SlotIndex DEF MInv
  <2> QED BY <1>4, <2>1 DEF Queue, MInv, TypeOK
<1>10. Queue' = [i \in 1..(count + 1) |-> buffer[Slot(i - 1)]]
  BY <1>1, <1>3 DEF Queue
<1>11. Queue' = Append(Queue, val[p])
  <2>1. Queue' \in Seq(Values) /\ Len(Queue') = count + 1
    BY <1>4, <1>9, <1>10 DEF MInv, TypeOK
  <2>2. \A i \in 1..count : Queue'[i] = Queue[i]
    <3>1. Queue = [i \in 1..count |-> buffer[Slot(i - 1)]]
      BY DEF Queue
    <3> QED BY <1>4, <1>10, <3>1
  <2>3. Queue'[count + 1] = val[p]
    BY <1>4, <1>10
  <2> QED BY <1>4, <1>9, <2>1, <2>2, <2>3
<1> QED BY <1>2, <1>4, <1>5, <1>7, <1>8, <1>9, <1>11 DEF MInv

(* The message is read. *)
LEMMA LoadStep ==
  ASSUME MInv, NEW p \in Procs, Load(p)
  PROVE  MInv' /\ Queue' = Queue
<1>1. /\ Holding(p, "load") /\ pc' = [pc EXCEPT ![p] = "head"]
      /\ val' = [val EXCEPT ![p] = buffer[head]]
      /\ UNCHANGED <<lock, lpc, head, tail, count, buffer, op, ret>>
  BY DEF Load, Goto, ring
<1>2. /\ pc[p] = "load" /\ pc'[p] = "head"
      /\ ~ \E q \in Procs : pc[q] \in {"inc", "dec"}
      /\ \A q \in Procs : q # p => pc'[q] = pc[q] /\ pc[q] \in {"idle", "lock"}
      /\ LockInv'
  BY <1>1, BodyStep, Zenon
<1>3. /\ First' = First /\ \A i : Slot(i)' = Slot(i)
      /\ Queue' = Queue /\ RingInv'
  BY <1>1, <1>2, QuietStep, Zenon DEF ring
<1>4. First = head
  BY <1>2 DEF First
<1>5. TypeOK'
  <2>1. Lock!TypeOK' /\ pc' \in [Procs -> {"idle", "lock", "store", "tail", "inc",
                                         "load", "head", "dec", "unlock"}]
    BY <1>1, BodyStep, Zenon
  <2> QED BY <1>1, <2>1 DEF MInv, TypeOK
<1>6. CallInv'
  BY <1>1, <1>2, <1>3, <1>4 DEF MInv, CallInv, TypeOK
<1> QED BY <1>2, <1>3, <1>5, <1>6 DEF MInv

(* head moves before the message is counted out. *)
LEMMA AdvanceHeadStep ==
  ASSUME MInv, NEW p \in Procs, AdvanceHead(p)
  PROVE  MInv' /\ Queue' = Queue
<1> USE MailboxAssumption
<1>1. /\ Holding(p, "head") /\ pc' = [pc EXCEPT ![p] = "dec"] /\ head' = After(head)
      /\ UNCHANGED <<lock, lpc, tail, count, buffer, op, val, ret>>
  BY DEF AdvanceHead, Goto, args
<1>2. /\ pc[p] = "head" /\ pc'[p] = "dec"
      /\ ~ \E q \in Procs : pc[q] \in {"inc", "dec"}
      /\ ~ \E q \in Procs : pc'[q] = "inc"
      /\ \A q \in Procs : q # p => pc'[q] = pc[q] /\ pc[q] \in {"idle", "lock"}
      /\ LockInv'
  BY <1>1, BodyStep, Zenon
<1>3. head \in Index
  BY DEF MInv, TypeOK
<1>4. First' = First
  <2>1. First = head
    BY <1>2 DEF First
  <2>2. First' = head
    BY <1>1, <1>2, <1>3, AfterIndex DEF First, Index
  <2> QED BY <2>1, <2>2
<1>5. \A i : Slot(i)' = Slot(i)
  BY <1>4 DEF Slot
<1>6. Queue' = Queue
  BY <1>1, <1>5 DEF Queue
<1>7. TypeOK'
  <2>1. Lock!TypeOK' /\ pc' \in [Procs -> {"idle", "lock", "store", "tail", "inc",
                                         "load", "head", "dec", "unlock"}]
    BY <1>1, BodyStep, Zenon
  <2> QED BY <1>1, <1>3, <2>1, AfterIndex DEF MInv, TypeOK
<1>8. RingInv'
  BY <1>1, <1>2, <1>5 DEF MInv, RingInv
<1>9. CallInv'
  BY <1>1, <1>2, <1>4 DEF MInv, CallInv
<1> QED BY <1>2, <1>6, <1>7, <1>8, <1>9 DEF MInv

(* Counting the message out takes the first one off the queue. *)
LEMMA DecrementStep ==
  ASSUME MInv, NEW p \in Procs, Decrement(p)
  PROVE  /\ MInv' /\ Queue # <<>>
         /\ Queue' = Tail(Queue) /\ Head(Queue) = val[p]
<1> USE MailboxAssumption
<1>1. /\ Holding(p, "dec") /\ pc' = [pc EXCEPT ![p] = "unlock"] /\ count' = count - 1
      /\ ret' = [ret EXCEPT ![p] = 0]
      /\ UNCHANGED <<lock, lpc, head, tail, buffer, op, val>>
  <2>1. count \in 0..MAILBOX_SIZE /\ count > 0
    BY DEF Decrement, Holding, MInv, CallInv, TypeOK
  <2>2. Plus(count, -1) = count - 1
    BY <2>1, PlusExact
  <2> QED BY <2>2 DEF Decrement, Goto
<1>2. /\ pc[p] = "dec" /\ pc'[p] = "unlock"
      /\ ~ \E q \in Procs : pc[q] = "inc"
      /\ ~ \E q \in Procs : pc'[q] \in {"inc", "dec"}
      /\ \A q \in Procs : q # p => pc'[q] = pc[q] /\ pc[q] \in {"idle", "lock"}
      /\ LockInv'
  BY <1>1, BodyStep, Zenon
<1>3. /\ tail = Slot(count) /\ count > 0 /\ count \in 0..MAILBOX_SIZE
      /\ buffer[First] = val[p] /\ op[p] = "recv"
  BY <1>2 DEF MInv, RingInv, CallInv, TypeOK
<1>4. First' = After(First) /\ First \in Index
  <2>1. First = IF head = 0 THEN MAILBOX_SIZE - 1 ELSE head - 1
    BY <1>2 DEF First
  <2>2. First' = head /\ head \in Index
    BY <1>1, <1>2 DEF First, MInv, TypeOK
  <2> QED BY <2>1, <2>2, SlotIndex, AfterIndex DEF MInv, Index
<1>5. \A i \in 0..(MAILBOX_SIZE - 1) : Slot(i)' = Slot(i + 1)
  BY <1>4, AfterIndex DEF Slot, Index
<1>6. TypeOK'
  <2>1. Lock!TypeOK' /\ pc' \in [Procs -> {"idle", "lock", "store", "tail", "inc",
                                         "load", "head", "dec", "unlock"}]
    BY <1>1, BodyStep, Zenon
  <2>2. count' \in 0..MAILBOX_SIZE /\ ret' \in [Procs -> {-1, 0}]
    BY <1>1, <1>3 DEF MInv, TypeOK
  <2> QED BY <1>1, <2>1, <2>2 DEF MInv, TypeOK
<1>7. RingInv'
  <2>1. count' \in 0..(MAILBOX_SIZE - 1) /\ count' + 1 = count
    BY <1>1, <1>3
  <2>2. tail' = Slot(count' + 1)
    BY <1>1, <1>3, <2>1
  <2> QED BY <1>2, <1>5, <2>1, <2>2 DEF RingInv
<1>8. CallInv'
  BY <1>1, <1>2, <1>3 DEF MInv, CallInv, TypeOK
<1>9. \A i \in 0..(count - 1) : Slot(i) \in Index
  BY <1>3, SlotIndex DEF MInv
<1>10. Queue \in Seq(Values) /\ Len(Queue) = count
  BY <1>3, <1>9 DEF Queue, MInv, TypeOK
<1>11. Queue' \in Seq(Values) /\ Len(Queue') = count - 1
  <2>1. \A i \in 1..(count - 1) : buffer[Slot(i - 1)'] \in Values
    BY <1>3, <1>5, <1>9 DEF MInv, TypeOK
  <2> QED BY <1>1, <1>3, <2>1 DEF Queue
<1>12. \A i \in 1..(count - 1) : Queue'[i] = Queue[i + 1]
  BY <1>1, <1>3, <1>5 DEF Queue
<1>13. Queue' = Tail(Queue)
  BY <1>3, <1>10, <1>11, <1>12
<1>14. Head(Queue) = val[p] /\ Queue # <<>>
  BY <1>3, <1>10, SlotIndex DEF Queue, MInv
<1> QED BY <1>2, <1>6, <1>7, <1>8, <1>13, <1>14 DEF MInv

(* The mailbox is empty at first. *)
LEMMA InitMInv ==
  Init => MInv /\ Queue = <<>>
<1> SUFFICES ASSUME Init PROVE MInv /\ Queue = <<>>
  OBVIOUS
<1> USE MailboxAssumption
<1>1. TypeOK
  BY DEF Init, Lock!Init, TypeOK, Lock!TypeOK, Index
<1>2. LockInv /\ CallInv
  BY DEF Init, Lock!Init, LockInv, CallInv
<1>3. RingInv
  BY DEF Init, RingInv, First, Slot
<1>4. Queue = <<>>
  BY DEF Init, Queue
<1> QED BY <1>1, <1>2, <1>3, <1>4 DEF MInv

(* Every step keeps the invariant. *)
LEMMA NextMInv ==
  ASSUME MInv, [Next]_vars
  PROVE  MInv'
<1>1. CASE UNCHANGED vars
  <2>1. First' = First
    BY <1>1 DEF vars, First
  <2>2. \A i : Slot(i)' = Slot(i)
    BY <2>1 DEF Slot
  <2> QED BY <1>1, <2>1, <2>2 DEF vars, MInv, TypeOK, Lock!TypeOK, LockInv, CallInv,
                                  RingInv, After
<1>2. ASSUME NEW p \in Procs, mailbox_send(p) \/ mailbox_recv(p) \/ Step(p)
      PROVE  MInv'
  BY <1>2, BeginStep, LockStep, TestStep, StoreStep, AdvanceTailStep, IncrementStep,
     LoadStep, AdvanceHeadStep, DecrementStep, UnlockStep DEF Step
<1> QED BY <1>1, <1>2 DEF Next

(* The inductive invariant holds in every state from one mailbox_init to the
   next. *)
THEOREM MailboxInvariant ==
  Spec => []MInv
<1> QED BY InitMInv, NextMInv, PTL DEF Spec

(* Until the next mailbox_init, indices and counter stay in range, for any capacity:
   the unsigned count neither wraps below zero nor passes MAILBOX_SIZE. *)
THEOREM MailboxType ==
  Spec => []TypeOK
<1>1. MInv => TypeOK
  BY DEF MInv
<1> QED BY <1>1, MailboxInvariant, PTL

(* A step of p changes no call but that of p. *)
LEMMA CallsChange ==
  ASSUME NEW p \in Procs,
         \A q \in Procs : q # p => /\ pc'[q] = pc[q] /\ op'[q] = op[q]
                                   /\ val'[q] = val[q] /\ ret'[q] = ret[q]
  PROVE  /\ \A c : Status(p)' = c => Fifo!Becomes(p, c)
         /\ Status(p)' = Status(p) => Calls' = Calls
<1>1. \A q \in Procs : q # p => Status(q)' = Status(q)
  BY DEF Status
<1>2. \A c : Status(p)' = c => Calls' = [Calls EXCEPT ![p] = c]
  BY <1>1, Zenon DEF Calls
<1> QED BY <1>1, <1>2 DEF Fifo!Becomes, Calls

(* The steps between a call and its effect, and after it, are not seen. *)
LEMMA HiddenStep ==
  ASSUME MInv, NEW p \in Procs,
         \/ spinlock_lock(p) \/ Store(p) \/ AdvanceTail(p) \/ Load(p) \/ AdvanceHead(p)
         \/ TestCount(p) /\ pc'[p] # "unlock"
  PROVE  Calls' = Calls
<1>1. /\ \A q \in Procs : q # p => /\ pc'[q] = pc[q] /\ op'[q] = op[q]
                                   /\ val'[q] = val[q] /\ ret'[q] = ret[q]
      /\ pc[p] \notin {"idle", "unlock"} /\ pc'[p] \notin {"idle", "unlock"}
      /\ op'[p] = op[p] /\ ret'[p] = ret[p] /\ (op[p] # "recv" => val'[p] = val[p])
  <2>1. CASE spinlock_lock(p)
    BY <2>1 DEF spinlock_lock, Lock!TestAndSet, Lock!Spin, args, MInv, LockInv
  <2>2. CASE Store(p) \/ AdvanceTail(p) \/ AdvanceHead(p)
    BY <2>2 DEF Store, AdvanceTail, AdvanceHead, Holding, Goto, args, MInv, TypeOK
  <2>3. CASE Load(p)
    BY <2>3 DEF Load, Holding, Goto, MInv, TypeOK, CallInv
  <2>4. CASE TestCount(p) /\ pc'[p] # "unlock"
    BY <2>4 DEF TestCount, Holding, Goto, args, MInv, TypeOK
  <2> QED BY <2>1, <2>2, <2>3, <2>4, Zenon
<1>2. Status(p)' = Status(p)
  BY <1>1 DEF Status
<1> QED BY <1>1, <1>2, CallsChange

(* The steps that are seen. *)
LEMMA SeenStep ==
  ASSUME MInv, NEW p \in Procs
  PROVE  /\ mailbox_send(p) \/ mailbox_recv(p) => Fifo!Invoke(p)
         /\ TestCount(p) /\ pc'[p] = "unlock" => Fifo!SendFull(p) \/ Fifo!RecvEmpty(p)
         /\ Increment(p) => Fifo!Send(p)
         /\ Decrement(p) => Fifo!Recv(p)
         /\ spinlock_unlock(p) => Fifo!Return(p)
<1> USE MailboxAssumption
<1> DEFINE Others == \A q \in Procs : q # p => /\ pc'[q] = pc[q] /\ op'[q] = op[q]
                                               /\ val'[q] = val[q] /\ ret'[q] = ret[q]
<1>0. Calls[p] = Status(p)
  BY DEF Calls
<1>1. ASSUME mailbox_send(p) \/ mailbox_recv(p)
      PROVE  Fifo!Invoke(p)
  <2>1. PICK o \in {"send", "recv"}, v \in Values \cup {Null} :
          Begin(p, o, v) /\ (o = "send" => v \in Values) /\ (o = "recv" => v = Null)
    BY <1>1 DEF mailbox_send, mailbox_recv
  <2>2. /\ pc[p] = "idle" /\ op[p] = "none" /\ val[p] = Null /\ ret[p] = -1
        /\ pc'[p] = "lock" /\ op'[p] = o /\ val'[p] = v /\ ret'[p] = -1 /\ Others
    BY <2>1 DEF Begin, Lock!Call, Goto, MInv, TypeOK, LockInv, CallInv
  <2>3. Status(p) = Fifo!Idle /\ Status(p)' = Fifo!Call("called", o, v, -1)
    BY <2>1, <2>2 DEF Status, Fifo!Idle, Fifo!Call
  <2> HIDE DEF Others
  <2>4. Fifo!Becomes(p, Fifo!Call("called", o, v, -1))
    BY <2>2, <2>3, CallsChange DEF Others
  <2>5. Queue' = Queue
    BY <1>1, BeginStep
  <2> QED BY <1>0, <2>1, <2>3, <2>4, <2>5 DEF Fifo!Invoke
<1>2. ASSUME TestCount(p), pc'[p] = "unlock"
      PROVE  Fifo!SendFull(p) \/ Fifo!RecvEmpty(p)
  <2>1. /\ pc[p] = "lock" /\ op'[p] = op[p] /\ val'[p] = val[p] /\ ret'[p] = -1
        /\ ret[p] = -1 /\ Others
    BY <1>2 DEF TestCount, Holding, Goto, args, MInv, TypeOK, CallInv
  <2>2. \/ op[p] = "send" /\ count = MAILBOX_SIZE /\ val[p] \in Values
        \/ op[p] = "recv" /\ count = 0 /\ val[p] = Null
    BY <1>2, <2>1 DEF TestCount, Goto, MInv, TypeOK, CallInv
  <2>3. /\ Status(p) = Fifo!Call("called", op[p], val[p], -1)
        /\ Status(p)' = Fifo!Call("done", op[p], val[p], -1)
    BY <1>2, <2>1, <2>2 DEF Status, Fifo!Call
  <2>4. Fifo!Becomes(p, Fifo!Call("done", op[p], val[p], -1))
    BY <2>1, <2>3, CallsChange
  <2>5. Queue' = Queue /\ Len(Queue) = count
    BY <1>2, TestStep DEF Queue, MInv, TypeOK
  <2>6. count = 0 => Queue = <<>>
    BY DEF Queue
  <2> QED BY <1>0, <2>2, <2>3, <2>4, <2>5, <2>6 DEF Fifo!SendFull, Fifo!RecvEmpty
<1>3. ASSUME Increment(p)
      PROVE  Fifo!Send(p)
  <2>1. /\ pc[p] = "inc" /\ pc'[p] = "unlock" /\ op'[p] = op[p] /\ val'[p] = val[p]
        /\ ret'[p] = 0 /\ ret[p] = -1 /\ op[p] = "send" /\ val[p] \in Values /\ Others
    BY <1>3 DEF Increment, Holding, Goto, MInv, TypeOK, CallInv
  <2>2. /\ Status(p) = Fifo!Call("called", "send", val[p], -1)
        /\ Status(p)' = Fifo!Call("done", "send", val[p], 0)
    BY <2>1 DEF Status, Fifo!Call
  <2>3. Fifo!Becomes(p, Fifo!Call("done", "send", val[p], 0))
    BY <2>1, <2>2, CallsChange
  <2>4. Queue' = Append(Queue, val[p]) /\ Len(Queue) < MAILBOX_SIZE
    BY <1>3, IncrementStep
  <2> QED BY <1>0, <2>1, <2>2, <2>3, <2>4 DEF Fifo!Send
<1>4. ASSUME Decrement(p)
      PROVE  Fifo!Recv(p)
  <2>1. /\ pc[p] = "dec" /\ pc'[p] = "unlock" /\ op'[p] = op[p] /\ val'[p] = val[p]
        /\ ret'[p] = 0 /\ ret[p] = -1 /\ op[p] = "recv" /\ Others
    BY <1>4 DEF Decrement, Holding, Goto, MInv, TypeOK, CallInv
  <2>2. /\ Status(p) = Fifo!Call("called", "recv", Null, -1)
        /\ Status(p)' = Fifo!Call("done", "recv", val[p], 0)
    BY <2>1 DEF Status, Fifo!Call
  <2>3. Fifo!Becomes(p, Fifo!Call("done", "recv", val[p], 0))
    BY <2>1, <2>2, CallsChange
  <2>4. Queue # <<>> /\ Queue' = Tail(Queue) /\ Head(Queue) = val[p]
    BY <1>4, DecrementStep
  <2> QED BY <1>0, <2>2, <2>3, <2>4 DEF Fifo!Recv
<1>5. ASSUME spinlock_unlock(p)
      PROVE  Fifo!Return(p)
  <2>1. /\ pc[p] = "unlock" /\ pc'[p] = "idle" /\ op'[p] = "none" /\ val'[p] = Null
        /\ ret'[p] = -1 /\ Others
    BY <1>5 DEF spinlock_unlock, Goto, MInv, TypeOK
  <2>2. Status(p).st = "done" /\ Status(p)' = Fifo!Idle
    BY <2>1 DEF Status, Fifo!Idle, Fifo!Call
  <2>3. Fifo!Becomes(p, Fifo!Idle)
    BY <2>1, <2>2, CallsChange
  <2>4. Queue' = Queue
    BY <1>5, UnlockStep
  <2> QED BY <1>0, <2>2, <2>3, <2>4 DEF Fifo!Return
<1> QED BY <1>1, <1>2, <1>3, <1>4, <1>5

(* From one mailbox_init to the next the mailbox is linearizable: it implements
   BoundedFifo, for any number of processes that run in parallel, any MAILBOX_SIZE
   and anything the last owner left in buffer. *)
THEOREM MailboxFifo ==
  Spec => Linearizable
<1>1. Init => Fifo!Init
  <2> SUFFICES ASSUME Init PROVE Fifo!Init
    OBVIOUS
  <2>1. \A p \in Procs : Status(p) = Fifo!Idle
    BY DEF Init, Status, Fifo!Idle, Fifo!Call
  <2>2. Calls = [p \in Procs |-> Fifo!Idle]
    BY <2>1 DEF Calls
  <2> QED BY <2>2, InitMInv DEF Fifo!Init
<1>2. MInv /\ [Next]_vars => [Fifo!Next]_<<Queue, Calls>>
  <2> SUFFICES ASSUME MInv, [Next]_vars PROVE [Fifo!Next]_<<Queue, Calls>>
    OBVIOUS
  <2>1. CASE UNCHANGED vars
    BY <2>1 DEF vars, Queue, Slot, First, Calls, Status
  <2>2. ASSUME NEW p \in Procs, mailbox_send(p) \/ mailbox_recv(p) \/ Step(p)
        PROVE  [Fifo!Next]_<<Queue, Calls>>
    <3>1. CASE \/ spinlock_lock(p) \/ Store(p) \/ AdvanceTail(p) \/ Load(p)
               \/ AdvanceHead(p)
               \/ TestCount(p) /\ pc'[p] # "unlock"
      BY <3>1, HiddenStep, LockStep, TestStep, StoreStep, AdvanceTailStep, LoadStep,
         AdvanceHeadStep
    <3>2. CASE \/ mailbox_send(p) \/ mailbox_recv(p)
               \/ TestCount(p) /\ pc'[p] = "unlock"
               \/ Increment(p) \/ Decrement(p) \/ spinlock_unlock(p)
      BY <3>2, SeenStep DEF Fifo!Next
    <3> QED BY <2>2, <3>1, <3>2 DEF Step
  <2> QED BY <2>1, <2>2 DEF Next
<1> QED BY <1>1, <1>2, MailboxInvariant, PTL DEF Spec, Linearizable, Fifo!Spec
-----------------------------------------------------------------------------
(* What is left when mailbox_init comes at any moment: a process that has loaded an
   index to update it has loaded one of the ring. *)
ReuseInv ==
  /\ IndicesInside /\ count \in 0..(SIZE_T - 1)
  /\ pc = [p \in Procs |-> pc[p]] /\ lpc = [p \in Procs |-> lpc[p]]
  /\ reg \in [Procs -> (0..(SIZE_T - 1)) \cup {Null}]
  /\ \A p \in Procs : pc[p] \in {"tail", "head"} /\ reg[p] # Null => reg[p] \in Index
  /\ \A p \in Procs : reg[p] # Null => pc[p] \in Updates /\ lpc[p] = "critical"

(* The load half of an update. *)
LEMMA FetchReuse ==
  ASSUME ReuseInv, NEW p \in Procs, Fetch(p)
  PROVE  ReuseInv'
<1> USE MailboxAssumption
<1>1. /\ UNCHANGED <<head, tail, count, pc, lpc>>
      /\ pc[p] \in Updates /\ lpc[p] = "critical"
      /\ \A q \in Procs : q # p => reg'[q] = reg[q]
      /\ reg' \in [Procs -> (0..(SIZE_T - 1)) \cup {Null}]
      /\ pc[p] = "tail" => reg'[p] = tail
      /\ pc[p] = "head" => reg'[p] = head
  BY DEF Fetch, Holding, vars, ReuseInv, IndicesInside, Index
<1> QED BY <1>1 DEF ReuseInv, IndicesInside

(* The store half. *)
LEMMA PutReuse ==
  ASSUME ReuseInv, NEW p \in Procs, Put(p)
  PROVE  ReuseInv'
<1> USE MailboxAssumption
<1>1. PICK l \in {"inc", "dec", "unlock"} :
        /\ pc' = [pc EXCEPT ![p] = l] /\ reg' = [reg EXCEPT ![p] = Null]
        /\ UNCHANGED lpc
  BY DEF Put, Goto
<1>2. head' \in Index /\ tail' \in Index
  BY AfterIndex, SMTT(30) DEF Put, ReuseInv, IndicesInside
<1>3. count' \in 0..(SIZE_T - 1)
  <2>1. CASE UNCHANGED count
    BY <2>1 DEF ReuseInv
  <2>2. CASE count' = Plus(reg[p], 1) \/ count' = Plus(reg[p], -1)
    <3>1. reg[p] \in 0..(SIZE_T - 1)
      BY DEF Put, ReuseInv
    <3> QED BY <2>2, <3>1 DEF Plus
  <2> QED BY <2>1, <2>2 DEF Put
<1> QED BY <1>1, <1>2, <1>3 DEF ReuseInv, IndicesInside

(* The other steps of a call: the process has no update under way. *)
LEMMA CallReuse ==
  ASSUME ReuseInv, NEW p \in Procs, reg[p] = Null,
         \A q \in Procs : q # p => pc'[q] = pc[q] /\ lpc'[q] = lpc[q],
         pc' = [q \in Procs |-> pc'[q]], lpc' = [q \in Procs |-> lpc'[q]],
         UNCHANGED <<head, tail, count, reg>>
  PROVE  ReuseInv'
BY DEF ReuseInv, IndicesInside

(* Every step keeps the invariant. *)
LEMMA NextReuse ==
  ASSUME ReuseInv, [ReuseNext]_reuseVars
  PROVE  ReuseInv'
<1> USE MailboxAssumption
<1>1. CASE UNCHANGED reuseVars
  BY <1>1 DEF reuseVars, vars, ReuseInv, IndicesInside
<1>2. CASE mailbox_init
  BY <1>2 DEF mailbox_init, ReuseInv, IndicesInside, Index
<1>3. ASSUME NEW p \in Procs, mailbox_send(p) \/ mailbox_recv(p) \/ spinlock_lock(p)
                              \/ TestCount(p) \/ Store(p) \/ Load(p) \/ spinlock_unlock(p),
             UNCHANGED <<ipc, reg>>
      PROVE  ReuseInv'
  <2>1. reg[p] = Null
    <3>1. lpc[p] # "critical" \/ pc[p] \notin Updates
      BY <1>3 DEF mailbox_send, mailbox_recv, Begin, Lock!Call, spinlock_lock,
                  Lock!TestAndSet, Lock!Spin, TestCount, Store, Load, Holding,
                  spinlock_unlock, Updates
    <3> QED BY <3>1 DEF ReuseInv
  <2>2. /\ \E l : pc' = [pc EXCEPT ![p] = l] \/ pc' = pc
        /\ \E m : lpc' = [lpc EXCEPT ![p] = m] \/ lpc' = lpc
        /\ UNCHANGED <<head, tail, count, reg>>
    <3>1. CASE mailbox_send(p) \/ mailbox_recv(p)
      BY <1>3, <3>1 DEF mailbox_send, mailbox_recv, Begin, Lock!Call, Goto, ring
    <3>2. CASE spinlock_lock(p)
      BY <1>3, <3>2 DEF spinlock_lock, Lock!TestAndSet, Lock!Spin, ring
    <3>3. CASE TestCount(p)
      BY <1>3, <3>3 DEF TestCount, Goto, ring
    <3>4. CASE Store(p) \/ Load(p)
      BY <1>3, <3>4 DEF Store, Load, Goto, ring
    <3>5. CASE spinlock_unlock(p)
      BY <1>3, <3>5, Zenon DEF spinlock_unlock, Lock!Unlock, Goto, ring
    <3> QED BY <1>3, <3>1, <3>2, <3>3, <3>4, <3>5
  <2>3. /\ \A q \in Procs : q # p => pc'[q] = pc[q] /\ lpc'[q] = lpc[q]
        /\ pc' = [q \in Procs |-> pc'[q]] /\ lpc' = [q \in Procs |-> lpc'[q]]
    BY <2>2 DEF ReuseInv
  <2> QED BY <2>1, <2>2, <2>3, CallReuse
<1>4. ASSUME NEW p \in Procs, Fetch(p) \/ Put(p)
      PROVE  ReuseInv'
  BY <1>4, FetchReuse, PutReuse
<1> QED BY <1>1, <1>2, <1>3, <1>4 DEF ReuseNext, ReuseStep

(* Whatever mailbox_init and the calls do to each other, head and tail stay inside
   buffer, for any number of processes and any MAILBOX_SIZE. *)
THEOREM ReuseIndices ==
  ReuseSpec => []IndicesInside
<1>1. ReuseInit => ReuseInv
  BY MailboxAssumption DEF ReuseInit, Init, Lock!Init, ReuseInv, IndicesInside, Index
<1>2. ReuseInv => IndicesInside
  BY DEF ReuseInv
<1> QED BY <1>1, <1>2, NextReuse, PTL DEF ReuseSpec
=============================================================================
