------------------------------ MODULE Mailbox ------------------------------
(***************************************************************************)
(* A mailbox of src/kernel/exo_mailbox.c, shared by processes that run in  *)
(* parallel: every access to lock, head, tail, count and buffer is a step, *)
(* and the lock is that of TestAndSetLock.  The module follows the mailbox *)
(* from one mailbox_init to the next.  MailboxReuse adds the next one,     *)
(* which may come in the middle of a call.                                 *)
(***************************************************************************)
EXTENDS Integers, FiniteSets, Sequences

CONSTANTS
  Procs,
  Values,       \* the messages
  MAILBOX_SIZE,
  SIZE_T,       \* how many values a size_t has
  Null

ASSUME MailboxAssumption ==
  /\ MAILBOX_SIZE \in Nat \ {0}
  /\ SIZE_T \in Nat /\ MAILBOX_SIZE < SIZE_T
  /\ Values # {} /\ Null \notin Values /\ Null \notin Procs

VARIABLES
  lock, lpc,    \* mb->lock, and where a process is in spinlock_lock
  head, tail, count, buffer,
  pc,           \* the assignment each process comes to next
  op, val, ret  \* its call, the message and the return value

ring == <<head, tail, count, buffer>>
args == <<op, val, ret>>
vars == <<lock, lpc, head, tail, count, buffer, pc, op, val, ret>>

Lock == INSTANCE TestAndSetLock WITH Threads <- Procs, pc <- lpc

Index == 0..(MAILBOX_SIZE - 1)

TypeOK ==
  /\ Lock!TypeOK
  /\ head \in Index /\ tail \in Index /\ count \in 0..MAILBOX_SIZE
  /\ buffer \in [Index -> Values]
  /\ pc \in [Procs -> {"idle", "lock", "store", "tail", "inc",
                       "load", "head", "dec", "unlock"}]
  /\ op \in [Procs -> {"none", "send", "recv"}]
  /\ val \in [Procs -> Values \cup {Null}]
  /\ ret \in [Procs -> {-1, 0}]

(* What mailbox_init leaves.  It does not touch buffer, where the messages of the
   last owner of the process slot still are. *)
Init ==
  /\ Lock!Init
  /\ head = 0 /\ tail = 0 /\ count = 0
  /\ buffer \in [Index -> Values]
  /\ pc = [p \in Procs |-> "idle"]
  /\ op = [p \in Procs |-> "none"]
  /\ val = [p \in Procs |-> Null]
  /\ ret = [p \in Procs |-> -1]

Goto(p, l) == pc' = [pc EXCEPT ![p] = l]

(* Mutant of After: the index does not wrap. *)
AfterNoWrap(i) == i + 1

(* The next slot of the ring. *)
After(i) == (i + 1) % MAILBOX_SIZE

(* Arithmetic on a size_t. *)
Plus(n, d) == (n + d) % SIZE_T
-----------------------------------------------------------------------------
(* A call: int ret = -1, and on to spinlock_lock. *)
Begin(p, o, v) ==
  /\ Lock!Call(p)
  /\ Goto(p, "lock")
  /\ op' = [op EXCEPT ![p] = o]
  /\ val' = [val EXCEPT ![p] = v]
  /\ UNCHANGED <<ring, ret>>

mailbox_send(p) == \E v \in Values : Begin(p, "send", v)

mailbox_recv(p) == Begin(p, "recv", Null)

spinlock_lock(p) ==
  /\ Lock!TestAndSet(p) \/ Lock!Spin(p)
  /\ UNCHANGED <<ring, pc, args>>

Holding(p, l) == pc[p] = l /\ lpc[p] = "critical"

(* Mutant of TestCount: a send goes ahead on a full mailbox. *)
TestCountOffByOne(p) ==
  /\ Holding(p, "lock")
  /\ \/ op[p] = "send" /\ Goto(p, IF count <= MAILBOX_SIZE THEN "store" ELSE "unlock")
     \/ op[p] = "recv" /\ Goto(p, IF count > 0 THEN "load" ELSE "unlock")
  /\ UNCHANGED <<lock, lpc, ring, args>>

(* if (mb->count < MAILBOX_SIZE) and if (mb->count > 0) *)
TestCount(p) ==
  /\ Holding(p, "lock")
  /\ \/ op[p] = "send" /\ Goto(p, IF count < MAILBOX_SIZE THEN "store" ELSE "unlock")
     \/ op[p] = "recv" /\ Goto(p, IF count > 0 THEN "load" ELSE "unlock")
  /\ UNCHANGED <<lock, lpc, ring, args>>

Store(p) ==
  /\ Holding(p, "store")
  /\ buffer' = [buffer EXCEPT ![tail] = val[p]]
  /\ Goto(p, "tail")
  /\ UNCHANGED <<lock, lpc, head, tail, count, args>>

AdvanceTail(p) ==
  /\ Holding(p, "tail")
  /\ tail' = After(tail)
  /\ Goto(p, "inc")
  /\ UNCHANGED <<lock, lpc, head, count, buffer, args>>

(* mb->count++; ret = 0 *)
Increment(p) ==
  /\ Holding(p, "inc")
  /\ count' = Plus(count, 1)
  /\ ret' = [ret EXCEPT ![p] = 0]
  /\ Goto(p, "unlock")
  /\ UNCHANGED <<lock, lpc, head, tail, buffer, op, val>>

Load(p) ==
  /\ Holding(p, "load")
  /\ val' = [val EXCEPT ![p] = buffer[head]]
  /\ Goto(p, "head")
  /\ UNCHANGED <<lock, lpc, ring, op, ret>>

AdvanceHead(p) ==
  /\ Holding(p, "head")
  /\ head' = After(head)
  /\ Goto(p, "dec")
  /\ UNCHANGED <<lock, lpc, tail, count, buffer, args>>

(* mb->count--; ret = 0 *)
Decrement(p) ==
  /\ Holding(p, "dec")
  /\ count' = Plus(count, -1)
  /\ ret' = [ret EXCEPT ![p] = 0]
  /\ Goto(p, "unlock")
  /\ UNCHANGED <<lock, lpc, head, tail, buffer, op, val>>

(* Mutant of spinlock_unlock: a call that fails returns with the lock held. *)
UnlockIfDone(p) ==
  /\ pc[p] = "unlock"
  /\ lock' = IF ret[p] = 0 THEN 0 ELSE lock
  /\ lpc' = [lpc EXCEPT ![p] = "idle"]
  /\ Goto(p, "idle")
  /\ op' = [op EXCEPT ![p] = "none"]
  /\ val' = [val EXCEPT ![p] = Null]
  /\ ret' = [ret EXCEPT ![p] = -1]
  /\ UNCHANGED ring

(* spinlock_unlock; return ret *)
spinlock_unlock(p) ==
  /\ pc[p] = "unlock"
  /\ Lock!Unlock(p)
  /\ Goto(p, "idle")
  /\ op' = [op EXCEPT ![p] = "none"]
  /\ val' = [val EXCEPT ![p] = Null]
  /\ ret' = [ret EXCEPT ![p] = -1]
  /\ UNCHANGED ring

Step(p) ==
  \/ spinlock_lock(p) \/ TestCount(p)
  \/ Store(p) \/ AdvanceTail(p) \/ Increment(p)
  \/ Load(p) \/ AdvanceHead(p) \/ Decrement(p)
  \/ spinlock_unlock(p)

Next == \E p \in Procs : mailbox_send(p) \/ mailbox_recv(p) \/ Step(p)

Spec == Init /\ [][Next]_vars
-----------------------------------------------------------------------------
(* The messages in the mailbox, oldest first.  A receiver that has moved head and
   not yet counted down still has its message there. *)
First ==
  IF \E p \in Procs : pc[p] = "dec"
  THEN IF head = 0 THEN MAILBOX_SIZE - 1 ELSE head - 1
  ELSE head

Slot(i) ==
  IF First + i < MAILBOX_SIZE THEN First + i ELSE First + i - MAILBOX_SIZE

Queue == [i \in 1..count |-> buffer[Slot(i - 1)]]

(* How far a call is: it takes effect when count changes or the test fails. *)
Status(p) ==
  [st  |-> IF pc[p] = "idle" THEN "idle"
           ELSE IF pc[p] = "unlock" THEN "done" ELSE "called",
   op  |-> op[p],
   val |-> IF op[p] = "recv" /\ pc[p] # "unlock" THEN Null ELSE val[p],
   ret |-> ret[p]]

Calls == [p \in Procs |-> Status(p)]

Fifo == INSTANCE BoundedFifo WITH queue <- Queue, call <- Calls

(* Calls of mailbox_send and mailbox_recv that overlap behave as if each happened
   at once: no message is lost, repeated or reordered, none that the last owner of
   the mailbox left in buffer is received, and a call fails only on a queue that is
   full or empty at some moment of the call. *)
Linearizable == Fifo!Spec

(* The lock does not stop the mailbox: as long as calls are under way, calls
   return, even when a mailbox_init frees the lock under its holder. *)
CallsReturn ==
  (\E p \in Procs : pc[p] # "idle") ~> (\E p \in Procs : pc[p] = "unlock")
=============================================================================
