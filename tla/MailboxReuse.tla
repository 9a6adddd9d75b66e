---------------------------- MODULE MailboxReuse ----------------------------
(***************************************************************************)
(* A mailbox whose process slot is used again.  newproc calls mailbox_init *)
(* on it with no lock and no look at who is in mailbox_send or             *)
(* mailbox_recv, so that its four stores fall between any steps of the     *)
(* calls.  They free the lock under its holder: two processes can then be  *)
(* in the body at once, and the updates of head, tail and count, which     *)
(* Mailbox takes as one step each, are a load and a store here.            *)
(***************************************************************************)
EXTENDS Mailbox

VARIABLES
  ipc,          \* the word mailbox_init stores to next
  reg           \* the value of the word that a process is about to update

reuseVars == <<vars, ipc, reg>>

Updates == {"tail", "inc", "head", "dec"}

ReuseInit ==
  /\ Init
  /\ ipc = "lock"
  /\ reg = [p \in Procs |-> Null]

(* newproc: spinlock_init(&mb->lock), then head = 0, tail = 0 and count = 0. *)
mailbox_init ==
  /\ \/ ipc = "lock" /\ lock' = 0 /\ ipc' = "head" /\ UNCHANGED <<head, tail, count>>
     \/ ipc = "head" /\ head' = 0 /\ ipc' = "tail" /\ UNCHANGED <<lock, tail, count>>
     \/ ipc = "tail" /\ tail' = 0 /\ ipc' = "count" /\ UNCHANGED <<lock, head, count>>
     \/ ipc = "count" /\ count' = 0 /\ ipc' = "lock" /\ UNCHANGED <<lock, head, tail>>
  /\ UNCHANGED <<lpc, buffer, pc, args, reg>>

(* The load half of an update. *)
Fetch(p) ==
  /\ pc[p] \in Updates /\ Holding(p, pc[p]) /\ reg[p] = Null
  /\ reg' = [reg EXCEPT ![p] = CASE pc[p] = "tail" -> tail
                                 [] pc[p] = "head" -> head
                                 [] OTHER -> count]
  /\ UNCHANGED <<vars, ipc>>

(* The store half; ret = 0 goes with that of count. *)
Put(p) ==
  /\ reg[p] # Null
  /\ reg' = [reg EXCEPT ![p] = Null]
  /\ \/ /\ pc[p] = "tail" /\ Goto(p, "inc")
        /\ tail' = After(reg[p]) /\ UNCHANGED <<head, count, ret>>
     \/ /\ pc[p] = "head" /\ Goto(p, "dec")
        /\ head' = After(reg[p]) /\ UNCHANGED <<tail, count, ret>>
     \/ /\ pc[p] \in {"inc", "dec"} /\ Goto(p, "unlock")
        /\ count' = Plus(reg[p], IF pc[p] = "inc" THEN 1 ELSE -1)
        /\ ret' = [ret EXCEPT ![p] = 0] /\ UNCHANGED <<head, tail>>
  /\ UNCHANGED <<lock, lpc, buffer, op, val, ipc>>

ReuseStep(p) ==
  \/ /\ \/ spinlock_lock(p) \/ TestCount(p) \/ Store(p) \/ Load(p)
        \/ spinlock_unlock(p)
     /\ UNCHANGED <<ipc, reg>>
  \/ Fetch(p) \/ Put(p)

ReuseNext ==
  \/ \E p \in Procs :
       \/ (mailbox_send(p) \/ mailbox_recv(p)) /\ UNCHANGED <<ipc, reg>>
       \/ ReuseStep(p)
  \/ mailbox_init

ReuseSpec == ReuseInit /\ [][ReuseNext]_reuseVars

(* Every processor in a call goes on executing; a mailbox need never be given out
   again. *)
FairReuse == ReuseSpec /\ \A p \in Procs : WF_reuseVars(ReuseStep(p))
-----------------------------------------------------------------------------
(* Whatever mailbox_init and the calls do to each other, buffer is only indexed
   inside its MAILBOX_SIZE slots. *)
IndicesInside == head \in Index /\ tail \in Index

(* IPC.md: "A mailbox is implemented as a circular queue of fixed size slots."  It
   never holds more messages than it has slots. *)
CountInRange == count \in 0..MAILBOX_SIZE
=============================================================================
