----------------------------- MODULE BoundedFifo -----------------------------
(***************************************************************************)
(* What a mailbox promises to callers that run in parallel: every call of  *)
(* mailbox_send and mailbox_recv takes effect at one moment between its    *)
(* call and its return, on a queue of at most MAILBOX_SIZE values.         *)
(***************************************************************************)
EXTENDS Integers, Sequences

CONSTANTS Procs, Values, MAILBOX_SIZE, Null

VARIABLES
  queue,      \* the messages sent and not received
  call        \* the call each process is in: what and how far

Call(st, op, val, ret) == [st |-> st, op |-> op, val |-> val, ret |-> ret]

Idle == Call("idle", "none", Null, -1)

Init == queue = <<>> /\ call = [p \in Procs |-> Idle]

Becomes(p, c) == call' = [call EXCEPT ![p] = c]

Invoke(p) ==
  /\ call[p] = Idle
  /\ \/ \E v \in Values : Becomes(p, Call("called", "send", v, -1))
     \/ Becomes(p, Call("called", "recv", Null, -1))
  /\ UNCHANGED queue

Send(p) ==
  \E v \in Values :
    /\ call[p] = Call("called", "send", v, -1)
    /\ Len(queue) < MAILBOX_SIZE
    /\ queue' = Append(queue, v)
    /\ Becomes(p, Call("done", "send", v, 0))

SendFull(p) ==
  \E v \in Values :
    /\ call[p] = Call("called", "send", v, -1)
    /\ Len(queue) = MAILBOX_SIZE
    /\ Becomes(p, Call("done", "send", v, -1))
    /\ UNCHANGED queue

Recv(p) ==
  /\ call[p] = Call("called", "recv", Null, -1)
  /\ queue # <<>>
  /\ Becomes(p, Call("done", "recv", Head(queue), 0))
  /\ queue' = Tail(queue)

RecvEmpty(p) ==
  /\ call[p] = Call("called", "recv", Null, -1)
  /\ queue = <<>>
  /\ Becomes(p, Call("done", "recv", Null, -1))
  /\ UNCHANGED queue

Return(p) ==
  /\ call[p].st = "done"
  /\ Becomes(p, Idle)
  /\ UNCHANGED queue

Next ==
  \E p \in Procs : \/ Invoke(p) \/ Send(p) \/ SendFull(p)
                   \/ Recv(p) \/ RecvEmpty(p) \/ Return(p)

Spec == Init /\ [][Next]_<<queue, call>>
=============================================================================
