----------------------------- MODULE BufferCache -----------------------------
(***************************************************************************)
(* The block buffer cache: v7/usr/sys/dev/bio.c over struct buf (h/buf.h). *)
(*                                                                         *)
(* The kernel runs one process at a time and switches only in sleep():     *)
(* cur is the process running, and a process that is not asleep waits for  *)
(* Resume (swtch).  Disk interrupts (DiskIntr) are not processes: they     *)
(* happen between any two steps below, also while cur is inside getblk or  *)
(* bwrite.  A step is therefore a stretch of code between two points where *)
(* an interrupt can make a difference; the spl6() sections are single      *)
(* steps.                                                                  *)
(*                                                                         *)
(* A block is a (device, block number) pair.  Its contents are a value.    *)
(* The ghost variable latest holds what a block may contain: the value its *)
(* owner last stored, and any value of a copy into a cached block that was *)
(* broken off by a fault since.                                            *)
(***************************************************************************)
EXTENDS Naturals, Sequences, FiniteSets

CONSTANTS
  Procs,      \* processes
  Bufs,       \* buf[NBUF]
  Blocks,     \* (device, block number) pairs that are read and written
  NODEV,      \* b_dev of a buffer that holds no block
  DevOf,      \* the device of a block
  TapeDevs,   \* the devices whose d_tab has B_TAPE
  Values,     \* contents of a block
  Null,       \* no process, no buffer, not asleep
  FreeChan,   \* the sleep channel &bfreelist
  Ops,        \* the operations the processes call
  IOErrors    \* whether a transfer may fail

Flags == {"READ", "DONE", "ERROR", "BUSY", "WANTED", "AGE", "ASYNC", "DELWRI"}

AllOps == {"bread", "breada", "getblk", "geteblk", "bflush"}

ASSUME BufferAssumption ==
  /\ NODEV \notin Blocks
  /\ Null \notin Procs \cup Bufs
  /\ FreeChan \notin Bufs \cup {Null}
  /\ IsFiniteSet(Bufs) /\ Cardinality(Bufs) \in Nat /\ Bufs # {}
  /\ Values # {}
  /\ Ops \subseteq AllOps
  /\ IOErrors \in BOOLEAN

VARIABLES
  b_blk,      \* b_dev and b_blkno of each buffer
  b_flags,    \* b_flags of each buffer, the set of its flags
  b_data,     \* the block in the buffer
  bfreelist,  \* the available list, av_forw order
  flwanted,   \* B_WANTED of bfreelist
  active,     \* buffers handed to d_strategy whose iodone is outstanding
  disk,       \* the blocks on the devices
  cur,        \* the process running in the kernel
  chan,       \* what a process sleeps on
  pc,         \* where each process is
  u,          \* a process's arguments and locals
  latest      \* ghost: the values each block may contain

bufVars  == <<b_blk, b_flags, bfreelist, flwanted>>
dataVars == <<b_data, disk, latest>>
vars == <<b_blk, b_flags, b_data, bfreelist, flwanted, active, disk, cur,
          chan, pc, u, latest>>

(***************************************************************************)
(* Where a process can be:                                                 *)
(*   user     outside the buffer code, holding nothing                     *)
(*   search   top of getblk's loop          geteblk  top of geteblk's loop *)
(*   hit      a chain entry matched, spl6() not yet called                 *)
(*   take     no entry matched, the free list comes next                   *)
(*   flushed  getblk, geteblk or bflush have started an asynchronous       *)
(*            bwrite and are about to age the buffer                       *)
(*   got      getblk has returned u.hit     bflush   top of bflush's loop  *)
(*   ahead    breada has dealt with its first block                        *)
(*   iowait   waiting for the read of u.bp                                 *)
(*   own      the caller has u.bp           dirty    and has stored into it*)
(*   wwait    bwrite of u.bp has called d_strategy and waits               *)
(*   aged     the same for bawrite of a delayed write, about to age it     *)
(*   wild     about to index bdevsw with the major number of NODEV         *)
(***************************************************************************)
Labels == {"user", "search", "geteblk", "hit", "take", "flushed", "got",
           "bflush", "ahead", "iowait", "own", "dirty", "wwait", "aged",
           "wild"}

Locals == [op   : AllOps \cup {"none"},
           blk  : Blocks \cup {NODEV},    \* what getblk is looking for
           ra   : Blocks \cup {NODEV},    \* rablkno, NODEV once dealt with
           redo : Blocks \cup {NODEV},    \* blkno, when breada found it incore
           hit  : Bufs \cup {Null},       \* the buffer a callee works on
           bp   : Bufs \cup {Null}]       \* the buffer the caller will own

Nothing == [op |-> "none", blk |-> NODEV, ra |-> NODEV, redo |-> NODEV,
            hit |-> Null, bp |-> Null]

TypeOK ==
  /\ b_blk \in [Bufs -> Blocks \cup {NODEV}]
  /\ b_flags \in [Bufs -> SUBSET Flags]
  /\ b_data \in [Bufs -> Values]
  /\ bfreelist \in Seq(Bufs)
  /\ flwanted \in BOOLEAN
  /\ active \in SUBSET Bufs
  /\ disk \in [Blocks -> Values]
  /\ cur \in Procs \cup {Null}
  /\ chan \in [Procs -> Bufs \cup {FreeChan, Null}]
  /\ pc \in [Procs -> Labels]
  /\ u \in [Procs -> Locals]
  /\ latest \in [Blocks -> SUBSET Values]

(* b is on the list s; no element is on it twice. *)
On(b, s) == \E i \in DOMAIN s : s[i] = b
Once(s) == \A i, j \in DOMAIN s : s[i] = s[j] => i = j

(* binit: every buffer is free and holds no block. *)
Init ==
  /\ b_blk = [b \in Bufs |-> NODEV]
  /\ b_flags = [b \in Bufs |-> {}]
  /\ \E v \in Values : /\ b_data = [b \in Bufs |-> v]
                       /\ disk = [k \in Blocks |-> v]
                       /\ latest = [k \in Blocks |-> {v}]
  /\ bfreelist \in [1..Cardinality(Bufs) -> Bufs]
  /\ Once(bfreelist) /\ \A b \in Bufs : On(b, bfreelist)
  /\ flwanted = FALSE
  /\ active = {}
  /\ cur = Null
  /\ chan = [p \in Procs |-> Null]
  /\ pc = [p \in Procs |-> "user"]
  /\ u = [p \in Procs |-> Nothing]
-----------------------------------------------------------------------------
(***************************************************************************)
(* The routines bio.c is built from.                                       *)
(***************************************************************************)

(* Mutant of wakeup: only one of the sleepers. *)
wakeupOne(channels) ==
  LET woken == {p \in Procs : chan[p] \in channels}
  IN  chan' = [p \in Procs |-> IF woken # {} /\ p = (CHOOSE q \in woken : TRUE)
                               THEN Null ELSE chan[p]]

(* wakeup: everyone asleep on one of the channels is runnable again. *)
wakeup(channels) ==
  chan' = [p \in Procs |-> IF chan[p] \in channels THEN Null ELSE chan[p]]

(* Mutant of sleep: on the process instead of the buffer. *)
sleepWrongChan(p, c) == chan' = [chan EXCEPT ![p] = p] /\ cur' = Null

(* sleep: give up the processor until a wakeup on c. *)
sleep(p, c) == chan' = [chan EXCEPT ![p] = c] /\ cur' = Null

(* Take the buffer b out of the available list. *)
Unlink(s, b) ==
  LET i == CHOOSE j \in 1..Len(s) : s[j] = b
  IN  [j \in 1..(Len(s) - 1) |-> IF j < i THEN s[j] ELSE s[j + 1]]

(* notavail: the buffer leaves the available list with flags f and BUSY. *)
notavail(b, f) ==
  /\ bfreelist' = Unlink(bfreelist, b)
  /\ b_flags' = [b_flags EXCEPT ![b] = f \cup {"BUSY"}]

(* Mutants of brelse: the waiters for any buffer are forgotten; a buffer in error
   keeps its block; nobody waiting for this buffer is woken. *)
brelseNoFreeWakeup(b, f) ==
  /\ wakeup(IF "WANTED" \in f THEN {b} ELSE {})
  /\ bfreelist' = IF "AGE" \in f THEN <<b>> \o bfreelist ELSE Append(bfreelist, b)
  /\ b_flags' = [b_flags EXCEPT ![b] = f \ {"WANTED", "BUSY", "ASYNC", "AGE"}]
  /\ UNCHANGED <<b_blk, flwanted>>

brelseKeepsError(b, f) ==
  /\ wakeup((IF "WANTED" \in f THEN {b} ELSE {}) \cup
            (IF flwanted THEN {FreeChan} ELSE {}))
  /\ flwanted' = FALSE
  /\ bfreelist' = Append(bfreelist, b)
  /\ b_flags' = [b_flags EXCEPT ![b] = f \ {"WANTED", "BUSY", "ASYNC", "AGE"}]
  /\ UNCHANGED b_blk

(* brelse of a buffer whose flags are f. *)
brelse(b, f) ==
  /\ wakeup((IF "WANTED" \in f THEN {b} ELSE {}) \cup
            (IF flwanted THEN {FreeChan} ELSE {}))
  /\ flwanted' = FALSE
  /\ b_blk' = IF "ERROR" \in f THEN [b_blk EXCEPT ![b] = NODEV] ELSE b_blk
  /\ bfreelist' = IF "AGE" \in f THEN <<b>> \o bfreelist ELSE Append(bfreelist, b)
  /\ b_flags' = [b_flags EXCEPT ![b] = f \ {"WANTED", "BUSY", "ASYNC", "AGE"}]

(* Mutants of WriteFlags: B_DONE, or B_READ, stays set. *)
WriteFlagsDone(f) == f \ {"READ", "ERROR", "DELWRI", "AGE"}
WriteFlagsRead(f) == f \ {"DONE", "ERROR", "DELWRI", "AGE"}

(* The flags bwrite and the read paths hand to d_strategy. *)
WriteFlags(f) == f \ {"READ", "DONE", "ERROR", "DELWRI", "AGE"}

(* Mutant of incore: only the buffers on the available list are looked at. *)
incoreFree(k) == \E b \in Bufs : b_blk[b] = k /\ "BUSY" \notin b_flags[b]

(* The searches of incore and getblk through the device's chain. *)
incore(k) == \E b \in Bufs : b_blk[b] = k

Goto(p, l) == pc' = [pc EXCEPT ![p] = l]
At(p, l) == cur = p /\ pc[p] = l

(* A buffer of its own: the caller goes back to user mode with none. *)
Return(p) ==
  /\ Goto(p, "user")
  /\ u' = [u EXCEPT ![p] = Nothing]
  /\ cur' = Null
-----------------------------------------------------------------------------
(***************************************************************************)
(* System calls that come to use the cache, and the scheduler.             *)
(***************************************************************************)
Bread(p, k) ==
  /\ "bread" \in Ops
  /\ u' = [u EXCEPT ![p] = [Nothing EXCEPT !.op = "bread", !.blk = k]]
  /\ Goto(p, "search")

(* writei of a whole block, exece, alloc, free, update: getblk without reading. *)
Getblk(p, k) ==
  /\ "getblk" \in Ops
  /\ u' = [u EXCEPT ![p] = [Nothing EXCEPT !.op = "getblk", !.blk = k]]
  /\ Goto(p, "search")

(* breada up to its first getblk: a block that is incore is left for later.
   ra = NODEV is rablkno = 0, no read-ahead. *)
Breada(p, k, ra) ==
  /\ "breada" \in Ops
  /\ IF incore(k)
     THEN /\ u' = [u EXCEPT ![p] = [Nothing EXCEPT !.op = "breada", !.ra = ra, !.redo = k]]
          /\ Goto(p, "ahead")
     ELSE /\ u' = [u EXCEPT ![p] = [Nothing EXCEPT !.op = "breada", !.ra = ra, !.blk = k]]
          /\ Goto(p, "search")

Geteblk(p) ==
  /\ "geteblk" \in Ops
  /\ u' = [u EXCEPT ![p] = [Nothing EXCEPT !.op = "geteblk"]]
  /\ Goto(p, "geteblk")

(* bflush(dev), or bflush(NODEV) for all devices: ra = NODEV stands for all,
   otherwise for the device of the block. *)
Bflush(p, k) ==
  /\ "bflush" \in Ops
  /\ u' = [u EXCEPT ![p] = [Nothing EXCEPT !.op = "bflush", !.ra = k]]
  /\ Goto(p, "bflush")

Syscall(p) ==
  /\ cur = Null /\ pc[p] = "user"
  /\ cur' = p
  /\ \/ \E k \in Blocks : Bread(p, k) \/ Getblk(p, k)
     \/ \E k \in Blocks, ra \in Blocks \cup {NODEV} :
          /\ ra # k /\ (ra # NODEV => DevOf[ra] = DevOf[k])
          /\ Breada(p, k, ra)
     \/ Geteblk(p)
     \/ \E k \in Blocks \cup {NODEV} : Bflush(p, k)
  /\ UNCHANGED <<bufVars, dataVars, active, chan>>

(* swtch: a process that is not asleep gets the processor back. *)
Resume(p) ==
  /\ cur = Null /\ pc[p] # "user" /\ chan[p] = Null
  /\ cur' = p
  /\ UNCHANGED <<bufVars, dataVars, active, chan, pc, u>>
-----------------------------------------------------------------------------
(***************************************************************************)
(* getblk and geteblk.                                                     *)
(***************************************************************************)
SearchHit(p) ==
  /\ At(p, "search")
  /\ \E b \in Bufs : /\ b_blk[b] = u[p].blk
                     /\ u' = [u EXCEPT ![p].hit = b]
  /\ Goto(p, "hit")
  /\ UNCHANGED <<bufVars, dataVars, active, cur, chan>>

SearchMiss(p) ==
  /\ At(p, "search") /\ ~incore(u[p].blk)
  /\ Goto(p, "take")
  /\ UNCHANGED <<bufVars, dataVars, active, cur, chan, u>>

(* Mutant of HitBusy: after the sleep the buffer is taken without a search. *)
HitBusyStale(p) ==
  /\ At(p, "hit")
  /\ LET b == u[p].hit IN
       /\ "BUSY" \in b_flags[b]
       /\ b_flags' = [b_flags EXCEPT ![b] = @ \cup {"WANTED"}]
       /\ sleep(p, b)
  /\ UNCHANGED <<b_blk, bfreelist, flwanted, dataVars, active, pc, u>>

(* The entry that matched is busy: wait for it and search again. *)
HitBusy(p) ==
  /\ At(p, "hit")
  /\ LET b == u[p].hit IN
       /\ "BUSY" \in b_flags[b]
       /\ b_flags' = [b_flags EXCEPT ![b] = @ \cup {"WANTED"}]
       /\ sleep(p, b)
  /\ Goto(p, "search")
  /\ UNCHANGED <<b_blk, bfreelist, flwanted, dataVars, active, u>>

HitFree(p) ==
  /\ At(p, "hit")
  /\ "BUSY" \notin b_flags[u[p].hit]
  /\ notavail(u[p].hit, b_flags[u[p].hit])
  /\ Goto(p, "got")
  /\ UNCHANGED <<b_blk, flwanted, dataVars, active, cur, chan, u>>

(* The available list is empty: wait for it and search again. *)
NoneFree(p) ==
  /\ At(p, "take") \/ At(p, "geteblk")
  /\ bfreelist = <<>>
  /\ flwanted' = TRUE
  /\ sleep(p, FreeChan)
  /\ pc' = [pc EXCEPT ![p] = IF @ = "take" THEN "search" ELSE @]
  /\ UNCHANGED <<b_blk, b_flags, bfreelist, dataVars, active, u>>

(* Write a delayed-write buffer out before it is given up: ASYNC, bwrite up to
   d_strategy. *)
StartFlush(p, b) ==
  /\ notavail(b, WriteFlags(b_flags[b]) \cup {"ASYNC"})
  /\ active' = active \cup {b}
  /\ u' = [u EXCEPT ![p].hit = b]
  /\ Goto(p, "flushed")
  /\ UNCHANGED <<b_blk, flwanted, dataVars, cur, chan>>

TakeDirty(p) ==
  /\ At(p, "take") \/ At(p, "geteblk")
  /\ bfreelist # <<>>
  /\ "DELWRI" \in b_flags[Head(bfreelist)]
  /\ StartFlush(p, Head(bfreelist))

(* Reassign the oldest buffer to the block (geteblk: to none). *)
TakeClean(p) ==
  /\ At(p, "take") \/ At(p, "geteblk")
  /\ bfreelist # <<>>
  /\ LET b == Head(bfreelist) IN
       /\ "DELWRI" \notin b_flags[b]
       /\ notavail(b, {})
       /\ b_blk' = [b_blk EXCEPT ![b] = u[p].blk]
       /\ \/ /\ pc[p] = "take"
             /\ u' = [u EXCEPT ![p].hit = b]
             /\ Goto(p, "got")
          \/ /\ pc[p] = "geteblk"
             /\ u' = [u EXCEPT ![p].bp = b]
             /\ Goto(p, "own")
  /\ UNCHANGED <<flwanted, dataVars, active, cur, chan>>

(* bwrite's last step for a delayed write: the buffer is aged, whoever has it
   by now.  Then the caller's loop starts again. *)
Flushed(p) ==
  /\ At(p, "flushed")
  /\ b_flags' = [b_flags EXCEPT ![u[p].hit] = @ \cup {"AGE"}]
  /\ u' = [u EXCEPT ![p].hit = Null]
  /\ Goto(p, CASE u[p].op = "bflush" -> "bflush"
                [] u[p].op = "geteblk" -> "geteblk"
                [] OTHER -> "search")
  /\ UNCHANGED <<b_blk, bfreelist, flwanted, dataVars, active, cur, chan>>

bflush(p) ==
  /\ At(p, "bflush")
  /\ LET onDev == {k \in Blocks : u[p].ra # NODEV => DevOf[k] = DevOf[u[p].ra]}
         wanted(b) == "DELWRI" \in b_flags[b] /\ b_blk[b] \in onDev
     IN  \/ \E i \in 1..Len(bfreelist) :
              /\ wanted(bfreelist[i])
              /\ \A j \in 1..(i - 1) : ~wanted(bfreelist[j])
              /\ StartFlush(p, bfreelist[i])
         \/ /\ \A i \in 1..Len(bfreelist) : ~wanted(bfreelist[i])
            /\ Return(p)
            /\ UNCHANGED <<bufVars, dataVars, active, chan>>
-----------------------------------------------------------------------------
(***************************************************************************)
(* bread and breada, once getblk has returned u.hit.                       *)
(***************************************************************************)
Strategy(b, f) ==
  /\ b_flags' = [b_flags EXCEPT ![b] = f]
  /\ active' = active \cup {b}

(* breada is at its first block until it has a buffer or has put it off. *)
FirstBlock(p) == u[p].bp = Null /\ u[p].redo = NODEV

GotFirst(p) ==
  /\ At(p, "got") /\ FirstBlock(p)
  /\ u' = [u EXCEPT ![p].bp = u[p].hit, ![p].hit = Null]
  /\ \/ /\ u[p].op = "getblk"
        /\ Goto(p, "own")
        /\ UNCHANGED <<b_flags, active>>
     \/ /\ u[p].op # "getblk"
        /\ IF "DONE" \in b_flags[u[p].hit]
           THEN UNCHANGED <<b_flags, active>>
           ELSE Strategy(u[p].hit, b_flags[u[p].hit] \cup {"READ"})
        /\ Goto(p, IF u[p].op = "breada" THEN "ahead" ELSE "iowait")
  /\ UNCHANGED <<b_blk, bfreelist, flwanted, dataVars, cur, chan>>

GotAhead(p) ==
  /\ At(p, "got") /\ ~FirstBlock(p)
  /\ LET b == u[p].hit IN
       IF "DONE" \in b_flags[b]
       THEN brelse(b, b_flags[b]) /\ UNCHANGED active
       ELSE /\ Strategy(b, b_flags[b] \cup {"READ", "ASYNC"})
            /\ UNCHANGED <<b_blk, bfreelist, flwanted, chan>>
  /\ u' = [u EXCEPT ![p].hit = Null]
  /\ Goto(p, "ahead")
  /\ UNCHANGED <<dataVars, cur>>

(* Mutant of StartAhead: the read-ahead block is not looked up first. *)
StartAheadAlways(p) ==
  /\ At(p, "ahead")
  /\ u[p].ra # NODEV
  /\ u' = [u EXCEPT ![p].blk = u[p].ra, ![p].ra = NODEV]
  /\ Goto(p, "search")
  /\ UNCHANGED <<bufVars, dataVars, active, cur, chan>>

(* rablkno && !incore(dev, rablkno): go and get it. *)
StartAhead(p) ==
  /\ At(p, "ahead")
  /\ u[p].ra # NODEV /\ ~incore(u[p].ra)
  /\ u' = [u EXCEPT ![p].blk = u[p].ra, ![p].ra = NODEV]
  /\ Goto(p, "search")
  /\ UNCHANGED <<bufVars, dataVars, active, cur, chan>>

(* Mutant of EndAhead: the read of the first block is not waited for. *)
EndAheadNoWait(p) ==
  /\ At(p, "ahead")
  /\ u[p].ra # NODEV => incore(u[p].ra)
  /\ IF u[p].redo # NODEV
     THEN /\ u' = [u EXCEPT ![p] = [Nothing EXCEPT !.op = "breada", !.blk = u[p].redo]]
          /\ Goto(p, "search")
     ELSE /\ u' = [u EXCEPT ![p].ra = NODEV]
          /\ Goto(p, "own")
  /\ UNCHANGED <<bufVars, dataVars, active, cur, chan>>

(* Otherwise wait for the first block, or bread it if it was incore: the same
   as breada with nothing to read ahead. *)
EndAhead(p) ==
  /\ At(p, "ahead")
  /\ u[p].ra # NODEV => incore(u[p].ra)
  /\ IF u[p].redo # NODEV
     THEN /\ u' = [u EXCEPT ![p] = [Nothing EXCEPT !.op = "breada", !.blk = u[p].redo]]
          /\ Goto(p, "search")
     ELSE /\ u' = [u EXCEPT ![p].ra = NODEV]
          /\ Goto(p, "iowait")
  /\ UNCHANGED <<bufVars, dataVars, active, cur, chan>>

(* iowait for a read, and for bwrite's write, which then releases. *)
iowait(p) ==
  /\ At(p, "iowait") \/ At(p, "wwait")
  /\ "DONE" \notin b_flags[u[p].bp]
  /\ sleep(p, u[p].bp)
  /\ UNCHANGED <<bufVars, dataVars, active, pc, u>>

ReadDone(p) ==
  /\ At(p, "iowait")
  /\ "DONE" \in b_flags[u[p].bp]
  /\ Goto(p, "own")
  /\ UNCHANGED <<bufVars, dataVars, active, cur, chan, u>>

WriteDone(p) ==
  /\ At(p, "wwait")
  /\ "DONE" \in b_flags[u[p].bp]
  /\ brelse(u[p].bp, b_flags[u[p].bp])
  /\ Return(p)
  /\ UNCHANGED <<dataVars, active>>
-----------------------------------------------------------------------------
(***************************************************************************)
(* What the owner of a buffer does with it.                                *)
(***************************************************************************)

(* Store into the block.  A caller of bread stores only if the read succeeded:
   iowait has set u_error otherwise, or the caller looks at B_ERROR.  A caller
   of getblk overwrites the block, and only update() looks at the flags before
   (UpdateSkips).  readi, the caller of breada, stores nothing. *)
Store(p) ==
  /\ At(p, "own")
  /\ \/ u[p].op = "getblk"
     \/ u[p].op = "bread" /\ "ERROR" \notin b_flags[u[p].bp]
  /\ \E v \in Values :
       /\ b_data' = [b_data EXCEPT ![u[p].bp] = v]
       /\ latest' = [k \in Blocks |-> IF k = b_blk[u[p].bp] THEN {v} ELSE latest[k]]
  /\ Goto(p, "dirty")
  /\ UNCHANGED <<bufVars, disk, active, cur, chan, u>>

(* writei and exece when u_error is set: the copy from user space broke off part
   of the way, or was made into a buffer whose read had failed, and brelse gives
   the buffer back as it is.  If it was cached, the block now contains v for as
   long as it stays cached. *)
StoreFails(p) ==
  /\ At(p, "own") /\ u[p].op \in {"getblk", "bread"}
  /\ LET b == u[p].bp
         cached == "DONE" \in b_flags[b] /\ "ERROR" \notin b_flags[b]
     IN  /\ \E v \in Values :
              /\ b_data' = [b_data EXCEPT ![b] = v]
              /\ latest' = [k \in Blocks |-> IF k = b_blk[b] /\ cached
                                             THEN latest[k] \cup {v} ELSE latest[k]]
         /\ brelse(b, b_flags[b])
  /\ Return(p)
  /\ UNCHANGED <<disk, active>>

(* update: a buffer that comes from getblk with B_ERROR is passed over without
   brelse, and stays busy for good. *)
UpdateSkips(p) ==
  /\ At(p, "own") /\ u[p].op = "getblk"
  /\ "ERROR" \in b_flags[u[p].bp]
  /\ Return(p)
  /\ UNCHANGED <<bufVars, dataVars, active, chan>>

(* The owner sleeps for a reason of its own, holding the buffer.  readi does not:
   it copies the block out and releases it. *)
OwnerSleeps(p) ==
  /\ At(p, "own") \/ At(p, "dirty")
  /\ u[p].op # "breada"
  /\ cur' = Null
  /\ UNCHANGED <<bufVars, dataVars, active, chan, pc, u>>

(* Mutant of Release: an early return that forgets the buffer. *)
ReleaseForgets(p) ==
  /\ At(p, "own")
  /\ Return(p)
  /\ UNCHANGED <<bufVars, dataVars, active, chan>>

(* brelse: nothing was stored. *)
Release(p) ==
  /\ At(p, "own")
  /\ brelse(u[p].bp, b_flags[u[p].bp])
  /\ Return(p)
  /\ UNCHANGED <<dataVars, active>>

bdwrite(p) ==
  /\ At(p, "dirty")
  /\ b_blk[u[p].bp] # NODEV /\ DevOf[b_blk[u[p].bp]] \notin TapeDevs
  /\ brelse(u[p].bp, b_flags[u[p].bp] \cup {"DELWRI", "DONE"})
  /\ Return(p)
  /\ UNCHANGED <<dataVars, active>>

bwrite(p) ==
  /\ At(p, "dirty")
  /\ b_blk[u[p].bp] # NODEV
  /\ Strategy(u[p].bp, WriteFlags(b_flags[u[p].bp]))
  /\ Goto(p, "wwait")
  /\ UNCHANGED <<b_blk, bfreelist, flwanted, dataVars, cur, chan, u>>

(* bawrite, and bdwrite on tape.  If the write had been delayed before, bwrite
   still ages the buffer after d_strategy. *)
bawrite(p) ==
  /\ At(p, "dirty")
  /\ b_blk[u[p].bp] # NODEV
  /\ LET f == b_flags[u[p].bp] IN
       /\ Strategy(u[p].bp, WriteFlags(f) \cup {"ASYNC"})
       /\ IF "DELWRI" \in f
          THEN Goto(p, "aged") /\ UNCHANGED <<cur, u>>
          ELSE Return(p)
  /\ UNCHANGED <<b_blk, bfreelist, flwanted, dataVars, chan>>

Aged(p) ==
  /\ At(p, "aged")
  /\ b_flags' = [b_flags EXCEPT ![u[p].bp] = @ \cup {"AGE"}]
  /\ Return(p)
  /\ UNCHANGED <<b_blk, bfreelist, flwanted, dataVars, active, chan>>

(* bwrite or bdwrite of a buffer whose b_dev is NODEV. *)
WildDevice(p) ==
  /\ At(p, "dirty") /\ b_blk[u[p].bp] = NODEV
  /\ Goto(p, "wild")
  /\ UNCHANGED <<bufVars, dataVars, active, cur, chan, u>>

(* What an index outside bdevsw leads to is not modelled: the run stops. *)
Halted(p) ==
  /\ At(p, "wild")
  /\ UNCHANGED vars
-----------------------------------------------------------------------------
(***************************************************************************)
(* The device interrupt: the transfer of b is over, and the driver calls   *)
(* iodone(b) with B_ERROR set or not.                                      *)
(***************************************************************************)
(* Mutants of iodone: every buffer is released; the waiters are not woken. *)
iodoneRelease(b, f) == brelse(b, f \cup {"DONE"})

iodoneQuiet(b, f) ==
  IF "ASYNC" \in f
  THEN brelse(b, f \cup {"DONE"})
  ELSE /\ b_flags' = [b_flags EXCEPT ![b] = (f \cup {"DONE"}) \ {"WANTED"}]
       /\ UNCHANGED <<b_blk, bfreelist, flwanted, chan>>

(* The UNIBUS map registers that iodone frees for a buffer with B_MAP belong to
   the drivers' map and have no part in the cache. *)
iodone(b, f) ==
  IF "ASYNC" \in f
  THEN brelse(b, f \cup {"DONE"})
  ELSE /\ b_flags' = [b_flags EXCEPT ![b] = (f \cup {"DONE"}) \ {"WANTED"}]
       /\ wakeup({b})
       /\ UNCHANGED <<b_blk, bfreelist, flwanted>>

(* From now on the block contains what the transfer has moved, which must be one
   of the values it may contain. *)
DiskDone(b) ==
  /\ b \in active
  /\ active' = active \ {b}
  /\ IF "READ" \in b_flags[b]
     THEN b_data' = [b_data EXCEPT ![b] = disk[b_blk[b]]] /\ UNCHANGED disk
     ELSE disk' = [disk EXCEPT ![b_blk[b]] = b_data[b]] /\ UNCHANGED b_data
  /\ latest' = [latest EXCEPT ![b_blk[b]] = @ \cap {disk'[b_blk[b]]}]
  /\ iodone(b, b_flags[b])
  /\ UNCHANGED <<cur, pc, u>>

(* A failed write: what the block holds is what the device still has. *)
DiskError(b) ==
  /\ IOErrors
  /\ b \in active
  /\ active' = active \ {b}
  /\ latest' = [latest EXCEPT ![b_blk[b]] = {disk[b_blk[b]]}]
  /\ iodone(b, b_flags[b] \cup {"ERROR"})
  /\ UNCHANGED <<b_data, disk, cur, pc, u>>
-----------------------------------------------------------------------------
Kernel(p) ==
  \/ SearchHit(p) \/ SearchMiss(p) \/ HitBusy(p) \/ HitFree(p) \/ NoneFree(p)
  \/ TakeDirty(p) \/ TakeClean(p) \/ Flushed(p) \/ bflush(p)
  \/ GotFirst(p) \/ GotAhead(p) \/ StartAhead(p) \/ EndAhead(p)
  \/ iowait(p) \/ ReadDone(p) \/ WriteDone(p)
  \/ Store(p) \/ StoreFails(p) \/ UpdateSkips(p) \/ Release(p)
  \/ bdwrite(p) \/ bwrite(p) \/ bawrite(p) \/ Aged(p) \/ WildDevice(p)

Process(p) == Syscall(p) \/ Resume(p) \/ Kernel(p) \/ OwnerSleeps(p) \/ Halted(p)

Next ==
  \/ \E p \in Procs : Process(p)
  \/ \E b \in Bufs : DiskDone(b) \/ DiskError(b)

Spec == Init /\ [][Next]_vars

(* The running process goes on, swtch lets every runnable process run, and a
   device finishes what it was given. *)
Fairness ==
  /\ \A p \in Procs : SF_vars(Kernel(p)) /\ SF_vars(Resume(p))
  /\ \A b \in Bufs : WF_vars(DiskDone(b) \/ DiskError(b))

FairSpec == Spec /\ Fairness
-----------------------------------------------------------------------------
(* buf.h: "A buffer is on the available list, and is liable to be reassigned to
   another disk block, if and only if it is not marked BUSY", and it is there
   once. *)
AvailableIffNotBusy ==
  /\ \A b \in Bufs : On(b, bfreelist) <=> "BUSY" \notin b_flags[b]
  /\ Once(bfreelist)

(* getblk never leaves two buffers for one block, however many processes slept
   between looking for the block and being given a buffer. *)
OneBufferPerBlock ==
  \A b, c \in Bufs : b_blk[b] = b_blk[c] /\ b_blk[b] # NODEV => b = c

(* The buffers process p holds. *)
Holds(p, b) ==
  \/ b = u[p].bp /\ pc[p] # "aged"
  \/ b = u[p].hit /\ pc[p] = "got"

(* bio.c: "the buffer is marked "busy" so that no one else can touch it": one
   process at most holds a buffer, it is busy, and nobody looks at or stores
   into a buffer while the device transfers it. *)
ExclusiveOwner ==
  \A b \in Bufs : \A p \in Procs : Holds(p, b) =>
    /\ "BUSY" \in b_flags[b] /\ "ASYNC" \notin b_flags[b]
    /\ \A q \in Procs : Holds(q, b) => q = p
    /\ b \in active => pc[p] \notin {"own", "dirty"}

(* A block's contents are those of its buffer, if it has one that is filled,
   and otherwise those on the device. *)
Filled(b) ==
  /\ "ERROR" \notin b_flags[b]
  /\ \/ "DONE" \in b_flags[b]
     \/ b \in active /\ "READ" \notin b_flags[b]
     \/ \E p \in Procs : pc[p] = "dirty" /\ u[p].bp = b

Contents(k) ==
  IF \E b \in Bufs : b_blk[b] = k /\ Filled(b)
  THEN b_data[CHOOSE b \in Bufs : b_blk[b] = k /\ Filled(b)]
  ELSE disk[k]

(* What was last stored in a block is what the next owner finds, whatever was
   delayed, written, reassigned and read back meanwhile.  A copy broken off by a
   fault is the one exception writei leaves: the block may then contain the torn
   value or, once the buffer has been reassigned, the old one, and no other. *)
NothingLost == \A k \in Blocks : Contents(k) \in latest[k]

(* bio.c: "Eventually the buffer must be released": a busy buffer is under transfer
   or held by a process that will give it back, on every path through bread,
   breada, getblk, geteblk and the writes.  update() breaks this when getblk hands
   it a buffer in error, which takes a transfer that fails. *)
NoneForgotten ==
  \A b \in Bufs : "BUSY" \in b_flags[b] =>
    b \in active \/ \E p \in Procs : Holds(p, b)

(* No lost wakeup: who sleeps will be woken.  A waiter for a busy buffer has
   left B_WANTED on it, a waiter for a transfer has one outstanding, and a
   waiter for any buffer has left B_WANTED on an empty free list. *)
NoLostWakeup ==
  \A p \in Procs :
    /\ chan[p] = FreeChan => bfreelist = <<>> /\ flwanted
    /\ chan[p] \in Bufs =>
         /\ "BUSY" \in b_flags[chan[p]]
         /\ \/ pc[p] = "search" /\ "WANTED" \in b_flags[chan[p]]
            \/ pc[p] \in {"iowait", "wwait"} /\ chan[p] = u[p].bp
               /\ chan[p] \in active

(* The buffer that getblk returns is associated with the block that was asked
   for. *)
GotWhatWasAsked ==
  \A p \in Procs : pc[p] = "got" => b_blk[u[p].hit] = u[p].blk

(* bio.c on incore: "mainly to avoid getting hung up on a wait in breada".  When
   every process sleeps in the cache there is a transfer under way whose end
   will wake one. *)
NotHungUp == (\A p \in Procs : chan[p] # Null) => active # {}

(* A process that waits for a transfer gets out of the wait. *)
TransfersEnd ==
  \A p \in Procs : pc[p] \in {"iowait", "wwait"} ~> pc[p] \notin {"iowait", "wwait"}

(* A process that wants a buffer is not left waiting by the cache itself: once
   the others keep out, it owns the buffer or has returned. *)
WaitEnds ==
  \A p \in Procs :
    <>[](\A q \in Procs \ {p} : pc[q] = "user") => []<>(pc[p] \in {"own", "user"})
=============================================================================
