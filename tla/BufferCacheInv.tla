--------------------------- MODULE BufferCacheInv ---------------------------
(***************************************************************************)
(* The inductive invariant of BufferCache, the lemmas about the available  *)
(* list and about what notavail, brelse and a return change, and the first *)
(* actions: those that take no buffer from the list and give none back.    *)
(***************************************************************************)
EXTENDS BufferCache, TLAPS

(***************************************************************************)
(* The inductive invariant IInv.                                           *)
(***************************************************************************)

(* Only the running process can be at these labels: none of them is followed
   by a sleep() that keeps it. *)
Transient == {"hit", "take", "flushed", "got", "bflush", "ahead", "aged", "wild"}

RunningInv ==
  \A p \in Procs :
    /\ pc[p] \in Transient => cur = p
    /\ chan[p] # Null => /\ cur # p
                         /\ pc[p] \in {"search", "geteblk", "iowait", "wwait"}

(* The locals a label needs are there. *)
LocalsInv ==
  \A p \in Procs :
    /\ pc[p] = "user" => u[p].bp = Null
    /\ pc[p] \in {"hit", "flushed", "got"} => u[p].hit \in Bufs
    /\ pc[p] \in {"iowait", "wwait", "own", "dirty", "aged"} => u[p].bp \in Bufs
    /\ pc[p] = "ahead" => ~FirstBlock(p)
    /\ pc[p] = "got" => u[p].hit # u[p].bp
    /\ pc[p] \in {"search", "hit", "take", "got"} => u[p].blk # NODEV
    /\ pc[p] = "flushed" => u[p].op \in {"bflush", "geteblk"} \/ u[p].blk # NODEV
    /\ pc[p] = "bflush" => u[p].op = "bflush"
    /\ pc[p] = "geteblk" => u[p].op = "geteblk"
    /\ u[p].op = "geteblk" => /\ u[p].blk = NODEV
                              /\ pc[p] \in {"geteblk", "flushed", "own"}
                              /\ pc[p] # "own" => u[p].bp = Null

(* A buffer under transfer is busy and not done; B_ASYNC is never left on a
   buffer that is released. *)
ActiveInv ==
  /\ \A b \in active : "BUSY" \in b_flags[b] /\ "DONE" \notin b_flags[b]
  /\ \A b \in Bufs : "ASYNC" \in b_flags[b] => "BUSY" \in b_flags[b]

(* Between the miss in getblk and the reassignment nobody brings the block in. *)
MissInv == \A p \in Procs : pc[p] = "take" => ~incore(u[p].blk)

(* A buffer getblk has just returned is not under transfer. *)
GotInv == \A p \in Procs : pc[p] = "got" => u[p].hit \notin active

(* A buffer that lost its block to an error is not read into: the search that
   matched it earlier finds it done. *)
BlockInv ==
  /\ \A b \in active : "READ" \in b_flags[b] => b_blk[b] # NODEV
  /\ \A p \in Procs : pc[p] \in {"hit", "got"} /\ b_blk[u[p].hit] = NODEV =>
       "DONE" \in b_flags[u[p].hit]

(* The buffer a process is going to wait for is filled or under transfer. *)
WaitInv ==
  \A p \in Procs :
    u[p].bp \in Bufs /\ pc[p] \notin {"own", "dirty", "aged", "wild"} =>
      u[p].bp \in active \/ "DONE" \in b_flags[u[p].bp]

SInv ==
  /\ RunningInv /\ LocalsInv /\ ActiveInv /\ MissInv /\ GotInv
  /\ BlockInv /\ WaitInv
  /\ AvailableIffNotBusy /\ OneBufferPerBlock /\ ExclusiveOwner /\ NoLostWakeup

IInv == TypeOK /\ SInv
-----------------------------------------------------------------------------
(***************************************************************************)
(* The available list as a sequence without repetitions.                   *)
(***************************************************************************)

(* brelse at the tail. *)
LEMMA AppendList ==
  ASSUME NEW S, NEW s \in Seq(S), NEW b \in S
  PROVE  /\ Append(s, b) \in Seq(S)
         /\ Append(s, b) # <<>>
         /\ \A c : On(c, Append(s, b)) <=> On(c, s) \/ c = b
         /\ Once(s) /\ ~On(b, s) => Once(Append(s, b))
<1>1. /\ Append(s, b) \in Seq(S)
      /\ Len(Append(s, b)) = Len(s) + 1
      /\ \A i \in 1..Len(s) : Append(s, b)[i] = s[i]
      /\ Append(s, b)[Len(s) + 1] = b
      /\ Len(s) \in Nat
  OBVIOUS
<1>2. DOMAIN s = 1..Len(s) /\ DOMAIN Append(s, b) = 1..(Len(s) + 1)
  BY <1>1
<1>3. \A c : On(c, Append(s, b)) <=> On(c, s) \/ c = b
  BY <1>1, <1>2 DEF On
<1>4. ASSUME Once(s), ~On(b, s) PROVE Once(Append(s, b))
  BY <1>1, <1>2, <1>4 DEF Once, On
<1>5. Append(s, b) # <<>>
  BY <1>1
<1> QED BY <1>1, <1>3, <1>4, <1>5, Zenon

(* brelse at the head, for an aged buffer. *)
LEMMA PrependList ==
  ASSUME NEW S, NEW s \in Seq(S), NEW b \in S
  PROVE  /\ <<b>> \o s \in Seq(S)
         /\ <<b>> \o s # <<>>
         /\ \A c : On(c, <<b>> \o s) <=> On(c, s) \/ c = b
         /\ Once(s) /\ ~On(b, s) => Once(<<b>> \o s)
<1> DEFINE t == <<b>> \o s
<1>1. /\ t \in Seq(S)
      /\ Len(t) = Len(s) + 1
      /\ t[1] = b
      /\ \A i \in 1..Len(s) : t[i + 1] = s[i]
      /\ Len(s) \in Nat
  OBVIOUS
<1> HIDE DEF t
<1>2. DOMAIN s = 1..Len(s) /\ DOMAIN t = 1..(Len(s) + 1)
  BY <1>1
<1>3. \A i \in DOMAIN t : i = 1 \/ (\E m \in DOMAIN s : i = m + 1 /\ t[i] = s[m])
  <2>1. \A i \in 1..(Len(s) + 1) : i = 1 \/ (\E m \in 1..Len(s) : i = m + 1)
    <3> SUFFICES ASSUME NEW i \in 1..(Len(s) + 1), i # 1
                 PROVE  \E m \in 1..Len(s) : i = m + 1
      BY Zenon
    <3>1. i - 1 \in 1..Len(s) /\ i = (i - 1) + 1
      BY <1>1
    <3> QED BY <3>1, Zenon
  <2> QED BY <1>1, <1>2, <2>1
<1>4. \A i \in DOMAIN s : i + 1 \in DOMAIN t /\ t[i + 1] = s[i]
  BY <1>1, <1>2
<1>5. 1 \in DOMAIN t
  BY <1>1, <1>2
<1>6. t # <<>>
  BY <1>1
<1>7. \A c : On(c, t) <=> On(c, s) \/ c = b
  BY <1>1, <1>3, <1>4, <1>5 DEF On
<1>8. ASSUME Once(s), ~On(b, s) PROVE Once(t)
  BY <1>1, <1>2, <1>3, <1>8 DEF Once, On
<1> QED BY <1>1, <1>6, <1>7, <1>8, Zenon DEF t

(* notavail. *)
LEMMA UnlinkList ==
  ASSUME NEW S, NEW s \in Seq(S), NEW b \in S, On(b, s), Once(s)
  PROVE  /\ Unlink(s, b) \in Seq(S)
         /\ \A c : On(c, Unlink(s, b)) <=> On(c, s) /\ c # b
         /\ Once(Unlink(s, b))
<1> DEFINE i == CHOOSE j \in 1..Len(s) : s[j] = b
           t == Unlink(s, b)
<1>1. Len(s) \in Nat /\ DOMAIN s = 1..Len(s) /\ \A j \in 1..Len(s) : s[j] \in S
  OBVIOUS
<1>2. i \in 1..Len(s) /\ s[i] = b
  BY <1>1, Zenon DEF On
<1>3. t = [j \in 1..(Len(s) - 1) |-> IF j < i THEN s[j] ELSE s[j + 1]]
  BY Zenon DEF Unlink
<1> HIDE DEF i, t
<1>4. DOMAIN t = 1..(Len(s) - 1)
  BY <1>3, Zenon
<1>5. \A j \in 1..(Len(s) - 1) : /\ j < i => t[j] = s[j]
                                 /\ ~(j < i) => t[j] = s[j + 1]
  BY <1>3, Zenon
<1>6. t \in [1..(Len(s) - 1) -> S]
  BY <1>1, <1>2, <1>3
<1>7. t \in Seq(S)
  <2>1. Len(s) - 1 \in Nat
    BY <1>1, <1>2
  <2> QED BY <2>1, <1>6
<1>8. Once(t)
  <2> SUFFICES ASSUME NEW j \in 1..(Len(s) - 1), NEW k \in 1..(Len(s) - 1), t[j] = t[k]
               PROVE  j = k
    BY <1>4, Zenon DEF Once
  <2>1. CASE j < i /\ k < i
    BY <2>1, <1>1, <1>2, <1>5 DEF Once
  <2>2. CASE ~(j < i) /\ ~(k < i)
    <3>1. s[j + 1] = s[k + 1]
      BY <2>2, <1>5, Zenon
    <3>2. j + 1 \in 1..Len(s) /\ k + 1 \in 1..Len(s)
      BY <1>1
    <3> QED BY <3>1, <3>2, <1>1 DEF Once
  <2>3. CASE j < i /\ ~(k < i)
    <3>1. s[j] = s[k + 1]
      BY <2>3, <1>5, Zenon
    <3>2. j \in 1..Len(s) /\ k + 1 \in 1..Len(s)
      BY <1>1
    <3> QED BY <3>1, <3>2, <2>3, <1>1, <1>2 DEF Once
  <2>4. CASE ~(j < i) /\ k < i
    <3>1. s[j + 1] = s[k]
      BY <2>4, <1>5, Zenon
    <3>2. j + 1 \in 1..Len(s) /\ k \in 1..Len(s)
      BY <1>1
    <3> QED BY <3>1, <3>2, <2>4, <1>1, <1>2 DEF Once
  <2> QED BY <2>1, <2>2, <2>3, <2>4, Zenon
<1>9. ASSUME NEW c PROVE On(c, t) <=> On(c, s) /\ c # b
  <2>1. ASSUME On(c, t) PROVE On(c, s) /\ c # b
    <3>1. PICK j \in 1..(Len(s) - 1) : t[j] = c
      BY <2>1, <1>4, Zenon DEF On
    <3>2. CASE j < i
      BY <3>1, <3>2, <1>1, <1>2, <1>5 DEF On, Once
    <3>3. CASE ~(j < i)
      <4>1. s[j + 1] = c /\ j + 1 \in 1..Len(s) /\ j + 1 # i
        BY <3>1, <3>3, <1>1, <1>2, <1>5
      <4> QED BY <4>1, <1>1, <1>2, Zenon DEF On, Once
    <3> QED BY <3>2, <3>3, Zenon
  <2>2. ASSUME On(c, s), c # b PROVE On(c, t)
    <3>1. PICK j \in 1..Len(s) : s[j] = c
      BY <2>2, <1>1, Zenon DEF On
    <3>2. j # i
      BY <3>1, <2>2, <1>2, Zenon
    <3>3. CASE j < i
      <4>1. j \in 1..(Len(s) - 1) /\ t[j] = c
        BY <3>1, <3>3, <1>1, <1>2, <1>5
      <4> QED BY <4>1, <1>4, Zenon DEF On
    <3>4. CASE j > i
      <4>1. j - 1 \in 1..(Len(s) - 1) /\ t[j - 1] = c
        BY <3>1, <3>4, <1>1, <1>2, <1>5
      <4> QED BY <4>1, <1>4, Zenon DEF On
    <3> QED BY <3>2, <3>3, <3>4, <1>1, <1>2
  <2> QED BY <2>1, <2>2, Zenon
<1> QED BY <1>7, <1>8, <1>9, Zenon DEF t

(* The head of a list that is not empty is on it. *)
LEMMA HeadOn ==
  ASSUME NEW S, NEW s \in Seq(S), s # <<>>
  PROVE  Head(s) \in S /\ On(Head(s), s)
<1>1. 1 \in DOMAIN s /\ Head(s) = s[1] /\ s[1] \in S
  OBVIOUS
<1> QED BY <1>1, Zenon DEF On

(* Nothing is on the empty list. *)
LEMMA NoneOnEmpty ==
  ASSUME NEW S, NEW s \in Seq(S), NEW b, On(b, s)
  PROVE  s # <<>> /\ b \in S
BY DEF On
-----------------------------------------------------------------------------
(***************************************************************************)
(* What the routines the actions share leave behind.                       *)
(***************************************************************************)
LEMMA LocalsUpdate ==
  ASSUME NEW l \in Locals
  PROVE  /\ Nothing \in Locals
         /\ \A b \in Bufs \cup {Null} :
              /\ [l EXCEPT !.hit = b] \in Locals
              /\ [l EXCEPT !.bp = b] \in Locals
BY DEF Locals, Nothing, AllOps

(* The locals and the labels of the other processes stay. *)
Elsewhere(p) == \A q \in Procs : q # p => u'[q] = u[q] /\ pc'[q] = pc[q]

(* Return: the process has no buffer any more. *)
Returned(p) ==
  /\ Elsewhere(p)
  /\ u' \in [Procs -> Locals] /\ pc' \in [Procs -> Labels]
  /\ u'[p].bp = Null /\ u'[p].hit = Null /\ u'[p].op = "none"
  /\ pc'[p] = "user" /\ cur' = Null

(* What Return changes. *)
LEMMA ReturnReturned ==
  ASSUME TypeOK, NEW p \in Procs, Return(p) PROVE Returned(p)
<1>1. /\ Nothing \in Locals
      /\ Nothing.bp = Null /\ Nothing.hit = Null /\ Nothing.op = "none"
  BY Zenon DEF Nothing, Locals, AllOps
<1> QED BY <1>1, Zenon DEF Return, Goto, TypeOK, Labels, Returned, Elsewhere

(* What notavail leaves: b is busy and off the list. *)
Taken(b, f) ==
  /\ bfreelist # <<>>
  /\ bfreelist' \in Seq(Bufs)
  /\ AvailableIffNotBusy'
  /\ b_flags' \in [Bufs -> SUBSET Flags]
  /\ b_flags'[b] = f \cup {"BUSY"}
  /\ \A c \in Bufs : c # b => b_flags'[c] = b_flags[c]

(* What notavail changes. *)
LEMMA notavailTakes ==
  ASSUME TypeOK, AvailableIffNotBusy, NEW b \in Bufs, "BUSY" \notin b_flags[b],
         NEW f \in SUBSET Flags, notavail(b, f)
  PROVE  Taken(b, f)
<1>1. bfreelist \in Seq(Bufs) /\ On(b, bfreelist) /\ Once(bfreelist)
  BY Zenon DEF TypeOK, AvailableIffNotBusy
<1>2. bfreelist # <<>>
  BY <1>1, NoneOnEmpty, Zenon
<1>3. /\ bfreelist' \in Seq(Bufs)
      /\ \A c : On(c, bfreelist') <=> On(c, bfreelist) /\ c # b
      /\ Once(bfreelist')
  BY <1>1, UnlinkList, Zenon DEF notavail
<1>4. /\ b_flags' \in [Bufs -> SUBSET Flags]
      /\ b_flags'[b] = f \cup {"BUSY"}
      /\ \A c \in Bufs : c # b => b_flags'[c] = b_flags[c]
  BY Zenon DEF TypeOK, notavail, Flags
<1>5. AvailableIffNotBusy'
  BY <1>3, <1>4, Zenon DEF AvailableIffNotBusy
<1> QED BY <1>2, <1>3, <1>4, <1>5, Zenon DEF Taken

(* What brelse leaves: b is available and its waiters, and those for any
   buffer, are awake. *)
Released(b, f) ==
  /\ bfreelist' \in Seq(Bufs)
  /\ AvailableIffNotBusy'
  /\ b_flags' \in [Bufs -> SUBSET Flags]
  /\ "BUSY" \notin b_flags'[b] /\ "ASYNC" \notin b_flags'[b]
  /\ "DONE" \in f => "DONE" \in b_flags'[b]
  /\ \A c \in Bufs : c # b => b_flags'[c] = b_flags[c] /\ b_blk'[c] = b_blk[c]
  /\ b_blk' \in [Bufs -> Blocks \cup {NODEV}]
  /\ b_blk'[b] \in {b_blk[b], NODEV}
  /\ flwanted' = FALSE
  /\ chan' \in [Procs -> Bufs \cup {FreeChan, Null}]
  /\ \A q \in Procs :
       /\ chan'[q] \in {chan[q], Null}
       /\ chan[q] = b /\ "WANTED" \in f => chan'[q] = Null
       /\ chan[q] = FreeChan /\ flwanted => chan'[q] = Null

(* What brelse changes. *)
LEMMA brelseReleases ==
  ASSUME TypeOK, AvailableIffNotBusy, NEW b \in Bufs, "BUSY" \in b_flags[b],
         NEW f \in SUBSET Flags, brelse(b, f)
  PROVE  Released(b, f)
<1>1. bfreelist \in Seq(Bufs) /\ ~On(b, bfreelist) /\ Once(bfreelist)
  BY Zenon DEF TypeOK, AvailableIffNotBusy
<1>2. /\ bfreelist' \in Seq(Bufs)
      /\ \A c : On(c, bfreelist') <=> On(c, bfreelist) \/ c = b
      /\ Once(bfreelist')
  <2>1. CASE "AGE" \in f
    BY <1>1, <2>1, PrependList, Zenon DEF brelse
  <2>2. CASE "AGE" \notin f
    BY <1>1, <2>2, AppendList, Zenon DEF brelse
  <2> QED BY <2>1, <2>2, Zenon
<1>3. /\ b_flags' \in [Bufs -> SUBSET Flags]
      /\ b_flags'[b] = f \ {"WANTED", "BUSY", "ASYNC", "AGE"}
      /\ \A c \in Bufs : c # b => b_flags'[c] = b_flags[c]
  BY Zenon DEF TypeOK, brelse, Flags
<1>4. /\ "BUSY" \notin b_flags'[b] /\ "ASYNC" \notin b_flags'[b]
      /\ "DONE" \in f => "DONE" \in b_flags'[b]
  BY <1>3, Zenon
<1>5. AvailableIffNotBusy'
  BY <1>2, <1>3, <1>4, Zenon DEF AvailableIffNotBusy
<1>6. /\ b_blk' \in [Bufs -> Blocks \cup {NODEV}]
      /\ b_blk'[b] \in {b_blk[b], NODEV}
      /\ \A c \in Bufs : c # b => b_blk'[c] = b_blk[c]
      /\ flwanted' = FALSE
  BY Zenon DEF TypeOK, brelse
<1>7. /\ chan' \in [Procs -> Bufs \cup {FreeChan, Null}]
      /\ \A q \in Procs :
           /\ chan'[q] \in {chan[q], Null}
           /\ chan[q] = b /\ "WANTED" \in f => chan'[q] = Null
           /\ chan[q] = FreeChan /\ flwanted => chan'[q] = Null
  BY Zenon DEF TypeOK, brelse, wakeup
<1> QED BY <1>2, <1>3, <1>4, <1>5, <1>6, <1>7, Zenon DEF Released

(* SearchHit preserves the invariant. *)
LEMMA SearchHitStep ==
  ASSUME IInv, NEW p \in Procs, SearchHit(p) PROVE IInv'
<1> USE BufferAssumption DEF IInv, SInv, bufVars, dataVars, SearchHit, At, Goto
<1>1. TypeOK'
  <2>1. PICK b \in Bufs : u' = [u EXCEPT ![p].hit = b]
    BY Zenon
  <2>2. u[p] \in Locals
    BY Zenon DEF TypeOK
  <2>3. u' \in [Procs -> Locals]
    BY <2>1, <2>2, LocalsUpdate, Zenon DEF TypeOK
  <2> QED BY <2>3, Zenon DEF TypeOK, Labels
<1>2. SInv'
  BY DEF RunningInv, LocalsInv, FirstBlock, MissInv, incore, GotInv, BlockInv,
     WaitInv, ActiveInv, AvailableIffNotBusy, OneBufferPerBlock,
     ExclusiveOwner, Holds, NoLostWakeup, TypeOK
<1> QED BY <1>1, <1>2, Zenon

(* SearchMiss preserves the invariant. *)
LEMMA SearchMissStep ==
  ASSUME IInv, NEW p \in Procs, SearchMiss(p) PROVE IInv'
<1> USE BufferAssumption DEF IInv, SInv, bufVars, dataVars, SearchMiss, At,
   Goto, incore
<1>1. TypeOK'
  BY Zenon DEF TypeOK, LocalsInv, Locals, Labels, Flags
<1>2. SInv'
  BY DEF RunningInv, LocalsInv, FirstBlock, MissInv, GotInv, BlockInv, WaitInv,
     ActiveInv, AvailableIffNotBusy, OneBufferPerBlock, ExclusiveOwner, Holds,
     NoLostWakeup
<1> QED BY <1>1, <1>2, Zenon

(* Resume preserves the invariant. *)
LEMMA ResumeStep ==
  ASSUME IInv, NEW p \in Procs, Resume(p) PROVE IInv'
<1> USE BufferAssumption DEF IInv, SInv, bufVars, dataVars, Resume
<1>1. TypeOK'
  BY Zenon DEF TypeOK, LocalsInv, Locals, Labels, Flags
<1>2. SInv'
  BY DEF RunningInv, LocalsInv, FirstBlock, MissInv, incore, GotInv, BlockInv,
     WaitInv, ActiveInv, AvailableIffNotBusy, OneBufferPerBlock,
     ExclusiveOwner, Holds, NoLostWakeup
<1> QED BY <1>1, <1>2, Zenon

(* iowait preserves the invariant. *)
LEMMA iowaitStep ==
  ASSUME IInv, NEW p \in Procs, iowait(p) PROVE IInv'
<1> USE BufferAssumption DEF IInv, SInv, bufVars, dataVars, iowait, At, sleep
<1>1. TypeOK'
  BY Zenon DEF TypeOK, LocalsInv, Locals, Labels, Flags
<1>2. SInv'
  BY DEF RunningInv, Transient, LocalsInv, MissInv, GotInv, BlockInv, WaitInv,
     ActiveInv, AvailableIffNotBusy, OneBufferPerBlock, ExclusiveOwner, Holds,
     NoLostWakeup
<1> QED BY <1>1, <1>2, Zenon

(* ReadDone preserves the invariant. *)
LEMMA ReadDoneStep ==
  ASSUME IInv, NEW p \in Procs, ReadDone(p) PROVE IInv'
<1> USE BufferAssumption DEF IInv, SInv, bufVars, dataVars, ReadDone, At, Goto
<1>1. TypeOK'
  BY Zenon DEF TypeOK, LocalsInv, Locals, Labels, Flags
<1>2. SInv'
  BY DEF RunningInv, LocalsInv, FirstBlock, MissInv, incore, GotInv, BlockInv,
     WaitInv, ActiveInv, AvailableIffNotBusy, OneBufferPerBlock,
     ExclusiveOwner, Holds, NoLostWakeup
<1> QED BY <1>1, <1>2, Zenon

(* OwnerSleeps preserves the invariant. *)
LEMMA OwnerSleepsStep ==
  ASSUME IInv, NEW p \in Procs, OwnerSleeps(p) PROVE IInv'
<1> USE BufferAssumption DEF IInv, SInv, bufVars, dataVars, OwnerSleeps, At
<1>1. TypeOK'
  BY Zenon DEF TypeOK, LocalsInv, Locals, Labels, Flags
<1>2. SInv'
  BY DEF RunningInv, Transient, LocalsInv, MissInv, GotInv, BlockInv, WaitInv,
     ActiveInv, AvailableIffNotBusy, OneBufferPerBlock, ExclusiveOwner, Holds,
     NoLostWakeup
<1> QED BY <1>1, <1>2, Zenon

(* WildDevice preserves the invariant. *)
LEMMA WildDeviceStep ==
  ASSUME IInv, NEW p \in Procs, WildDevice(p) PROVE IInv'
<1> USE BufferAssumption DEF IInv, SInv, bufVars, dataVars, WildDevice, At,
   Goto
<1>1. TypeOK'
  BY Zenon DEF TypeOK, LocalsInv, Locals, Labels, Flags
<1>2. SInv'
  BY DEF RunningInv, LocalsInv, FirstBlock, MissInv, incore, GotInv, BlockInv,
     WaitInv, ActiveInv, AvailableIffNotBusy, OneBufferPerBlock,
     ExclusiveOwner, Holds, NoLostWakeup
<1> QED BY <1>1, <1>2, Zenon

(* Store preserves the invariant. *)
LEMMA StoreStep ==
  ASSUME IInv, NEW p \in Procs, Store(p) PROVE IInv'
<1> USE BufferAssumption DEF IInv, SInv, bufVars, dataVars, Store, At, Goto
<1>1. TypeOK'
  <2>1. PICK v \in Values :
          /\ b_data' = [b_data EXCEPT ![u[p].bp] = v]
          /\ latest' = [k \in Blocks |-> IF k = b_blk[u[p].bp] THEN {v} ELSE latest[k]]
    BY Zenon
  <2>2. (b_data \in [Bufs -> Values])'
    BY <2>1, Zenon DEF TypeOK
  <2>3. (latest \in [Blocks -> SUBSET Values])'
    BY <2>1 DEF TypeOK
  <2> QED BY <2>2, <2>3, Zenon DEF TypeOK, Labels
<1>2. SInv'
  BY DEF RunningInv, LocalsInv, FirstBlock, MissInv, incore, GotInv, BlockInv,
     WaitInv, ActiveInv, AvailableIffNotBusy, OneBufferPerBlock,
     ExclusiveOwner, Holds, NoLostWakeup
<1> QED BY <1>1, <1>2, Zenon

(* StartAhead preserves the invariant. *)
LEMMA StartAheadStep ==
  ASSUME IInv, NEW p \in Procs, StartAhead(p) PROVE IInv'
<1> USE BufferAssumption DEF IInv, SInv, bufVars, dataVars, StartAhead, At,
   Goto
<1>1. TypeOK'
  BY SMTT(30) DEF TypeOK, LocalsInv, Locals, Labels, Flags
<1>2. SInv'
  BY DEF RunningInv, LocalsInv, FirstBlock, MissInv, incore, GotInv, BlockInv,
     WaitInv, ActiveInv, AvailableIffNotBusy, OneBufferPerBlock,
     ExclusiveOwner, Holds, NoLostWakeup, TypeOK
<1> QED BY <1>1, <1>2, Zenon

(* NoneFree preserves the invariant. *)
LEMMA NoneFreeStep ==
  ASSUME IInv, NEW p \in Procs, NoneFree(p) PROVE IInv'
<1> USE BufferAssumption DEF IInv, SInv, bufVars, dataVars, NoneFree, At, sleep
<1>1. TypeOK'
  BY Zenon DEF TypeOK, LocalsInv, Locals, Labels, Flags
<1>2. SInv'
  BY DEF RunningInv, Transient, LocalsInv, MissInv, GotInv, BlockInv, WaitInv,
     ActiveInv, AvailableIffNotBusy, OneBufferPerBlock, ExclusiveOwner, Holds,
     NoLostWakeup, TypeOK
<1> QED BY <1>1, <1>2, Zenon

(* HitBusy preserves the invariant. *)
LEMMA HitBusyStep ==
  ASSUME IInv, NEW p \in Procs, HitBusy(p) PROVE IInv'
<1> USE BufferAssumption DEF IInv, SInv, bufVars, dataVars, HitBusy, At, Goto,
   sleep
<1>1. TypeOK'
  BY Zenon DEF TypeOK, LocalsInv, Locals, Labels, Flags
<1>2. SInv'
  BY DEF RunningInv, Transient, LocalsInv, MissInv, GotInv, BlockInv, WaitInv,
     ActiveInv, AvailableIffNotBusy, OneBufferPerBlock, ExclusiveOwner, Holds,
     NoLostWakeup, TypeOK
<1> QED BY <1>1, <1>2, Zenon

(* Flushed preserves the invariant. *)
LEMMA FlushedStep ==
  ASSUME IInv, NEW p \in Procs, Flushed(p) PROVE IInv'
<1> USE BufferAssumption DEF IInv, SInv, bufVars, dataVars, Flushed, At, Goto
<1>1. TypeOK'
  <2>1. u[p] \in Locals
    BY Zenon DEF TypeOK
  <2>2. u' \in [Procs -> Locals]
    BY <2>1, LocalsUpdate, Zenon DEF TypeOK
  <2> QED BY <2>2, Zenon DEF TypeOK, Labels, Flags
<1>2. SInv'
  BY DEF RunningInv, LocalsInv, FirstBlock, MissInv, incore, GotInv, BlockInv,
     WaitInv, ActiveInv, AvailableIffNotBusy, OneBufferPerBlock,
     ExclusiveOwner, Holds, NoLostWakeup, TypeOK
<1> QED BY <1>1, <1>2, Zenon

(* GotFirst preserves the invariant. *)
LEMMA GotFirstStep ==
  ASSUME IInv, NEW p \in Procs, GotFirst(p) PROVE IInv'
<1> USE BufferAssumption DEF IInv, SInv, bufVars, dataVars, GotFirst, At, Goto,
   Strategy, FirstBlock
<1>1. TypeOK'
  BY SMTT(30) DEF TypeOK, LocalsInv, Locals, Labels, Flags
<1>2. SInv'
  BY DEF RunningInv, LocalsInv, MissInv, GotInv, BlockInv, WaitInv, ActiveInv,
     AvailableIffNotBusy, OneBufferPerBlock, ExclusiveOwner, NoLostWakeup,
     TypeOK, Locals
<1> QED BY <1>1, <1>2, Zenon

(* bwrite preserves the invariant. *)
LEMMA bwriteStep ==
  ASSUME IInv, NEW p \in Procs, bwrite(p) PROVE IInv'
<1> USE BufferAssumption DEF IInv, SInv, bufVars, dataVars, bwrite, At, Goto,
   Strategy, WriteFlags
<1>1. TypeOK'
  BY SMTT(30) DEF TypeOK, LocalsInv, Locals, Labels, Flags
<1>2. SInv'
  BY DEF RunningInv, LocalsInv, FirstBlock, MissInv, incore, GotInv, BlockInv,
     WaitInv, ActiveInv, AvailableIffNotBusy, OneBufferPerBlock,
     ExclusiveOwner, Holds, NoLostWakeup, TypeOK
<1> QED BY <1>1, <1>2, Zenon

(* HitFree. *)
LEMMA HitFreeStep ==
  ASSUME IInv, NEW p \in Procs, HitFree(p) PROVE IInv'
<1> USE BufferAssumption DEF IInv, SInv, HitFree, bufVars, dataVars, At, Goto
<1>1. u[p].hit \in Bufs /\ b_flags[u[p].hit] \in SUBSET Flags
  BY Zenon DEF TypeOK, LocalsInv
<1>2. Taken(u[p].hit, b_flags[u[p].hit])
  BY <1>1, notavailTakes, Zenon
<1>3. TypeOK'
  BY <1>1, <1>2, ZenonT(40) DEF Taken, TypeOK, Labels
<1>4. RunningInv' /\ LocalsInv' /\ MissInv' /\ GotInv' /\ BlockInv'
  <2>1. RunningInv'
    BY DEF RunningInv, Transient, TypeOK
  <2>2. LocalsInv'
    BY <1>1, <1>2 DEF Taken, LocalsInv, FirstBlock, TypeOK, ExclusiveOwner, Holds
  <2>3. MissInv' /\ GotInv'
    BY <1>1, <1>2 DEF Taken, MissInv, incore, GotInv, TypeOK, ActiveInv, RunningInv,
       Transient
  <2>4. BlockInv'
    <3>1. \A b \in Bufs : \A f \in {"READ", "DONE"} : f \in b_flags'[b] <=> f \in b_flags[b]
      BY <1>1, <1>2 DEF Taken
    <3>2. \A q \in Procs : pc'[q] \in {"hit", "got"} =>
                            pc[q] \in {"hit", "got"} /\ u[q].hit \in Bufs
      BY DEF TypeOK, LocalsInv
    <3> QED BY <3>1, <3>2 DEF BlockInv, TypeOK
  <2> QED BY <2>1, <2>2, <2>3, <2>4
<1>5. WaitInv' /\ ActiveInv' /\ AvailableIffNotBusy'
  BY <1>1, <1>2, Zenon DEF Taken, WaitInv, ActiveInv, TypeOK, RunningInv, Transient
<1>6. OneBufferPerBlock' /\ ExclusiveOwner' /\ NoLostWakeup'
  BY <1>1, <1>2 DEF Taken, OneBufferPerBlock, ExclusiveOwner, Holds, NoLostWakeup,
     ActiveInv
<1> QED BY <1>3, <1>4, <1>5, <1>6, Zenon
=============================================================================
