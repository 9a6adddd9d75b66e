-------------------------- MODULE BufferCacheProofs -------------------------
(***************************************************************************)
(* The invariant is preserved by read-ahead and by the disk interrupt, and *)
(* the theorems about BufferCache, for every number of processes, buffers, *)
(* blocks and values.                                                      *)
(***************************************************************************)
EXTENDS BufferCacheSteps

(* EndAhead preserves the invariant. *)
LEMMA EndAheadStep ==
  ASSUME IInv, NEW p \in Procs, EndAhead(p) PROVE IInv'
<1> USE BufferAssumption DEF IInv, SInv
<1>1. /\ cur = p /\ pc[p] = "ahead"
      /\ UNCHANGED <<b_blk, b_flags, bfreelist, flwanted, b_data, disk, latest,
                     active, cur, chan>>
  BY Zenon DEF EndAhead, At, bufVars, dataVars
<1>2. /\ Elsewhere(p) /\ u' \in [Procs -> Locals] /\ pc' \in [Procs -> Labels]
      /\ \/ /\ pc'[p] = "search" /\ u'[p].bp = Null /\ u'[p].hit = Null
            /\ u'[p].op = "breada" /\ u'[p].blk # NODEV
         \/ /\ pc'[p] = "iowait" /\ u[p].redo = NODEV
            /\ u'[p].op = u[p].op /\ u'[p].bp = u[p].bp
  <2>1. u[p] \in Locals
    BY DEF TypeOK
  <2>2. CASE u[p].redo # NODEV
    <3> DEFINE r == [Nothing EXCEPT !.op = "breada", !.blk = u[p].redo]
    <3>1. /\ r \in Locals /\ r.bp = Null /\ r.hit = Null
          /\ r.op = "breada" /\ r.blk # NODEV
      BY <2>1, <2>2, Zenon DEF Nothing, Locals, AllOps
    <3>2. u' = [u EXCEPT ![p] = r] /\ pc' = [pc EXCEPT ![p] = "search"]
      BY <2>2, Zenon DEF EndAhead, Goto
    <3> HIDE DEF r
    <3> QED BY <3>1, <3>2, Zenon DEF TypeOK, Labels, Elsewhere
  <2>3. CASE u[p].redo = NODEV
    <3> DEFINE r == [u[p] EXCEPT !.ra = NODEV]
    <3>1. r \in Locals /\ r.bp = u[p].bp /\ r.op = u[p].op
      BY <2>1, Zenon DEF Locals
    <3>2. u' = [u EXCEPT ![p] = r] /\ pc' = [pc EXCEPT ![p] = "iowait"]
      BY <2>3, Zenon DEF EndAhead, Goto
    <3> HIDE DEF r
    <3> QED BY <2>3, <3>1, <3>2, Zenon DEF TypeOK, Labels, Elsewhere
  <2> QED BY <2>2, <2>3, Zenon
<1>3. TypeOK'
  BY <1>1, <1>2, Zenon DEF TypeOK
<1>4. RunningInv' /\ MissInv' /\ GotInv' /\ BlockInv'
  BY <1>1, <1>2, Zenon DEF Elsewhere, RunningInv, Transient, MissInv, incore, GotInv, BlockInv
<1>5. LocalsInv'
  BY <1>1, <1>2 DEF Elsewhere, LocalsInv, FirstBlock, Locals, TypeOK
<1>6. /\ WaitInv' /\ ActiveInv' /\ AvailableIffNotBusy' /\ OneBufferPerBlock'
      /\ ExclusiveOwner' /\ NoLostWakeup'
  BY <1>1, <1>2 DEF Elsewhere, WaitInv, ActiveInv, AvailableIffNotBusy,
     OneBufferPerBlock, ExclusiveOwner, Holds, NoLostWakeup
<1> QED BY <1>3, <1>4, <1>5, <1>6, Zenon

(* breada is back from getblk for the read-ahead block: it is released if it is
   filled, and otherwise its read is started and not waited for. *)
LEMMA GotAheadStep ==
  ASSUME IInv, NEW p \in Procs, GotAhead(p) PROVE IInv'
<1> USE BufferAssumption DEF IInv, SInv, dataVars
<1> DEFINE b == u[p].hit
<1>1. /\ cur = p /\ pc[p] = "got" /\ ~FirstBlock(p) /\ u[p].hit = b
      /\ UNCHANGED <<b_data, disk, latest, cur>>
  BY Zenon DEF GotAhead, At
<1>2. /\ b \in Bufs /\ b_flags[b] \in SUBSET Flags /\ b \notin active /\ u[p].bp # b
      /\ "BUSY" \in b_flags[b] /\ u[p].op # "geteblk"
      /\ \A q \in Procs : Holds(q, b) => q = p
  BY <1>1, Zenon DEF TypeOK, LocalsInv, GotInv, ExclusiveOwner, Holds
<1>3. /\ Elsewhere(p) /\ u' \in [Procs -> Locals] /\ pc' \in [Procs -> Labels]
      /\ u'[p].bp = u[p].bp /\ u'[p].redo = u[p].redo /\ u'[p].op = u[p].op
      /\ pc'[p] = "ahead"
  <2> DEFINE r == [u[p] EXCEPT !.hit = Null]
  <2>1. r \in Locals /\ r.bp = u[p].bp /\ r.redo = u[p].redo /\ r.op = u[p].op
    BY ZenonT(40) DEF Locals, TypeOK
  <2>2. u' = [u EXCEPT ![p] = r] /\ pc' = [pc EXCEPT ![p] = "ahead"]
    BY Zenon DEF GotAhead, Goto
  <2> HIDE DEF r
  <2> QED BY <2>1, <2>2, Zenon DEF TypeOK, Labels, Elsewhere
<1>4. \/ "DONE" \in b_flags[b] /\ brelse(b, b_flags[b]) /\ UNCHANGED active
      \/ /\ "DONE" \notin b_flags[b]
         /\ Strategy(b, b_flags[b] \cup {"READ", "ASYNC"})
         /\ UNCHANGED <<b_blk, bfreelist, flwanted, chan>>
  BY Zenon DEF GotAhead
<1> HIDE DEF b
<1>5. LocalsInv' /\ \A q \in Procs : pc'[q] \notin {"hit", "take", "got"}
  BY <1>1, <1>2, <1>3 DEF Elsewhere, LocalsInv, FirstBlock, RunningInv, Transient
<1>6. \A q \in Procs : u'[q].bp = u[q].bp /\ u[q].bp # b /\ pc[q] # "aged"
  BY <1>1, <1>2, <1>3, Zenon DEF Elsewhere, Holds, RunningInv, Transient
<1>7. MissInv' /\ GotInv'
  BY <1>5, Zenon DEF MissInv, GotInv
<1>8. ASSUME NEW q \in Procs, NEW c \in Bufs, Holds(q, c)'
      PROVE  Holds(q, c) /\ c # b
  BY <1>2, <1>3, <1>5, <1>6, <1>8, Zenon DEF Elsewhere, Holds
<1>9. CASE "DONE" \in b_flags[b]
  <2>1. Released(b, b_flags[b]) /\ active' = active
    BY <1>2, <1>4, <1>9, brelseReleases, Zenon
  <2>2. TypeOK'
    BY <1>1, <1>3, <2>1, Zenon DEF Released, TypeOK
  <2>3. RunningInv' /\ ActiveInv' /\ AvailableIffNotBusy'
    <3>1. RunningInv'
      BY <1>1, <1>2, <1>3, <2>1, Zenon DEF Released, Elsewhere, RunningInv, Transient
    <3>2. ActiveInv'
      BY <1>2, <2>1, Zenon DEF Released, ActiveInv, TypeOK
    <3> QED BY <2>1, <3>1, <3>2, Zenon DEF Released
  <2>4. BlockInv' /\ OneBufferPerBlock'
    <3>1. BlockInv'
      BY <1>2, <1>5, <2>1 DEF Released, BlockInv, TypeOK
    <3>2. OneBufferPerBlock'
      BY <1>2, <2>1 DEF Released, OneBufferPerBlock, TypeOK
    <3> QED BY <3>1, <3>2
  <2>5. WaitInv'
    BY <1>1, <1>3, <1>6, <2>1 DEF Released, Elsewhere, WaitInv
  <2>6. ExclusiveOwner'
    BY <1>1, <1>3, <1>8, <2>1 DEF Released, Elsewhere, ExclusiveOwner
  <2>7. NoLostWakeup'
    BY <1>1, <1>3, <1>6, <2>1 DEF Released, Elsewhere, NoLostWakeup, RunningInv
  <2> QED BY <1>5, <1>7, <2>2, <2>3, <2>4, <2>5, <2>6, <2>7, Zenon
<1>10. CASE "DONE" \notin b_flags[b]
  <2>1. /\ b_flags' \in [Bufs -> SUBSET Flags]
        /\ b_flags'[b] = b_flags[b] \cup {"READ", "ASYNC"}
        /\ \A c \in Bufs : c # b => b_flags'[c] = b_flags[c]
        /\ active' = active \cup {b}
        /\ UNCHANGED <<b_blk, bfreelist, flwanted, chan>>
    BY <1>2, <1>4, <1>10 DEF Strategy, TypeOK, Flags
  <2>2. /\ "BUSY" \in b_flags'[b] /\ "DONE" \notin b_flags'[b]
        /\ "WANTED" \in b_flags[b] => "WANTED" \in b_flags'[b]
    BY <1>2, <1>10, <2>1, Zenon
  <2>3. TypeOK'
    BY <1>1, <1>2, <1>3, <2>1, Zenon DEF TypeOK
  <2>4. RunningInv' /\ ActiveInv' /\ AvailableIffNotBusy' /\ OneBufferPerBlock'
    <3>1. RunningInv'
      BY <1>1, <1>2, <1>3, <2>1, Zenon DEF Elsewhere, RunningInv, Transient
    <3>2. ActiveInv'
      BY <1>2, <2>1, <2>2, Zenon DEF ActiveInv, TypeOK
    <3>3. AvailableIffNotBusy' /\ OneBufferPerBlock'
      BY <1>1, <1>2, <2>1, <2>2, Zenon DEF AvailableIffNotBusy, OneBufferPerBlock, TypeOK
    <3> QED BY <3>1, <3>2, <3>3, Zenon
  <2>5. BlockInv'
    BY <1>1, <1>2, <1>5, <1>10, <2>1, Zenon DEF BlockInv, TypeOK
  <2>6. WaitInv'
    BY <1>1, <1>3, <1>6, <2>1 DEF Elsewhere, WaitInv
  <2>7. ExclusiveOwner'
    BY <1>1, <1>3, <1>8, <2>1 DEF Elsewhere, ExclusiveOwner
  <2>8. NoLostWakeup'
    BY <1>1, <1>3, <1>6, <2>1, <2>2 DEF Elsewhere, NoLostWakeup, RunningInv
  <2> QED BY <1>5, <1>7, <2>3, <2>4, <2>5, <2>6, <2>7, <2>8, Zenon
<1> QED BY <1>9, <1>10, Zenon

(* iodone of a transfer that is waited for: B_DONE, and the waiters wake up. *)
LEMMA iodoneWaitedStep ==
  ASSUME IInv, NEW b \in active, NEW f \in SUBSET Flags,
         f \in {b_flags[b], b_flags[b] \cup {"ERROR"}}, "ASYNC" \notin f,
         iodone(b, f), active' = active \ {b}, UNCHANGED <<cur, pc, u>>,
         (b_data \in [Bufs -> Values])', (disk \in [Blocks -> Values])',
         (latest \in [Blocks -> SUBSET Values])'
  PROVE  IInv'
<1> USE BufferAssumption DEF IInv, SInv
<1>1. b \in Bufs /\ "BUSY" \in b_flags[b] /\ "DONE" \notin b_flags[b]
  BY Zenon DEF TypeOK, ActiveInv
<1>2. /\ b_flags' \in [Bufs -> SUBSET Flags]
      /\ b_flags'[b] = (f \cup {"DONE"}) \ {"WANTED"}
      /\ \A c \in Bufs : c # b => b_flags'[c] = b_flags[c]
      /\ UNCHANGED <<b_blk, bfreelist, flwanted>>
  <2>1. b_flags' = [b_flags EXCEPT ![b] = (f \cup {"DONE"}) \ {"WANTED"}]
    BY Zenon DEF iodone
  <2>2. (f \cup {"DONE"}) \ {"WANTED"} \in SUBSET Flags
    BY Zenon DEF Flags
  <2> HIDE DEF IInv, SInv
  <2> QED BY <1>1, <2>1, <2>2, Zenon DEF iodone, IInv, TypeOK
<1>3. {"BUSY", "DONE"} \subseteq b_flags'[b] /\ "ASYNC" \notin b_flags'[b]
  BY <1>1, <1>2, Zenon
<1>4. /\ chan' \in [Procs -> Bufs \cup {FreeChan, Null}]
      /\ \A q \in Procs : chan'[q] = IF chan[q] = b THEN Null ELSE chan[q]
  BY <1>1 DEF iodone, wakeup, TypeOK
<1>5. TypeOK'
  BY <1>2, <1>4, Zenon DEF TypeOK
<1>6. RunningInv'
  BY <1>1, <1>2, <1>3, <1>4, Zenon DEF TypeOK, RunningInv, Transient
<1>7. LocalsInv'
  BY <1>1, <1>2, <1>3, <1>4, Zenon DEF TypeOK, LocalsInv, FirstBlock
<1>8. ActiveInv'
  BY <1>1, <1>2, <1>3, <1>4, Zenon DEF TypeOK, ActiveInv
<1>9. MissInv'
  BY <1>1, <1>2, <1>3, <1>4, Zenon DEF TypeOK, MissInv, incore
<1>10. GotInv'
  BY <1>1, <1>2, <1>3, <1>4, Zenon DEF TypeOK, GotInv
<1>11. BlockInv'
  BY <1>1, <1>2, <1>3, <1>4, Zenon DEF TypeOK, BlockInv, LocalsInv, ExclusiveOwner, Holds, ActiveInv
<1>12. WaitInv'
  BY <1>1, <1>2, <1>3, <1>4, Zenon DEF TypeOK, WaitInv, ExclusiveOwner, Holds
<1>13. AvailableIffNotBusy'
  BY <1>1, <1>2, <1>3, <1>4, Zenon DEF TypeOK, AvailableIffNotBusy, ActiveInv
<1>14. OneBufferPerBlock'
  BY <1>1, <1>2, <1>3, <1>4, Zenon DEF TypeOK, OneBufferPerBlock
<1>15. ExclusiveOwner'
  BY <1>1, <1>2, <1>3, <1>4 DEF TypeOK, ExclusiveOwner, Holds
<1>16. NoLostWakeup'
  BY <1>1, <1>2, <1>3, <1>4 DEF TypeOK, NoLostWakeup, RunningInv, ExclusiveOwner, Holds
<1> QED BY <1>5, <1>6, <1>7, <1>8, <1>9, <1>10, <1>11, <1>12, <1>13, <1>14, <1>15, <1>16, Zenon

(* iodone of a transfer nobody waits for: the buffer is released.  No process
   holds it, since B_ASYNC is set. *)
LEMMA iodoneAsyncStep ==
  ASSUME IInv, NEW b \in active, NEW f \in SUBSET Flags,
         f \in {b_flags[b], b_flags[b] \cup {"ERROR"}}, "ASYNC" \in f,
         iodone(b, f), active' = active \ {b}, UNCHANGED <<cur, pc, u>>,
         (b_data \in [Bufs -> Values])', (disk \in [Blocks -> Values])',
         (latest \in [Blocks -> SUBSET Values])'
  PROVE  IInv'
<1> USE BufferAssumption DEF IInv, SInv
<1> DEFINE g == f \cup {"DONE"}
<1>1. /\ b \in Bufs /\ "BUSY" \in b_flags[b] /\ "DONE" \notin b_flags[b]
      /\ g \in SUBSET Flags
  BY Zenon DEF TypeOK, ActiveInv, Flags
<1>2. "ASYNC" \in b_flags[b] /\ "DONE" \in g
  OBVIOUS
<1>3. brelse(b, g) /\ ("WANTED" \in b_flags[b] => "WANTED" \in g)
  BY Zenon DEF iodone
<1> HIDE DEF g
<1>4. Released(b, g)
  BY <1>1, <1>3, brelseReleases, Zenon
<1>5. \A q \in Procs : ~Holds(q, b)
  BY <1>1, <1>2, Zenon DEF ExclusiveOwner
<1>6. TypeOK'
  BY <1>4, Zenon DEF TypeOK, Released
<1>7. RunningInv'
  BY <1>1, <1>2, <1>3, <1>4, <1>5, Zenon DEF Released, TypeOK, RunningInv, Transient
<1>8. LocalsInv'
  BY <1>1, <1>2, <1>3, <1>4, <1>5, Zenon DEF Released, TypeOK, LocalsInv, FirstBlock
<1>9. ActiveInv'
  BY <1>1, <1>2, <1>3, <1>4, <1>5, Zenon DEF Released, TypeOK, ActiveInv
<1>10. MissInv'
  BY <1>1, <1>4 DEF Released, TypeOK, MissInv, incore, LocalsInv
<1>11. GotInv'
  BY <1>1, <1>2, <1>3, <1>4, <1>5, Zenon DEF Released, TypeOK, GotInv
<1>12. BlockInv'
  BY <1>1, <1>2, <1>3, <1>4, <1>5, Zenon DEF Released, TypeOK, BlockInv, LocalsInv, Holds, ActiveInv
<1>13. WaitInv'
  BY <1>1, <1>2, <1>3, <1>4, <1>5, Zenon DEF Released, TypeOK, WaitInv, Holds
<1>14. AvailableIffNotBusy'
  BY <1>4, Zenon DEF Released
<1>15. OneBufferPerBlock'
  BY <1>1, <1>2, <1>3, <1>4, <1>5 DEF Released, TypeOK, OneBufferPerBlock
<1>16. ExclusiveOwner'
  BY <1>1, <1>2, <1>3, <1>4, <1>5 DEF Released, TypeOK, ExclusiveOwner, Holds
<1>17. NoLostWakeup'
  BY <1>1, <1>2, <1>3, <1>4, <1>5 DEF Released, TypeOK, NoLostWakeup, RunningInv, Holds
<1> QED BY <1>6, <1>7, <1>8, <1>9, <1>10, <1>11, <1>12, <1>13, <1>14, <1>15, <1>16, <1>17, Zenon

(* DiskDone preserves the invariant. *)
LEMMA DiskDoneStep ==
  ASSUME IInv, NEW b \in Bufs, DiskDone(b) PROVE IInv'
<1>1. /\ b \in active /\ b_flags[b] \in SUBSET Flags
      /\ "READ" \in b_flags[b] => b_blk[b] \in Blocks
  BY Zenon DEF DiskDone, IInv, SInv, TypeOK, BlockInv
<1>2. /\ (b_data \in [Bufs -> Values])'
      /\ (disk \in [Blocks -> Values])'
      /\ (latest \in [Blocks -> SUBSET Values])'
  <2>1. (b_data \in [Bufs -> Values])' /\ (disk \in [Blocks -> Values])'
    BY <1>1, Zenon DEF DiskDone, IInv, SInv, TypeOK
  <2> DEFINE d == disk'[b_blk[b]]
  <2>2. latest' = [latest EXCEPT ![b_blk[b]] = @ \cap {d}]
    BY Zenon DEF DiskDone
  <2> HIDE DEF d
  <2>3. (latest \in [Blocks -> SUBSET Values])'
    BY <2>2 DEF IInv, TypeOK
  <2> QED BY <2>1, <2>3, Zenon
<1>3. /\ iodone(b, b_flags[b]) /\ active' = active \ {b}
      /\ UNCHANGED <<cur, pc, u>>
  BY Zenon DEF DiskDone
<1>4. CASE "ASYNC" \in b_flags[b]
  BY <1>1, <1>2, <1>3, <1>4, iodoneAsyncStep, Zenon
<1>5. CASE "ASYNC" \notin b_flags[b]
  BY <1>1, <1>2, <1>3, <1>5, iodoneWaitedStep, Zenon
<1> QED BY <1>4, <1>5, Zenon

(* DiskError preserves the invariant. *)
LEMMA DiskErrorStep ==
  ASSUME IInv, NEW b \in Bufs, DiskError(b) PROVE IInv'
<1> DEFINE f == b_flags[b] \cup {"ERROR"}
<1>1. b \in active /\ f \in SUBSET Flags
  BY Zenon DEF DiskError, IInv, TypeOK, Flags
<1>2. /\ (b_data \in [Bufs -> Values])'
      /\ (disk \in [Blocks -> Values])'
      /\ (latest \in [Blocks -> SUBSET Values])'
  <2>1. (b_data \in [Bufs -> Values])' /\ (disk \in [Blocks -> Values])'
    BY Zenon DEF DiskError, IInv, TypeOK
  <2> DEFINE k == b_blk[b]
  <2>2. latest' = [latest EXCEPT ![k] = {disk[k]}]
    BY Zenon DEF DiskError
  <2>3. k \in Blocks => disk[k] \in Values
    BY Zenon DEF IInv, TypeOK
  <2> HIDE DEF k
  <2>4. (latest \in [Blocks -> SUBSET Values])'
    BY <2>2, <2>3 DEF IInv, TypeOK
  <2> QED BY <2>1, <2>4, Zenon
<1>3. /\ iodone(b, f) /\ active' = active \ {b}
      /\ UNCHANGED <<cur, pc, u>>
  BY Zenon DEF DiskError
<1>4. CASE "ASYNC" \in f
  BY <1>1, <1>2, <1>3, <1>4, iodoneAsyncStep, Zenon
<1>5. CASE "ASYNC" \notin f
  BY <1>1, <1>2, <1>3, <1>5, iodoneWaitedStep, Zenon
<1> QED BY <1>4, <1>5, Zenon

-----------------------------------------------------------------------------
(* The invariant holds initially. *)
LEMMA InitIInv ==
  ASSUME Init PROVE IInv
<1> USE BufferAssumption
<1>1. bfreelist \in Seq(Bufs)
  <2>1. bfreelist \in [1..Cardinality(Bufs) -> Bufs]
    BY Zenon DEF Init
  <2> QED BY <2>1
<1>2. Nothing \in Locals
  BY Zenon DEF Nothing, Locals, AllOps
<1>3. TypeOK
  <2>1. b_data \in [Bufs -> Values] /\ disk \in [Blocks -> Values]
    BY ZenonT(40) DEF Init
  <2>2. latest \in [Blocks -> SUBSET Values]
    <3>1. PICK v \in Values : latest = [k \in Blocks |-> {v}]
      BY Zenon DEF Init
    <3> QED BY <3>1, Zenon
  <2> QED BY <1>1, <1>2, <2>1, <2>2, Zenon DEF Init, TypeOK, Labels, Flags
<1>4. \A p \in Procs : pc[p] = "user" /\ chan[p] = Null /\ u[p] = Nothing
  BY Zenon DEF Init
<1>5. Nothing.bp = Null /\ Nothing.op = "none"
  BY Zenon DEF Nothing
<1>6. RunningInv /\ LocalsInv /\ MissInv /\ GotInv /\ WaitInv
  BY <1>4, <1>5, Zenon DEF RunningInv, Transient, LocalsInv, MissInv, GotInv, WaitInv
<1>7. ActiveInv /\ BlockInv
  BY <1>4, Zenon DEF Init, ActiveInv, BlockInv
<1>8. AvailableIffNotBusy /\ OneBufferPerBlock
  BY Zenon DEF Init, AvailableIffNotBusy, OneBufferPerBlock
<1>9. ExclusiveOwner /\ NoLostWakeup
  BY <1>4, <1>5, Zenon DEF ExclusiveOwner, Holds, NoLostWakeup
<1> QED BY <1>3, <1>6, <1>7, <1>8, <1>9, Zenon DEF IInv, SInv

(* A step that changes nothing preserves the invariant. *)
LEMMA StutterIInv ==
  ASSUME IInv, UNCHANGED vars PROVE IInv'
<1> USE DEF IInv, SInv, vars
<1>1. TypeOK' /\ RunningInv' /\ ActiveInv' /\ GotInv' /\ WaitInv' /\ BlockInv'
  BY Zenon DEF TypeOK, RunningInv, ActiveInv, GotInv, WaitInv, BlockInv
<1>2. LocalsInv' /\ MissInv'
  BY Zenon DEF LocalsInv, FirstBlock, MissInv, incore
<1>3. AvailableIffNotBusy' /\ OneBufferPerBlock' /\ ExclusiveOwner' /\ NoLostWakeup'
  BY DEF AvailableIffNotBusy, OneBufferPerBlock, ExclusiveOwner, Holds,
     NoLostWakeup
<1> QED BY <1>1, <1>2, <1>3, Zenon

(* Every step preserves the invariant. *)
LEMMA NextIInv ==
  ASSUME IInv, [Next]_vars PROVE IInv'
<1>1. CASE UNCHANGED vars
  BY <1>1, StutterIInv, Zenon
<1>2. ASSUME NEW b \in Bufs, DiskDone(b) \/ DiskError(b) PROVE IInv'
  BY <1>2, DiskDoneStep, DiskErrorStep, Zenon
<1>3. ASSUME NEW p \in Procs, Process(p) PROVE IInv'
  <2>1. CASE Kernel(p)
    BY <2>1, SearchHitStep, SearchMissStep, HitBusyStep, HitFreeStep, NoneFreeStep,
       TakeDirtyStep, TakeCleanStep, FlushedStep, bflushStep, GotFirstStep,
       GotAheadStep, StartAheadStep, EndAheadStep, iowaitStep, ReadDoneStep,
       WriteDoneStep, StoreStep, StoreFailsStep, UpdateSkipsStep, ReleaseStep, bdwriteStep, bwriteStep, bawriteStep,
       AgedStep, WildDeviceStep, Zenon DEF Kernel
  <2>2. CASE Syscall(p) \/ Resume(p) \/ OwnerSleeps(p)
    BY <2>2, SyscallStep, ResumeStep, OwnerSleepsStep, Zenon
  <2>3. CASE Halted(p)
    BY <2>3, StutterIInv, Zenon DEF Halted
  <2> QED BY <1>3, <2>1, <2>2, <2>3, Zenon DEF Process
<1> QED BY <1>1, <1>2, <1>3, Zenon DEF Next

(* The inductive invariant holds in every reachable state, for any number of
   processes, buffers and blocks, with or without I/O errors. *)
THEOREM Invariance == Spec => []IInv
<1>1. Init => IInv
  BY InitIInv, Zenon
<1>2. IInv /\ [Next]_vars => IInv'
  BY NextIInv, Zenon
<1> QED BY <1>1, <1>2, PTL DEF Spec

(* No routine of bio.c leaves a variable outside its type: in particular no
   buffer is ever read in for NODEV. *)
THEOREM TypeCorrect == Spec => []TypeOK
<1>1. IInv => TypeOK
  BY Zenon DEF IInv
<1> QED BY <1>1, Invariance, PTL

(* The available list holds exactly the buffers that are not B_BUSY, each once:
   brelse, notavail and iodone agree about it (buf.h). *)
THEOREM AvailableList == Spec => []AvailableIffNotBusy
<1>1. IInv => AvailableIffNotBusy
  BY Zenon DEF IInv, SInv
<1> QED BY <1>1, Invariance, PTL

(* getblk never gives one block two buffers. *)
THEOREM OneBuffer == Spec => []OneBufferPerBlock
<1>1. IInv => OneBufferPerBlock
  BY Zenon DEF IInv, SInv
<1> QED BY <1>1, Invariance, PTL

(* A buffer that a process was given by getblk, geteblk, bread or breada is its
   own until it calls brelse or one of the writes. *)
THEOREM Ownership == Spec => []ExclusiveOwner
<1>1. IInv => ExclusiveOwner
  BY Zenon DEF IInv, SInv
<1> QED BY <1>1, Invariance, PTL

(* Whoever sleeps in getblk, geteblk or iowait is owed a wakeup by brelse or
   iodone. *)
THEOREM WakeupOwed == Spec => []NoLostWakeup
<1>1. IInv => NoLostWakeup
  BY Zenon DEF IInv, SInv
<1> QED BY <1>1, Invariance, PTL
-----------------------------------------------------------------------------
(***************************************************************************)
(* Without I/O errors a buffer keeps the block that getblk matched: the    *)
(* re-check that the code leaves out after spl0() is not needed.           *)
(***************************************************************************)
AskedInv ==
  /\ \A b \in Bufs : "ERROR" \notin b_flags[b]
  /\ \A p \in Procs : pc[p] \in {"hit", "got"} => b_blk[u[p].hit] = u[p].blk

(* No process marks a buffer in error or changes the block under a match. *)
LEMMA ProcessAsked ==
  ASSUME IInv, AskedInv, NEW p \in Procs, Process(p) PROVE AskedInv'
<1> USE BufferAssumption DEF IInv, SInv, TypeOK, AskedInv, bufVars, dataVars
<1>1. SearchHit(p) => AskedInv'
  BY DEF SearchHit, At, Goto, RunningInv, Transient, LocalsInv
<1>2. SearchMiss(p) => AskedInv'
  BY Zenon DEF SearchMiss, At, Goto, RunningInv, Transient, LocalsInv
<1>3. HitBusy(p) => AskedInv'
  BY DEF HitBusy, At, Goto, sleep, RunningInv, Transient, LocalsInv
<1>4. HitFree(p) => AskedInv'
  BY DEF HitFree, At, Goto, notavail, RunningInv, Transient, LocalsInv
<1>5. NoneFree(p) => AskedInv'
  BY DEF NoneFree, At, sleep, RunningInv, Transient, LocalsInv
<1>6. Flushed(p) => AskedInv'
  BY DEF Flushed, At, Goto, RunningInv, Transient, LocalsInv
<1>7. ASSUME GotFirst(p) PROVE AskedInv'
  <2>1. \A q \in Procs : pc'[q] \notin {"hit", "got"}
    BY <1>7 DEF GotFirst, At, Goto, RunningInv, Transient
  <2>2. b_blk' = b_blk /\ \A b \in Bufs : "ERROR" \notin b_flags'[b]
    BY <1>7 DEF GotFirst, Strategy
  <2> QED BY <2>1, <2>2
<1>8. StartAhead(p) => AskedInv'
  BY DEF StartAhead, At, Goto, RunningInv, Transient, LocalsInv
<1>9. EndAhead(p) => AskedInv'
  BY DEF EndAhead, At, Goto, Nothing, RunningInv, Transient, LocalsInv
<1>10. iowait(p) => AskedInv'
  BY Zenon DEF iowait, At, sleep, RunningInv, Transient, LocalsInv
<1>11. ReadDone(p) => AskedInv'
  BY SMTT(30) DEF ReadDone, At, Goto, RunningInv, Transient, LocalsInv
<1>12. WriteDone(p) => AskedInv'
  BY DEF WriteDone, At, brelse, Return, Goto, RunningInv, Transient, LocalsInv
<1>13. Store(p) => AskedInv'
  BY SMTT(30) DEF Store, At, Goto, RunningInv, Transient, LocalsInv
<1>14. Release(p) => AskedInv'
  BY DEF Release, At, brelse, Return, Goto, RunningInv, Transient, LocalsInv
<1>28. StoreFails(p) => AskedInv'
  BY DEF StoreFails, At, brelse, Return, Goto, RunningInv, Transient, LocalsInv
<1>29. UpdateSkips(p) => AskedInv'
  BY Zenon DEF UpdateSkips, At, Return, Goto, RunningInv, Transient, LocalsInv
<1>15. bdwrite(p) => AskedInv'
  BY DEF bdwrite, At, brelse, Return, Goto, RunningInv, Transient, LocalsInv
<1>16. bwrite(p) => AskedInv'
  BY DEF bwrite, At, Strategy, WriteFlags, Goto, RunningInv, Transient, LocalsInv
<1>17. bawrite(p) => AskedInv'
  BY DEF bawrite, At, Strategy, WriteFlags, Goto, Return, RunningInv, Transient, LocalsInv
<1>18. Aged(p) => AskedInv'
  BY DEF Aged, At, Goto, Return, RunningInv, Transient, LocalsInv
<1>19. WildDevice(p) => AskedInv'
  BY Zenon DEF WildDevice, At, Goto, RunningInv, Transient, LocalsInv
<1>20. Resume(p) => AskedInv'
  BY Zenon DEF Resume, At, RunningInv, Transient, LocalsInv
<1>21. OwnerSleeps(p) => AskedInv'
  BY Zenon DEF OwnerSleeps, At, RunningInv, Transient, LocalsInv
<1>22. TakeDirty(p) => AskedInv'
  BY DEF TakeDirty, At, StartFlush, notavail, WriteFlags, Goto, RunningInv, Transient, LocalsInv
<1>23. ASSUME GotAhead(p) PROVE AskedInv'
  <2>1. \A q \in Procs : pc'[q] \notin {"hit", "got"}
    BY <1>23, Zenon DEF GotAhead, At, Goto, RunningInv, Transient
  <2>2. CASE "DONE" \in b_flags[u[p].hit]
    BY <1>23, <2>1, <2>2 DEF GotAhead, At, brelse, LocalsInv
  <2>3. CASE "DONE" \notin b_flags[u[p].hit]
    <3>1. b_flags' = [b_flags EXCEPT ![u[p].hit] = @ \cup {"READ", "ASYNC"}]
      BY <1>23, <2>3 DEF GotAhead, Strategy
    <3>2. \A b \in Bufs : "ERROR" \notin b_flags'[b]
      BY <3>1
    <3> QED BY <2>1, <3>2
  <2> QED BY <2>2, <2>3, Zenon
<1>24. ASSUME bflush(p) PROVE AskedInv'
  <2>1. ASSUME NEW b \in Bufs, StartFlush(p, b), At(p, "bflush") PROVE AskedInv'
    BY <2>1, Zenon DEF StartFlush, notavail, WriteFlags, Goto, At, RunningInv, Transient
  <2>2. CASE Return(p) /\ UNCHANGED bufVars
    BY <1>24, <2>2, Zenon DEF bflush, At, Return, Goto, RunningInv, Transient
  <2>3. \A i \in 1..Len(bfreelist) : bfreelist[i] \in Bufs
    OBVIOUS
  <2> HIDE DEF IInv, SInv, TypeOK, AskedInv, bufVars
  <2> QED BY <1>24, <2>1, <2>2, <2>3, Zenon DEF bflush
<1>25. ASSUME TakeClean(p) PROVE AskedInv'
  <2> DEFINE b == Head(bfreelist)
  <2>1. b \in Bufs
    BY <1>25, HeadOn, Zenon DEF TakeClean
  <2>2. /\ b_flags' = [b_flags EXCEPT ![b] = {"BUSY"}]
        /\ b_blk' = [b_blk EXCEPT ![b] = u[p].blk]
    BY <1>25, Zenon DEF TakeClean, notavail
  <2>3. \A q \in Procs : q # p => pc'[q] \notin {"hit", "got"}
    BY <1>25, Zenon DEF TakeClean, At, Goto, RunningInv, Transient
  <2>4. pc'[p] \in {"hit", "got"} => u'[p].hit = b /\ u'[p].blk = u[p].blk
    BY <1>25 DEF TakeClean, At, Goto, Locals
  <2> QED BY <2>1, <2>2, <2>3, <2>4
<1>26. ASSUME Syscall(p) PROVE AskedInv'
  <2>1. UNCHANGED <<b_blk, b_flags>>
    BY <1>26, Zenon DEF Syscall
  <2>2. \A q \in Procs : pc'[q] \notin {"hit", "got"}
    BY <1>26, ZenonT(40) DEF Syscall, Bread, Getblk, Breada, Geteblk, Bflush, Goto, RunningInv, Transient
  <2> QED BY <2>1, <2>2, Zenon
<1>27. Halted(p) => AskedInv'
  BY Zenon DEF Halted, vars
<1> HIDE DEF IInv, SInv, TypeOK, AskedInv, bufVars, dataVars
<1> QED BY <1>1, <1>2, <1>3, <1>4, <1>5, <1>6, <1>7, <1>8, <1>9, <1>10, <1>11, <1>12, <1>13, <1>14, <1>15, <1>16, <1>17, <1>18, <1>19, <1>20, <1>21, <1>22, <1>23, <1>24, <1>25, <1>26, <1>27, <1>28, <1>29,
   Zenon DEF Process, Kernel

(* Nor does the interrupt of a transfer that succeeds. *)
LEMMA NextAsked ==
  ASSUME IInv, AskedInv, ~IOErrors, [Next]_vars PROVE AskedInv'
<1>1. CASE UNCHANGED vars
  BY <1>1, Zenon DEF AskedInv, vars
<1>2. ASSUME NEW b \in Bufs, DiskDone(b) PROVE AskedInv'
  <2>1. /\ UNCHANGED <<b_blk, pc, u>>
        /\ "ERROR" \notin b_flags'[b]
        /\ \A c \in Bufs : c # b => b_flags'[c] = b_flags[c]
    BY <1>2 DEF DiskDone, iodone, brelse, AskedInv, IInv, TypeOK
  <2> QED BY <2>1, Zenon DEF AskedInv
<1> QED BY <1>1, <1>2, ProcessAsked, Zenon DEF Next, DiskError

(* When no transfer fails, what getblk returns is the block its caller asked
   for, although the buffer is matched before spl6() and taken after it. *)
THEOREM AskedBlock == ~IOErrors /\ Spec => []GotWhatWasAsked
<1> SUFFICES ASSUME ~IOErrors PROVE Spec => []GotWhatWasAsked
  BY Zenon
<1>1. Init => AskedInv
  BY Zenon DEF Init, AskedInv
<1>2. IInv /\ AskedInv /\ [Next]_vars => AskedInv'
  BY NextAsked, Zenon
<1>3. AskedInv => GotWhatWasAsked
  BY Zenon DEF AskedInv, GotWhatWasAsked
<1> QED BY <1>1, <1>2, <1>3, Invariance, PTL DEF Spec
-----------------------------------------------------------------------------
(***************************************************************************)
(* Without I/O errors no buffer is forgotten.  A busy buffer that nobody   *)
(* holds is under an asynchronous transfer, whose end will release it; and *)
(* bflush, and breada that has put off its first block, hold none.         *)
(***************************************************************************)
KeptInv ==
  /\ \A b \in Bufs : "BUSY" \in b_flags[b] =>
       (b \in active /\ "ASYNC" \in b_flags[b]) \/ \E p \in Procs : Holds(p, b)
  /\ \A p \in Procs :
       /\ u[p].op = "bflush" => u[p].bp = Null /\ pc[p] \in {"bflush", "flushed"}
       /\ u[p].redo # NODEV => u[p].bp = Null /\ u[p].op # "geteblk"

(* What a step of p has to leave behind: each busy buffer is under an
   asynchronous transfer, held by p, or one that p has nothing to do with. *)
LEMMA KeptFrame ==
  ASSUME KeptInv, NEW p \in Procs, Elsewhere(p),
         u'[p].op = "bflush" => u'[p].bp = Null /\ pc'[p] \in {"bflush", "flushed"},
         u'[p].redo # NODEV => u'[p].bp = Null /\ u'[p].op # "geteblk",
         \A b \in Bufs : "BUSY" \in b_flags'[b] =>
           \/ b \in active' /\ "ASYNC" \in b_flags'[b]
           \/ Holds(p, b)'
           \/ /\ "BUSY" \in b_flags[b] /\ ~Holds(p, b)
              /\ b \in active /\ "ASYNC" \in b_flags[b] =>
                   b \in active' /\ "ASYNC" \in b_flags'[b]
  PROVE  KeptInv'
<1>1. ASSUME NEW b \in Bufs, NEW q \in Procs, q # p, Holds(q, b) PROVE Holds(q, b)'
  BY <1>1, Zenon DEF Elsewhere, Holds
<1>2. \A b \in Bufs : "BUSY" \in b_flags'[b] =>
        (b \in active' /\ "ASYNC" \in b_flags'[b]) \/ \E q \in Procs : Holds(q, b)'
  BY <1>1, Zenon DEF KeptInv
<1>3. \A q \in Procs :
        /\ u'[q].op = "bflush" => u'[q].bp = Null /\ pc'[q] \in {"bflush", "flushed"}
        /\ u'[q].redo # NODEV => u'[q].bp = Null /\ u'[q].op # "geteblk"
  BY Zenon DEF KeptInv, Elsewhere
<1> QED BY <1>2, <1>3, Zenon DEF KeptInv, Holds

(* A process without a buffer holds none. *)
LEMMA HoldsNone ==
  ASSUME NEW p \in Procs, u[p].bp = Null, pc[p] # "got"
  PROVE  \A c \in Bufs : ~Holds(p, c)
BY BufferAssumption DEF Holds

(* A flush of a delayed write. *)
LEMMA StartFlushKept ==
  ASSUME IInv, KeptInv, NEW p \in Procs, pc[p] \in {"take", "geteblk", "bflush"},
         NEW b \in Bufs, StartFlush(p, b)
  PROVE  KeptInv'
<1>1. /\ Elsewhere(p) /\ pc'[p] = "flushed"
      /\ u'[p].op = u[p].op /\ u'[p].bp = u[p].bp /\ u'[p].redo = u[p].redo
  BY DEF StartFlush, Goto, Elsewhere, IInv, TypeOK, Locals
<1>2. /\ active' = active \cup {b} /\ "ASYNC" \in b_flags'[b]
      /\ \A c \in Bufs : c # b => b_flags'[c] = b_flags[c]
  BY Zenon DEF StartFlush, notavail, IInv, TypeOK
<1>3. \A c \in Bufs : Holds(p, c)' <=> Holds(p, c)
  BY <1>1, Zenon DEF Holds
<1> QED BY <1>1, <1>2, <1>3, KeptFrame, Zenon DEF KeptInv

(* A process that returns with brelse of the buffer it had. *)
LEMMA GiveUpKept ==
  ASSUME IInv, KeptInv, NEW p \in Procs, pc[p] \in {"own", "dirty", "wwait"},
         NEW f \in SUBSET Flags, brelse(u[p].bp, f), Return(p), UNCHANGED active
  PROVE  KeptInv'
<1>1. /\ u[p].bp \in Bufs /\ "BUSY" \in b_flags[u[p].bp]
      /\ \A c \in Bufs : Holds(p, c) => c = u[p].bp
  BY Zenon DEF IInv, SInv, LocalsInv, ExclusiveOwner, Holds
<1>2. Released(u[p].bp, f)
  BY <1>1, brelseReleases, Zenon DEF IInv, SInv
<1>3. /\ Elsewhere(p) /\ u'[p].op = "none" /\ u'[p].redo = NODEV
  BY Zenon DEF Return, Goto, Nothing, Elsewhere, IInv, TypeOK
<1> QED BY <1>1, <1>2, <1>3, KeptFrame, Zenon DEF Released

(* No process forgets a buffer. *)
LEMMA ProcessKept ==
  ASSUME IInv, AskedInv, KeptInv, NEW p \in Procs, Process(p) PROVE KeptInv'
<1> USE BufferAssumption DEF IInv, SInv, TypeOK, KeptInv, bufVars, dataVars
<1>1. SearchHit(p) => KeptInv'
  BY DEF SearchHit, At, Goto, Holds, Locals
<1>2. SearchMiss(p) => KeptInv'
  BY DEF SearchMiss, At, Goto, Holds
<1>3. HitBusy(p) => KeptInv'
  BY SMTT(30) DEF HitBusy, At, Goto, sleep, Holds, LocalsInv
<1>4. HitFree(p) => KeptInv'
  BY DEF HitFree, At, Goto, notavail, Holds, LocalsInv
<1>5. NoneFree(p) => KeptInv'
  BY DEF NoneFree, At, sleep, Holds
<1>6. ASSUME TakeDirty(p) PROVE KeptInv'
  <2>1. Head(bfreelist) \in Bufs /\ pc[p] \in {"take", "geteblk", "bflush"}
    BY <1>6, HeadOn, Zenon DEF TakeDirty, At
  <2> HIDE DEF IInv, SInv, TypeOK, KeptInv, bufVars, dataVars
  <2> QED BY <1>6, <2>1, StartFlushKept, Zenon DEF TakeDirty
<1>7. ASSUME TakeClean(p) PROVE KeptInv'
  <2> DEFINE b == Head(bfreelist)
  <2>1. b \in Bufs
    BY <1>7, HeadOn, Zenon DEF TakeClean
  <2>2. /\ active' = active
        /\ \A c \in Bufs : c # b => b_flags'[c] = b_flags[c]
    BY <1>7, <2>1, Zenon DEF TakeClean, notavail
  <2>3. CASE pc[p] = "take"
    <3>1. /\ Elsewhere(p) /\ pc'[p] = "got" /\ u'[p].hit = b
          /\ u'[p].op = u[p].op /\ u'[p].bp = u[p].bp /\ u'[p].redo = u[p].redo
      BY <1>7, <2>3 DEF TakeClean, Goto, Elsewhere, Locals
    <3>2. u[p].op # "bflush"
      BY <2>3, Zenon
    <3>3. \A c \in Bufs : c = b \/ Holds(p, c) => Holds(p, c)'
      BY <2>3, <3>1, Zenon DEF Holds
    <3> HIDE DEF IInv, SInv, TypeOK, KeptInv, bufVars, dataVars
    <3> HIDE DEF b
    <3> QED BY <2>1, <2>2, <3>1, <3>2, <3>3, KeptFrame, Zenon DEF KeptInv
  <2>4. CASE pc[p] = "geteblk"
    <3>1. /\ Elsewhere(p) /\ pc'[p] = "own" /\ u'[p].bp = b
          /\ u'[p].op = u[p].op /\ u'[p].redo = u[p].redo
      BY <1>7, <2>4 DEF TakeClean, Goto, Elsewhere, Locals
    <3>2. u[p].op = "geteblk" /\ u[p].redo = NODEV /\ u[p].bp = Null
      BY <2>4, Zenon DEF LocalsInv
    <3>3. \A c \in Bufs : ~Holds(p, c)
      BY <2>4, <3>2, HoldsNone, Zenon
    <3>4. \A c \in Bufs : c = b => Holds(p, c)'
      BY <3>1, Zenon DEF Holds
    <3> HIDE DEF IInv, SInv, TypeOK, KeptInv, bufVars, dataVars
    <3> HIDE DEF b
    <3> QED BY <2>1, <2>2, <3>1, <3>2, <3>3, <3>4, KeptFrame, Zenon
  <2> QED BY <1>7, <2>3, <2>4, Zenon DEF TakeClean, At
<1>8. ASSUME Flushed(p) PROVE KeptInv'
  <2>1. /\ Elsewhere(p) /\ pc[p] = "flushed" /\ pc'[p] \in {"bflush", "geteblk", "search"}
        /\ u[p].op = "bflush" => pc'[p] = "bflush"
        /\ u'[p].op = u[p].op /\ u'[p].bp = u[p].bp /\ u'[p].redo = u[p].redo
    BY <1>8 DEF Flushed, At, Goto, Elsewhere, Locals
  <2>2. /\ active' = active
        /\ \A c \in Bufs : \A x \in {"BUSY", "ASYNC"} : x \in b_flags'[c] <=> x \in b_flags[c]
    BY <1>8, Zenon DEF Flushed
  <2>3. \A c \in Bufs : Holds(p, c)' <=> Holds(p, c)
    BY <2>1, Zenon DEF Holds
  <2> HIDE DEF IInv, SInv, TypeOK, KeptInv, bufVars, dataVars
  <2> QED BY <2>1, <2>2, <2>3, KeptFrame, Zenon DEF KeptInv
<1>9. ASSUME bflush(p) PROVE KeptInv'
  <2>1. \A i \in 1..Len(bfreelist) : bfreelist[i] \in Bufs
    OBVIOUS
  <2>2. CASE Return(p) /\ UNCHANGED <<bufVars, active>>
    <3>1. /\ Elsewhere(p) /\ u'[p].op = "none" /\ u'[p].redo = NODEV
      BY <2>2, Zenon DEF Return, Goto, Nothing, Elsewhere
    <3>2. \A c \in Bufs : ~Holds(p, c)
      <4>1. pc[p] = "bflush" /\ u[p].bp = Null
        BY <1>9, Zenon DEF bflush, At, LocalsInv
      <4> QED BY <4>1, HoldsNone, Zenon
    <3>3. b_flags' = b_flags /\ active' = active
      BY <2>2, Zenon
    <3> HIDE DEF IInv, SInv, TypeOK, KeptInv, bufVars, dataVars
    <3> QED BY <3>1, <3>2, <3>3, KeptFrame, Zenon
  <2>3. pc[p] \in {"take", "geteblk", "bflush"}
    BY <1>9, Zenon DEF bflush, At
  <2> HIDE DEF IInv, SInv, TypeOK, KeptInv, bufVars, dataVars
  <2> QED BY <1>9, <2>1, <2>2, <2>3, StartFlushKept, Zenon DEF bflush
<1>10. GotFirst(p) => KeptInv'
  BY DEF GotFirst, At, Goto, Strategy, FirstBlock, Holds, LocalsInv, Locals
<1>11. ASSUME GotAhead(p) PROVE KeptInv'
  <2> DEFINE b == u[p].hit
  <2>1. /\ Elsewhere(p) /\ pc[p] = "got" /\ pc'[p] = "ahead" /\ b \in Bufs
        /\ u'[p].op = u[p].op /\ u'[p].bp = u[p].bp /\ u'[p].redo = u[p].redo
    BY <1>11 DEF GotAhead, At, Goto, Elsewhere, Locals, LocalsInv
  <2>2. \A c \in Bufs : Holds(p, c) => Holds(p, c)' \/ c = b
    BY <2>1, Zenon DEF Holds
  <2>3. /\ \A c \in Bufs : c # b => b_flags'[c] = b_flags[c]
        /\ active \subseteq active'
        /\ "BUSY" \in b_flags'[b] => b \in active' /\ "ASYNC" \in b_flags'[b]
    <3>1. CASE "DONE" \in b_flags[b]
      <4>1. brelse(b, b_flags[b]) /\ active' = active
        BY <1>11, <3>1, Zenon DEF GotAhead
      <4>2. b_flags' = [b_flags EXCEPT ![b] = b_flags[b] \ {"WANTED", "BUSY", "ASYNC", "AGE"}]
        BY <4>1, Zenon DEF brelse
      <4> QED BY <2>1, <4>1, <4>2
    <3>2. CASE "DONE" \notin b_flags[b]
      <4>1. Strategy(b, b_flags[b] \cup {"READ", "ASYNC"})
        BY <1>11, <3>2, Zenon DEF GotAhead
      <4> QED BY <2>1, <4>1 DEF Strategy
    <3> QED BY <3>1, <3>2, Zenon
  <2> HIDE DEF IInv, SInv, TypeOK, KeptInv, bufVars, dataVars
  <2> HIDE DEF b
  <2> QED BY <2>1, <2>2, <2>3, KeptFrame, Zenon DEF KeptInv
<1>12. StartAhead(p) => KeptInv'
  BY DEF StartAhead, At, Goto, Holds, Locals
<1>13. ASSUME EndAhead(p) PROVE KeptInv'
  <2>1. b_flags' = b_flags /\ active' = active /\ pc[p] = "ahead"
    BY <1>13, Zenon DEF EndAhead, At
  <2>2. CASE u[p].redo # NODEV
    <3>1. Elsewhere(p) /\ u'[p].op = "breada" /\ u'[p].redo = NODEV
      <4> DEFINE r == [Nothing EXCEPT !.op = "breada", !.blk = u[p].redo]
      <4>1. r.op = "breada" /\ r.redo = NODEV
        BY Zenon DEF Nothing
      <4>2. u' = [u EXCEPT ![p] = r] /\ pc' = [pc EXCEPT ![p] = "search"]
        BY <1>13, <2>2, Zenon DEF EndAhead, Goto
      <4> HIDE DEF r
      <4> QED BY <4>1, <4>2, Zenon DEF Elsewhere
    <3>2. \A c \in Bufs : ~Holds(p, c)
      <4>1. u[p].bp = Null
        BY <2>2, Zenon
      <4> QED BY <2>1, <4>1, HoldsNone, Zenon
    <3> HIDE DEF IInv, SInv, TypeOK, KeptInv, bufVars, dataVars
    <3> QED BY <2>1, <3>1, <3>2, KeptFrame, Zenon
  <2>3. CASE u[p].redo = NODEV
    <3>1. /\ Elsewhere(p) /\ pc'[p] = "iowait"
          /\ u'[p].op = u[p].op /\ u'[p].bp = u[p].bp /\ u'[p].redo = u[p].redo
      BY <1>13, <2>3 DEF EndAhead, Goto, Elsewhere, Locals
    <3>2. \A c \in Bufs : Holds(p, c) => Holds(p, c)'
      BY <2>1, <3>1, Zenon DEF Holds
    <3> HIDE DEF IInv, SInv, TypeOK, KeptInv, bufVars, dataVars
    <3> QED BY <2>1, <2>3, <3>1, <3>2, KeptFrame, Zenon DEF KeptInv
  <2> QED BY <2>2, <2>3, Zenon
<1>14. iowait(p) => KeptInv'
  BY DEF iowait, At, sleep, Holds
<1>15. ReadDone(p) => KeptInv'
  BY SMTT(30) DEF ReadDone, At, Goto, Holds
<1>16. ASSUME WriteDone(p) PROVE KeptInv'
  <2>1. b_flags[u[p].bp] \in SUBSET Flags
    BY <1>16, Zenon DEF WriteDone, At, LocalsInv
  <2> HIDE DEF IInv, SInv, TypeOK, KeptInv, bufVars, dataVars
  <2> QED BY <1>16, <2>1, GiveUpKept, Zenon DEF WriteDone, At
<1>17. Store(p) => KeptInv'
  BY DEF Store, At, Goto, Holds
<1>18. ASSUME StoreFails(p) PROVE KeptInv'
  <2>1. /\ b_flags[u[p].bp] \in SUBSET Flags
        /\ brelse(u[p].bp, b_flags[u[p].bp])
        /\ Return(p) /\ active' = active /\ pc[p] = "own"
    <3>1. pc[p] = "own" /\ b_flags[u[p].bp] \in SUBSET Flags
      BY <1>18, ZenonT(40) DEF StoreFails, At, LocalsInv
    <3> QED BY <1>18, <3>1, Zenon DEF StoreFails
  <2> HIDE DEF IInv, SInv, TypeOK, KeptInv, bufVars, dataVars
  <2> QED BY <2>1, GiveUpKept, Zenon
<1>19. UpdateSkips(p) => KeptInv'
  BY DEF UpdateSkips, At, AskedInv, LocalsInv
<1>20. ASSUME Release(p) PROVE KeptInv'
  <2>1. /\ b_flags[u[p].bp] \in SUBSET Flags
        /\ brelse(u[p].bp, b_flags[u[p].bp])
        /\ Return(p) /\ active' = active /\ pc[p] = "own"
    <3>1. pc[p] = "own" /\ b_flags[u[p].bp] \in SUBSET Flags
      BY <1>20, Zenon DEF Release, At, LocalsInv
    <3> QED BY <1>20, <3>1, Zenon DEF Release
  <2> HIDE DEF IInv, SInv, TypeOK, KeptInv, bufVars, dataVars
  <2> QED BY <2>1, GiveUpKept, Zenon
<1>21. ASSUME bdwrite(p) PROVE KeptInv'
  <2>1. /\ b_flags[u[p].bp] \cup {"DELWRI", "DONE"} \in SUBSET Flags
        /\ brelse(u[p].bp, b_flags[u[p].bp] \cup {"DELWRI", "DONE"})
        /\ Return(p) /\ active' = active /\ pc[p] = "dirty"
    <3>1. pc[p] = "dirty" /\ b_flags[u[p].bp] \in SUBSET Flags
      BY <1>21, Zenon DEF bdwrite, At, LocalsInv
    <3> QED BY <1>21, <3>1, Zenon DEF bdwrite, Flags
  <2> HIDE DEF IInv, SInv, TypeOK, KeptInv, bufVars, dataVars
  <2> QED BY <2>1, GiveUpKept, Zenon
<1>22. ASSUME bwrite(p) PROVE KeptInv'
  <2> DEFINE b == u[p].bp
  <2>1. /\ Elsewhere(p) /\ pc[p] = "dirty" /\ pc'[p] = "wwait" /\ u' = u /\ b \in Bufs
    BY <1>22, Zenon DEF bwrite, At, Goto, Elsewhere, LocalsInv
  <2>2. \A c \in Bufs : (Holds(p, c) => c = b) /\ (c = b => Holds(p, c)')
    BY <2>1, Zenon DEF Holds
  <2>3. /\ \A c \in Bufs : c # b => b_flags'[c] = b_flags[c]
        /\ active' = active \cup {b}
    BY <1>22, Zenon DEF bwrite, Strategy
  <2>4. u[p].op # "bflush"
    BY <2>1, Zenon
  <2> HIDE DEF IInv, SInv, TypeOK, KeptInv, bufVars, dataVars
  <2> HIDE DEF b
  <2> QED BY <2>1, <2>2, <2>3, <2>4, KeptFrame, Zenon DEF KeptInv
<1>23. ASSUME bawrite(p) PROVE KeptInv'
  <2> DEFINE b == u[p].bp
  <2>1. /\ pc[p] = "dirty" /\ b \in Bufs /\ u[p].op # "bflush"
    BY <1>23, Zenon DEF bawrite, At, LocalsInv
  <2>2. \A c \in Bufs : Holds(p, c) => c = b
    BY <2>1, Zenon DEF Holds
  <2>3. /\ \A c \in Bufs : c # b => b_flags'[c] = b_flags[c]
        /\ active' = active \cup {b} /\ "ASYNC" \in b_flags'[b]
    BY <1>23, <2>1, Zenon DEF bawrite, Strategy
  <2>4. /\ Elsewhere(p) /\ u'[p].op # "bflush"
        /\ u'[p].redo # NODEV => u'[p].bp = Null /\ u'[p].op # "geteblk"
    <3>1. CASE "DELWRI" \in b_flags[b]
      BY <1>23, <2>1, <3>1, ZenonT(40) DEF bawrite, Goto, Elsewhere
    <3>2. CASE "DELWRI" \notin b_flags[b]
      <4>1. Return(p)
        BY <1>23, <3>2, Zenon DEF bawrite
      <4> QED BY <4>1 DEF Return, Goto, Nothing, Elsewhere
    <3> QED BY <3>1, <3>2, Zenon
  <2> HIDE DEF IInv, SInv, TypeOK, KeptInv, bufVars, dataVars
  <2> HIDE DEF b
  <2> QED BY <2>1, <2>2, <2>3, <2>4, KeptFrame, Zenon
<1>24. Aged(p) => KeptInv'
  BY DEF Aged, At, Return, Goto, Nothing, Holds, LocalsInv
<1>25. WildDevice(p) => KeptInv'
  BY SMTT(30) DEF WildDevice, At, Goto, Holds
<1>26. Resume(p) => KeptInv'
  BY DEF Resume, Holds
<1>27. OwnerSleeps(p) => KeptInv'
  BY DEF OwnerSleeps, Holds
<1>28. ASSUME Syscall(p) PROVE KeptInv'
  <2>1. b_flags' = b_flags /\ active' = active /\ pc[p] = "user"
    BY <1>28, Zenon DEF Syscall
  <2>2. \A c \in Bufs : ~Holds(p, c)
    <3>1. u[p].bp = Null
      BY <2>1, Zenon DEF LocalsInv
    <3> QED BY <2>1, <3>1, HoldsNone, Zenon
  <2>3. /\ Elsewhere(p) /\ u'[p].bp = Null
        /\ u'[p].op = "bflush" => pc'[p] = "bflush"
        /\ u'[p].redo # NODEV => u'[p].op = "breada"
    <3> DEFINE Entered(r, l) ==
          /\ u' = [u EXCEPT ![p] = r] /\ pc' = [pc EXCEPT ![p] = l]
          /\ r.bp = Null /\ (r.op = "bflush" => l = "bflush")
          /\ r.redo # NODEV => r.op = "breada"
    <3>1. ASSUME NEW k \in Blocks, Bread(p, k) PROVE \E r, l : Entered(r, l)
      <4>1. Entered([Nothing EXCEPT !.op = "bread", !.blk = k], "search")
        BY <3>1, Zenon DEF Bread, Goto, Nothing
      <4> QED BY <4>1, Zenon
    <3>2. ASSUME NEW k \in Blocks, Getblk(p, k) PROVE \E r, l : Entered(r, l)
      <4>1. Entered([Nothing EXCEPT !.op = "getblk", !.blk = k], "search")
        BY <3>2, Zenon DEF Getblk, Goto, Nothing
      <4> QED BY <4>1, Zenon
    <3>3. ASSUME NEW k \in Blocks, NEW ra \in Blocks \cup {NODEV}, Breada(p, k, ra)
          PROVE  \E r, l : Entered(r, l)
      <4>1. CASE incore(k)
        <5>1. Entered([Nothing EXCEPT !.op = "breada", !.ra = ra, !.redo = k], "ahead")
          BY <3>3, <4>1, Zenon DEF Breada, Goto, Nothing
        <5> QED BY <5>1, Zenon
      <4>2. CASE ~incore(k)
        <5>1. Entered([Nothing EXCEPT !.op = "breada", !.ra = ra, !.blk = k], "search")
          BY <3>3, <4>2, Zenon DEF Breada, Goto, Nothing
        <5> QED BY <5>1, Zenon
      <4> QED BY <4>1, <4>2, Zenon
    <3>4. ASSUME Geteblk(p) PROVE \E r, l : Entered(r, l)
      <4>1. Entered([Nothing EXCEPT !.op = "geteblk"], "geteblk")
        BY <3>4, Zenon DEF Geteblk, Goto, Nothing
      <4> QED BY <4>1, Zenon
    <3>5. ASSUME NEW k \in Blocks \cup {NODEV}, Bflush(p, k) PROVE \E r, l : Entered(r, l)
      <4>1. Entered([Nothing EXCEPT !.op = "bflush", !.ra = k], "bflush")
        BY <3>5, Zenon DEF Bflush, Goto, Nothing
      <4> QED BY <4>1, Zenon
    <3> HIDE DEF Entered
    <3>6. PICK r, l : Entered(r, l)
      BY <1>28, <3>1, <3>2, <3>3, <3>4, <3>5, Zenon DEF Syscall
    <3> QED BY <3>6 DEF Entered, Elsewhere
  <2> HIDE DEF IInv, SInv, TypeOK, KeptInv, bufVars, dataVars
  <2> QED BY <2>1, <2>2, <2>3, KeptFrame, Zenon
<1>29. Halted(p) => KeptInv'
  BY DEF Halted, vars, Holds
<1> HIDE DEF IInv, SInv, TypeOK, KeptInv, bufVars, dataVars
<1> QED BY <1>1, <1>2, <1>3, <1>4, <1>5, <1>6, <1>7, <1>8, <1>9, <1>10, <1>11, <1>12, <1>13, <1>14, <1>15, <1>16, <1>17, <1>18, <1>19, <1>20, <1>21, <1>22, <1>23, <1>24, <1>25, <1>26, <1>27, <1>28, <1>29, Zenon DEF Process, Kernel

(* Nor does the interrupt of a transfer: it releases an asynchronous buffer, and
   leaves another to its holder. *)
LEMMA NextKept ==
  ASSUME IInv, AskedInv, KeptInv, ~IOErrors, [Next]_vars PROVE KeptInv'
<1>1. CASE UNCHANGED vars
  BY <1>1, Zenon DEF KeptInv, Holds, vars
<1>2. ASSUME NEW b \in Bufs, DiskDone(b) PROVE KeptInv'
  <2>1. /\ UNCHANGED <<pc, u>> /\ active' = active \ {b}
        /\ "ASYNC" \in b_flags[b] => "BUSY" \notin b_flags'[b]
        /\ "BUSY" \in b_flags'[b] => "BUSY" \in b_flags[b]
        /\ \A c \in Bufs : c # b => b_flags'[c] = b_flags[c]
    BY <1>2 DEF DiskDone, iodone, brelse, IInv, TypeOK
  <2>2. \A q \in Procs : \A c \in Bufs : Holds(q, c)' <=> Holds(q, c)
    BY <2>1, Zenon DEF Holds
  <2>3. \A c \in Bufs : "BUSY" \in b_flags'[c] =>
          (c \in active' /\ "ASYNC" \in b_flags'[c]) \/ \E q \in Procs : Holds(q, c)'
    BY <2>1, <2>2 DEF KeptInv
  <2> QED BY <2>1, <2>3, Zenon DEF KeptInv, Holds
<1> QED BY <1>1, <1>2, ProcessKept, Zenon DEF Next, DiskError

(* When no transfer fails, every busy buffer is under transfer or in the hands of
   a process that will release or write it. *)
THEOREM BuffersKept == ~IOErrors /\ Spec => []NoneForgotten
<1> SUFFICES ASSUME ~IOErrors PROVE Spec => []NoneForgotten
  BY Zenon
<1>1. Init => AskedInv /\ KeptInv
  <2>1. Nothing.op = "none" /\ Nothing.redo = NODEV
    BY Zenon DEF Nothing
  <2> QED BY <2>1, Zenon DEF Init, AskedInv, KeptInv
<1>2. IInv /\ AskedInv /\ KeptInv /\ [Next]_vars => AskedInv' /\ KeptInv'
  BY NextAsked, NextKept, Zenon
<1>3. KeptInv => NoneForgotten
  BY Zenon DEF KeptInv, NoneForgotten
<1> QED BY <1>1, <1>2, <1>3, Invariance, PTL DEF Spec
=============================================================================
