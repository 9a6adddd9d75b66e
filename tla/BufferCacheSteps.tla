-------------------------- MODULE BufferCacheSteps --------------------------
(***************************************************************************)
(* The invariant is preserved by the actions that release a buffer, start  *)
(* a write, take a buffer off the available list or enter the cache.       *)
(***************************************************************************)
EXTENDS BufferCacheInv

(* A process that owns b gives it up with flags f and returns: brelse, also after
   a copy that failed, bdwrite, and bwrite once the transfer is over. *)
LEMMA GiveUpStep ==
  ASSUME IInv, NEW p \in Procs, NEW b \in Bufs, NEW f \in SUBSET Flags,
         cur = p, pc[p] \in {"own", "dirty", "wwait"}, u[p].bp = b, b \notin active,
         "WANTED" \in b_flags[b] => "WANTED" \in f,
         brelse(b, f), Return(p), UNCHANGED <<disk, active>>,
         (b_data \in [Bufs -> Values])', (latest \in [Blocks -> SUBSET Values])'
  PROVE  IInv'
<1> USE BufferAssumption DEF IInv, SInv
<1>1. Returned(p)
  BY ReturnReturned, Zenon
<1>2. "BUSY" \in b_flags[b] /\ \A q \in Procs : Holds(q, b) => q = p
  BY Zenon DEF ExclusiveOwner, Holds
<1>3. Released(b, f)
  BY <1>2, brelseReleases, Zenon
<1>4. TypeOK'
  BY <1>1, <1>3, Zenon DEF Returned, Released, TypeOK
<1>5. RunningInv' /\ LocalsInv'
  <2>1. RunningInv'
    BY <1>1, <1>3, Zenon DEF Returned, Elsewhere, Released, RunningInv, Transient
  <2>2. LocalsInv'
    BY <1>1 DEF Returned, Elsewhere, LocalsInv, FirstBlock
  <2> QED BY <2>1, <2>2, Zenon
<1>6. MissInv' /\ GotInv' /\ BlockInv'
  <2>1. \A q \in Procs : pc'[q] \notin Transient
    BY <1>1, Zenon DEF Returned, Elsewhere, RunningInv, Transient
  <2>2. \A c \in active : b_flags'[c] = b_flags[c] /\ b_blk'[c] = b_blk[c]
    BY <1>3, Zenon DEF Released, TypeOK
  <2> QED BY <2>1, <2>2, Zenon DEF MissInv, GotInv, BlockInv, Transient
<1>7. ActiveInv' /\ WaitInv'
  <2>1. ActiveInv'
    BY <1>3, Zenon DEF Released, ActiveInv, TypeOK
  <2>2. \A q \in Procs : u'[q].bp \in Bufs /\ pc'[q] # "aged" =>
          q # p /\ u'[q] = u[q] /\ pc'[q] = pc[q] /\ u[q].bp # b
    BY <1>1, <1>2, Zenon DEF Returned, Elsewhere, Holds
  <2>3. \A q \in Procs : pc'[q] # "aged"
    BY <1>1, Zenon DEF Returned, Elsewhere, RunningInv, Transient
  <2> QED BY <1>3, <2>1, <2>2, <2>3 DEF Released, WaitInv
<1>8. AvailableIffNotBusy' /\ OneBufferPerBlock'
  <2>1. \A c \in Bufs : b_blk'[c] \in {b_blk[c], NODEV}
    BY <1>3, Zenon DEF Released
  <2> QED BY <1>3, <2>1 DEF Released, OneBufferPerBlock
<1>9. ExclusiveOwner'
  <2>1. ASSUME NEW q \in Procs, NEW c \in Bufs, Holds(q, c)'
        PROVE  q # p /\ Holds(q, c) /\ c # b
    BY <1>1, <1>2, <2>1 DEF Returned, Elsewhere, Holds
  <2>2. \A c \in Bufs : c # b => b_flags'[c] = b_flags[c]
    BY <1>3, Zenon DEF Released
  <2> QED BY <1>1, <2>1, <2>2 DEF Returned, Elsewhere, ExclusiveOwner
<1>10. NoLostWakeup'
  BY <1>1, <1>2, <1>3 DEF Returned, Elsewhere, Released, NoLostWakeup, Holds, RunningInv
<1> QED BY <1>4, <1>5, <1>6, <1>7, <1>8, <1>9, <1>10, Zenon

(* WriteDone preserves the invariant. *)
LEMMA WriteDoneStep ==
  ASSUME IInv, NEW p \in Procs, WriteDone(p) PROVE IInv'
<1>1. /\ u[p].bp \in Bufs /\ b_flags[u[p].bp] \in SUBSET Flags
      /\ u[p].bp \notin active
  BY Zenon DEF IInv, SInv, TypeOK, LocalsInv, ActiveInv, WriteDone, At
<1>2. (b_data \in [Bufs -> Values])' /\ (latest \in [Blocks -> SUBSET Values])'
  BY Zenon DEF WriteDone, dataVars, IInv, TypeOK
<1> QED BY <1>1, <1>2, GiveUpStep, Zenon DEF WriteDone, At, dataVars

(* Release preserves the invariant. *)
LEMMA ReleaseStep ==
  ASSUME IInv, NEW p \in Procs, Release(p) PROVE IInv'
<1>1. /\ u[p].bp \in Bufs /\ b_flags[u[p].bp] \in SUBSET Flags
      /\ u[p].bp \notin active
  BY Zenon DEF IInv, SInv, TypeOK, LocalsInv, ExclusiveOwner, Holds, Release, At
<1>2. (b_data \in [Bufs -> Values])' /\ (latest \in [Blocks -> SUBSET Values])'
  BY Zenon DEF Release, dataVars, IInv, TypeOK
<1> QED BY <1>1, <1>2, GiveUpStep, Zenon DEF Release, At, dataVars

(* StoreFails preserves the invariant. *)
LEMMA StoreFailsStep ==
  ASSUME IInv, NEW p \in Procs, StoreFails(p) PROVE IInv'
<1> DEFINE b == u[p].bp
           cached == "DONE" \in b_flags[b] /\ "ERROR" \notin b_flags[b]
<1>1. b \in Bufs /\ b_flags[b] \in SUBSET Flags /\ b \notin active
  BY Zenon DEF IInv, SInv, TypeOK, LocalsInv, ExclusiveOwner, Holds, StoreFails, At
<1>2. PICK v \in Values :
        /\ b_data' = [b_data EXCEPT ![b] = v]
        /\ latest' = [k \in Blocks |-> IF k = b_blk[b] /\ cached
                                       THEN latest[k] \cup {v} ELSE latest[k]]
  BY Zenon DEF StoreFails
<1>3. cur = p /\ pc[p] = "own" /\ brelse(b, b_flags[b]) /\ Return(p)
      /\ UNCHANGED <<disk, active>>
  BY Zenon DEF StoreFails, At
<1> HIDE DEF cached
<1>4. (b_data \in [Bufs -> Values])'
  BY <1>2, Zenon DEF IInv, TypeOK
<1>5. (latest \in [Blocks -> SUBSET Values])'
  BY <1>2 DEF IInv, TypeOK
<1> QED BY <1>1, <1>3, <1>4, <1>5, GiveUpStep, Zenon

(* bdwrite preserves the invariant. *)
LEMMA bdwriteStep ==
  ASSUME IInv, NEW p \in Procs, bdwrite(p) PROVE IInv'
<1> DEFINE f == b_flags[u[p].bp] \cup {"DELWRI", "DONE"}
<1>1. u[p].bp \in Bufs /\ f \in SUBSET Flags /\ u[p].bp \notin active
  BY Zenon DEF IInv, SInv, TypeOK, LocalsInv, ExclusiveOwner, Holds, bdwrite, At, Flags
<1>2. brelse(u[p].bp, f) /\ ("WANTED" \in b_flags[u[p].bp] => "WANTED" \in f)
  BY Zenon DEF bdwrite
<1>3. (b_data \in [Bufs -> Values])' /\ (latest \in [Blocks -> SUBSET Values])'
  BY Zenon DEF bdwrite, dataVars, IInv, TypeOK
<1> HIDE DEF f
<1> QED BY <1>1, <1>2, <1>3, GiveUpStep, Zenon DEF bdwrite, At, dataVars

(* Aged preserves the invariant. *)
LEMMA AgedStep ==
  ASSUME IInv, NEW p \in Procs, Aged(p) PROVE IInv'
<1> USE BufferAssumption DEF IInv, SInv, Aged, At, dataVars
<1> DEFINE b == u[p].bp
<1>1. Returned(p)
  BY ReturnReturned, Zenon
<1>2. /\ b \in Bufs /\ b_flags' \in [Bufs -> SUBSET Flags]
      /\ \A c \in Bufs : \A x \in Flags \ {"AGE"} : x \in b_flags'[c] <=> x \in b_flags[c]
  BY Zenon DEF TypeOK, LocalsInv, Flags
<1>3. \A x \in {"BUSY", "DONE", "ASYNC", "READ", "WANTED"} : x \in Flags \ {"AGE"}
  BY Zenon DEF Flags
<1> HIDE DEF b
<1>4. TypeOK'
  BY <1>1, <1>2, Zenon DEF Returned, TypeOK
<1>5. RunningInv' /\ LocalsInv' /\ MissInv' /\ GotInv'
  BY <1>1 DEF Returned, Elsewhere, RunningInv, Transient, LocalsInv, FirstBlock,
     MissInv, GotInv
<1>6. ActiveInv' /\ AvailableIffNotBusy' /\ OneBufferPerBlock'
  BY <1>2, <1>3, Zenon DEF ActiveInv, AvailableIffNotBusy, OneBufferPerBlock, TypeOK
<1>7. BlockInv'
  <2>1. \A q \in Procs : pc'[q] \notin {"hit", "got"}
    BY <1>1, Zenon DEF Returned, Elsewhere, RunningInv, Transient
  <2> QED BY <1>2, <1>3, <2>1, Zenon DEF BlockInv, TypeOK
<1>8. ExclusiveOwner' /\ WaitInv'
  <2>1. ASSUME NEW q \in Procs, NEW c \in Bufs, Holds(q, c)'
        PROVE  Holds(q, c) /\ q # p /\ u'[q] = u[q] /\ pc'[q] = pc[q]
    BY <1>1, <2>1, Zenon DEF Returned, Elsewhere, Holds
  <2>2. ExclusiveOwner'
    BY <1>2, <1>3, <2>1 DEF ExclusiveOwner
  <2>3. WaitInv'
    BY <1>1, <1>2, <1>3 DEF WaitInv, Returned, Elsewhere
  <2> QED BY <2>2, <2>3, Zenon
<1>9. NoLostWakeup'
  BY <1>1, <1>2, <1>3, Zenon DEF Returned, Elsewhere, NoLostWakeup, RunningInv
<1> QED BY <1>4, <1>5, <1>6, <1>7, <1>8, <1>9, Zenon

(* bawrite preserves the invariant. *)
LEMMA bawriteStep ==
  ASSUME IInv, NEW p \in Procs, bawrite(p) PROVE IInv'
<1> USE BufferAssumption DEF IInv, SInv, dataVars
<1> DEFINE b == u[p].bp
           f == WriteFlags(b_flags[b]) \cup {"ASYNC"}
<1>1. /\ cur = p /\ pc[p] = "dirty" /\ b \in Bufs /\ b_blk[b] # NODEV
      /\ "BUSY" \in b_flags[b] /\ b \notin active
      /\ \A q \in Procs : Holds(q, b) => q = p
  BY Zenon DEF bawrite, At, LocalsInv, ExclusiveOwner, Holds
<1>2. /\ b_flags' \in [Bufs -> SUBSET Flags] /\ b_flags'[b] = f
      /\ \A c \in Bufs : c # b => b_flags'[c] = b_flags[c]
      /\ active' = active \cup {b}
      /\ UNCHANGED <<b_blk, bfreelist, flwanted, b_data, disk, latest, chan>>
  BY <1>1, Zenon DEF bawrite, Strategy, WriteFlags, TypeOK, Flags
<1>3. /\ "BUSY" \in f /\ "READ" \notin f /\ "DONE" \notin f /\ "ASYNC" \in f
      /\ "WANTED" \in b_flags[b] => "WANTED" \in f
  BY <1>1, Zenon DEF WriteFlags
<1>4. /\ Elsewhere(p) /\ u' \in [Procs -> Locals] /\ pc' \in [Procs -> Labels]
      /\ \/ pc'[p] = "aged" /\ u' = u /\ cur' = cur
         \/ Returned(p)
  <2>1. CASE "DELWRI" \in b_flags[b]
    BY <2>1 DEF bawrite, Goto, Elsewhere, TypeOK, Labels
  <2>2. CASE "DELWRI" \notin b_flags[b]
    <3>1. Returned(p)
      BY <2>2, ReturnReturned, Zenon DEF bawrite
    <3> QED BY <3>1, Zenon DEF Returned
  <2> QED BY <2>1, <2>2, Zenon
<1>5. u[p].bp = b
  BY Zenon
<1> HIDE DEF b, f
<1>6. TypeOK'
  BY <1>1, <1>2, <1>4, Zenon DEF Returned, TypeOK
<1>7. RunningInv' /\ LocalsInv'
  <2>1. RunningInv'
    BY <1>1, <1>2, <1>4 DEF Returned, Elsewhere, RunningInv, Transient
  <2>2. CASE Returned(p)
    BY <2>1, <2>2 DEF Returned, Elsewhere, LocalsInv, FirstBlock
  <2>3. CASE pc'[p] = "aged" /\ u' = u
    BY <1>1, <1>4, <1>5, <2>1, <2>3 DEF Elsewhere, LocalsInv, FirstBlock
  <2> QED BY <1>4, <2>1, <2>2, <2>3, Zenon
<1>8. MissInv' /\ GotInv' /\ BlockInv' /\ ActiveInv'
  <2>1. \A q \in Procs : pc'[q] \notin {"hit", "take", "got"}
    BY <1>1, <1>4, Zenon DEF Returned, Elsewhere, RunningInv, Transient
  <2>2. ActiveInv'
    BY <1>1, <1>2, <1>3, Zenon DEF ActiveInv, TypeOK
  <2> QED BY <1>1, <1>2, <1>3, <2>1, <2>2, Zenon DEF MissInv, GotInv, BlockInv, TypeOK
<1>11. AvailableIffNotBusy' /\ OneBufferPerBlock'
  BY <1>1, <1>2, <1>3, Zenon DEF AvailableIffNotBusy, OneBufferPerBlock
<1>9. WaitInv' /\ ExclusiveOwner'
  <2>1. ASSUME NEW q \in Procs, NEW c \in Bufs, Holds(q, c)'
        PROVE  q # p /\ Holds(q, c) /\ c # b
    BY <1>1, <1>4, <1>5, <2>1 DEF Returned, Elsewhere, Holds
  <2>2. ExclusiveOwner'
    BY <1>2, <1>4, <2>1, Zenon DEF Elsewhere, ExclusiveOwner
  <2>4. WaitInv'
    BY <1>1, <1>2, <1>4 DEF Elsewhere, Returned, WaitInv, Holds, RunningInv, Transient
  <2> QED BY <2>2, <2>4, Zenon
<1>10. NoLostWakeup'
  BY <1>1, <1>2, <1>3, <1>4, Zenon DEF Returned, Elsewhere, NoLostWakeup, RunningInv
<1> QED BY <1>6, <1>7, <1>8, <1>9, <1>10, <1>11, Zenon

(* A delayed write found on the available list is started. *)
LEMMA StartFlushStep ==
  ASSUME IInv, NEW p \in Procs, cur = p, pc[p] \in {"take", "geteblk", "bflush"},
         NEW b \in Bufs, "BUSY" \notin b_flags[b], StartFlush(p, b)
  PROVE  IInv'
<1> USE BufferAssumption DEF IInv, SInv, dataVars, StartFlush, Goto
<1> DEFINE f == WriteFlags(b_flags[b]) \cup {"ASYNC"}
<1>1. f \in SUBSET Flags /\ "ASYNC" \in f /\ "DONE" \notin f /\ "READ" \notin f
  BY Zenon DEF WriteFlags, TypeOK, Flags
<1> HIDE DEF f
<1>2. Taken(b, f)
  BY <1>1, notavailTakes, Zenon DEF f
<1>3. "BUSY" \in b_flags'[b] /\ "DONE" \notin b_flags'[b] /\ "READ" \notin b_flags'[b]
  BY <1>1, <1>2, Zenon DEF Taken
<1>4. TypeOK'
  <2>1. u[p] \in Locals
    BY Zenon DEF TypeOK
  <2>2. u' \in [Procs -> Locals]
    BY <2>1, LocalsUpdate, Zenon DEF TypeOK
  <2> QED BY <1>2, <2>2, Zenon DEF Taken, TypeOK, Labels
<1>5. RunningInv' /\ MissInv' /\ GotInv' /\ OneBufferPerBlock'
  BY Zenon DEF TypeOK, RunningInv, Transient, MissInv, incore, GotInv, OneBufferPerBlock
<1>6. LocalsInv'
  BY DEF TypeOK, LocalsInv, FirstBlock
<1>7. ActiveInv' /\ BlockInv' /\ AvailableIffNotBusy'
  BY <1>2, <1>3, Zenon DEF Taken, TypeOK, ActiveInv, BlockInv, RunningInv, Transient
<1>8. WaitInv' /\ ExclusiveOwner'
  BY <1>2 DEF Taken, TypeOK, WaitInv, ExclusiveOwner, Holds, RunningInv, Transient
<1>9. NoLostWakeup'
  BY <1>2 DEF Taken, TypeOK, NoLostWakeup, RunningInv
<1> QED BY <1>4, <1>5, <1>6, <1>7, <1>8, <1>9, Zenon

(* TakeDirty preserves the invariant. *)
LEMMA TakeDirtyStep ==
  ASSUME IInv, NEW p \in Procs, TakeDirty(p) PROVE IInv'
<1> DEFINE b == Head(bfreelist)
<1>1. b \in Bufs /\ On(b, bfreelist)
  BY HeadOn, Zenon DEF TakeDirty, IInv, TypeOK
<1>2. "BUSY" \notin b_flags[b]
  BY <1>1, Zenon DEF IInv, SInv, AvailableIffNotBusy
<1>3. cur = p /\ pc[p] \in {"take", "geteblk", "bflush"} /\ StartFlush(p, b)
  BY Zenon DEF TakeDirty, At
<1> HIDE DEF b
<1> QED BY <1>1, <1>2, <1>3, StartFlushStep, Zenon

(* A process returns and leaves the buffers as they are. *)
LEMMA ReturnStep ==
  ASSUME IInv, NEW p \in Procs, cur = p, Return(p),
         UNCHANGED <<bufVars, dataVars, active, chan>>
  PROVE  IInv'
<1> USE BufferAssumption DEF IInv, SInv, bufVars, dataVars
<1>1. Returned(p)
  BY ReturnReturned, Zenon
<1>2. TypeOK'
  BY <1>1, Zenon DEF Returned, TypeOK
<1>3. SInv'
  BY <1>1 DEF Returned, Elsewhere, RunningInv, Transient, LocalsInv, FirstBlock,
     ActiveInv, MissInv, incore, GotInv, BlockInv, WaitInv, AvailableIffNotBusy,
     OneBufferPerBlock, ExclusiveOwner, Holds, NoLostWakeup
<1> QED BY <1>2, <1>3, Zenon

(* UpdateSkips preserves the invariant: a buffer may be busy that nobody holds. *)
LEMMA UpdateSkipsStep ==
  ASSUME IInv, NEW p \in Procs, UpdateSkips(p) PROVE IInv'
BY ReturnStep, Zenon DEF UpdateSkips, At

(* bflush preserves the invariant. *)
LEMMA bflushStep ==
  ASSUME IInv, NEW p \in Procs, bflush(p) PROVE IInv'
<1>1. CASE \E i \in 1..Len(bfreelist) : StartFlush(p, bfreelist[i])
  <2>1. PICK i \in 1..Len(bfreelist) : StartFlush(p, bfreelist[i])
    BY <1>1, Zenon
  <2>2. bfreelist[i] \in Bufs /\ On(bfreelist[i], bfreelist)
    BY DEF IInv, TypeOK, On
  <2>3. "BUSY" \notin b_flags[bfreelist[i]]
    BY <2>2, Zenon DEF IInv, SInv, AvailableIffNotBusy
  <2>4. cur = p /\ pc[p] \in {"take", "geteblk", "bflush"}
    BY Zenon DEF bflush, At
  <2> QED BY <2>1, <2>2, <2>3, <2>4, StartFlushStep, Zenon
<1>2. CASE Return(p) /\ UNCHANGED <<bufVars, dataVars, active, chan>>
  BY <1>2, ReturnStep, Zenon DEF bflush, At
<1> QED BY <1>1, <1>2, Zenon DEF bflush

(* Syscall preserves the invariant. *)
LEMMA SyscallStep ==
  ASSUME IInv, NEW p \in Procs, Syscall(p) PROVE IInv'
<1> USE BufferAssumption DEF IInv, SInv, bufVars, dataVars
<1> DEFINE Good(r, l) ==
      /\ r.bp = Null /\ r.hit = Null
      /\ l \in {"search", "ahead", "geteblk", "bflush"}
      /\ l = "search" => r.blk # NODEV
      /\ l = "ahead" => r.redo # NODEV
      /\ l = "geteblk" <=> r.op = "geteblk"
      /\ l = "geteblk" => r.blk = NODEV
      /\ l = "bflush" => r.op = "bflush"
      /\ u' = [u EXCEPT ![p] = r]
      /\ pc' = [pc EXCEPT ![p] = l]
<1>1. \E r \in Locals : \E l \in Labels : Good(r, l)
  <2>1. ASSUME NEW k \in Blocks, Bread(p, k) PROVE \E r \in Locals : Good(r, "search")
    <3> DEFINE r == [Nothing EXCEPT !.op = "bread", !.blk = k]
    <3>1. r \in Locals /\ Good(r, "search")
      BY <2>1, Zenon DEF Bread, Goto, Nothing, Locals, AllOps
    <3> QED BY <3>1, Zenon
  <2>2. ASSUME NEW k \in Blocks, Getblk(p, k) PROVE \E r \in Locals : Good(r, "search")
    <3> DEFINE r == [Nothing EXCEPT !.op = "getblk", !.blk = k]
    <3>1. r \in Locals /\ Good(r, "search")
      BY <2>2, Zenon DEF Getblk, Goto, Nothing, Locals, AllOps
    <3> QED BY <3>1, Zenon
  <2>3. ASSUME NEW k \in Blocks, NEW ra \in Blocks \cup {NODEV}, Breada(p, k, ra)
        PROVE  \E r \in Locals : \E l \in Labels : Good(r, l)
    <3>1. CASE incore(k)
      <4> DEFINE r == [Nothing EXCEPT !.op = "breada", !.ra = ra, !.redo = k]
      <4>1. r \in Locals /\ Good(r, "ahead")
        BY <2>3, <3>1, Zenon DEF Breada, Goto, Nothing, Locals, AllOps
      <4> QED BY <4>1, Zenon DEF Labels
    <3>2. CASE ~incore(k)
      <4> DEFINE r == [Nothing EXCEPT !.op = "breada", !.ra = ra, !.blk = k]
      <4>1. r \in Locals /\ Good(r, "search")
        BY <2>3, <3>2, Zenon DEF Breada, Goto, Nothing, Locals, AllOps
      <4> QED BY <4>1, Zenon DEF Labels
    <3> QED BY <3>1, <3>2, Zenon
  <2>4. ASSUME Geteblk(p) PROVE \E r \in Locals : Good(r, "geteblk")
    <3> DEFINE r == [Nothing EXCEPT !.op = "geteblk"]
    <3>1. r \in Locals /\ Good(r, "geteblk")
      BY <2>4, Zenon DEF Geteblk, Goto, Nothing, Locals, AllOps
    <3> QED BY <3>1, Zenon
  <2>5. ASSUME NEW k \in Blocks \cup {NODEV}, Bflush(p, k)
        PROVE  \E r \in Locals : Good(r, "bflush")
    <3> DEFINE r == [Nothing EXCEPT !.op = "bflush", !.ra = k]
    <3>1. r \in Locals /\ Good(r, "bflush")
      BY <2>5, Zenon DEF Bflush, Goto, Nothing, Locals, AllOps
    <3> QED BY <3>1, Zenon
  <2> HIDE DEF Good
  <2>6. {"search", "ahead", "geteblk", "bflush"} \subseteq Labels
    BY Zenon DEF Labels
  <2> QED BY <2>1, <2>2, <2>3, <2>4, <2>5, <2>6, Zenon DEF Syscall
<1>2. PICK r \in Locals, l \in Labels : Good(r, l)
  BY <1>1, Zenon
<1>3. /\ cur = Null /\ pc[p] = "user" /\ cur' = p
      /\ UNCHANGED <<b_blk, b_flags, bfreelist, flwanted, b_data, disk, latest, active, chan>>
  BY Zenon DEF Syscall
<1>4. TypeOK'
  BY <1>2, <1>3, Zenon DEF TypeOK, Labels
<1>5. /\ \A q \in Procs : q # p => u'[q] = u[q] /\ pc'[q] = pc[q]
      /\ u'[p] = r /\ pc'[p] = l
  BY <1>2, Zenon DEF TypeOK
<1>6. SInv'
  BY <1>2, <1>3, <1>5 DEF RunningInv, Transient, LocalsInv, FirstBlock, ActiveInv,
     MissInv, incore, GotInv, BlockInv, WaitInv, AvailableIffNotBusy,
     OneBufferPerBlock, ExclusiveOwner, Holds, NoLostWakeup
<1> QED BY <1>4, <1>6, Zenon

(* TakeClean preserves the invariant. *)
LEMMA TakeCleanStep ==
  ASSUME IInv, NEW p \in Procs, TakeClean(p) PROVE IInv'
<1> USE BufferAssumption DEF IInv, SInv, dataVars
<1> DEFINE b == Head(bfreelist)
<1>1. b \in Bufs /\ "BUSY" \notin b_flags[b]
  <2>1. b \in Bufs /\ On(b, bfreelist)
    BY HeadOn, Zenon DEF TakeClean, TypeOK
  <2> QED BY <2>1, Zenon DEF AvailableIffNotBusy
<1>2. /\ cur = p /\ pc[p] \in {"take", "geteblk"}
      /\ b_blk' = [b_blk EXCEPT ![b] = u[p].blk]
      /\ UNCHANGED <<flwanted, b_data, disk, latest, active, cur, chan>>
  BY Zenon DEF TakeClean, At
<1>3. Taken(b, {})
  BY <1>1, notavailTakes, Zenon DEF TakeClean
<1>4. \/ /\ pc[p] = "take"
         /\ u' = [u EXCEPT ![p].hit = b]
         /\ pc' = [pc EXCEPT ![p] = "got"]
      \/ /\ pc[p] = "geteblk"
         /\ u' = [u EXCEPT ![p].bp = b]
         /\ pc' = [pc EXCEPT ![p] = "own"]
  BY Zenon DEF TakeClean, Goto
<1> HIDE DEF b
<1>5. /\ Elsewhere(p) /\ u' \in [Procs -> Locals] /\ pc' \in [Procs -> Labels]
      /\ u'[p].op = u[p].op /\ u'[p].blk = u[p].blk /\ u'[p].redo = u[p].redo
      /\ pc[p] = "take" => u'[p].hit = b /\ u'[p].bp = u[p].bp /\ pc'[p] = "got"
      /\ pc[p] = "geteblk" => u'[p].hit = u[p].hit /\ u'[p].bp = b /\ pc'[p] = "own"
  <2>1. u[p] \in Locals
    BY Zenon DEF TypeOK
  <2>2. [u[p] EXCEPT !.hit = b] \in Locals /\ [u[p] EXCEPT !.bp = b] \in Locals
    BY <1>1, <2>1, LocalsUpdate, Zenon
  <2>3. u' \in [Procs -> Locals] /\ pc' \in [Procs -> Labels]
    <3>1. pc' \in [Procs -> Labels]
      BY <1>4, Zenon DEF TypeOK, Labels
    <3>2. CASE u' = [u EXCEPT ![p].hit = b]
      BY <2>2, <3>1, <3>2, Zenon DEF TypeOK
    <3>3. CASE u' = [u EXCEPT ![p].bp = b]
      BY <2>2, <3>1, <3>3, Zenon DEF TypeOK
    <3> QED BY <1>4, <3>2, <3>3, Zenon
  <2>4. Elsewhere(p)
    BY <1>4, Zenon DEF TypeOK, Elsewhere
  <2>6. CASE pc[p] = "take"
    BY <1>4, <2>1, <2>3, <2>4, <2>6 DEF TypeOK, Locals
  <2>7. CASE pc[p] = "geteblk"
    BY <1>4, <2>1, <2>3, <2>4, <2>7 DEF TypeOK, Locals
  <2> QED BY <1>4, <2>6, <2>7, Zenon
<1>6. "BUSY" \in b_flags'[b] /\ "ASYNC" \notin b_flags'[b] /\ b \notin active
  BY <1>1, <1>3, Zenon DEF Taken, ActiveInv
<1>7. TypeOK'
  BY <1>1, <1>2, <1>3, <1>5, Zenon DEF Taken, TypeOK, Locals
<1>8. \A q \in Procs : ~Holds(q, b)
  BY <1>1, Zenon DEF ExclusiveOwner
<1>9. RunningInv' /\ MissInv' /\ GotInv' /\ AvailableIffNotBusy'
  BY <1>1, <1>2, <1>3, <1>5, <1>6 DEF Taken, Elsewhere, RunningInv, Transient,
     MissInv, GotInv
<1>10. BlockInv' /\ OneBufferPerBlock' /\ ActiveInv'
  <2>1. ActiveInv'
    BY <1>1, <1>2, <1>3, <1>6, Zenon DEF Taken, ActiveInv, TypeOK
  <2>2. \A q \in Procs : pc'[q] \in {"hit", "got"} => q = p /\ pc[p] = "take"
    <3>1. \A q \in Procs : q # p => pc'[q] = pc[q] /\ pc[q] \notin Transient
      BY <1>2, <1>5 DEF Elsewhere, RunningInv
    <3>2. pc[p] = "take" \/ pc'[p] = "own"
      BY <1>4, <1>5
    <3> QED BY <3>1, <3>2 DEF Transient
  <2>3. BlockInv'
    BY <1>1, <1>2, <1>3, <1>5, <1>6, <2>2, SMTT(30) DEF Taken, BlockInv, LocalsInv, TypeOK
  <2>4. OneBufferPerBlock'
    BY <1>1, <1>2 DEF OneBufferPerBlock, LocalsInv, MissInv, incore, TypeOK
  <2> QED BY <2>1, <2>3, <2>4
<1>11. LocalsInv' /\ WaitInv'
  <2>1. ASSUME NEW q \in Procs, q # p PROVE u[q].bp # b \/ pc[q] = "aged"
    BY <1>8, Zenon DEF Holds
  <2>2. LocalsInv'
    <3>1. CASE pc[p] = "take"
      BY <1>1, <1>2, <1>5, <1>8, <3>1 DEF Elsewhere, LocalsInv, FirstBlock, Holds
    <3>2. CASE pc[p] = "geteblk"
      BY <1>1, <1>2, <1>5, <3>2 DEF Elsewhere, LocalsInv, FirstBlock
    <3> QED BY <1>2, <3>1, <3>2, Zenon
  <2>3. WaitInv'
    <3>1. CASE pc[p] = "take"
      BY <1>1, <1>2, <1>3, <1>5, <1>8, <3>1 DEF Taken, Elsewhere, WaitInv, Holds
    <3>2. CASE pc[p] = "geteblk"
      BY <1>1, <1>2, <1>3, <1>5, <2>1, <3>2 DEF Taken, Elsewhere, WaitInv
    <3> QED BY <1>2, <3>1, <3>2, Zenon
  <2> QED BY <2>2, <2>3, Zenon
<1>12. ExclusiveOwner'
  <2>1. ASSUME NEW q \in Procs, NEW c \in Bufs, Holds(q, c)'
        PROVE  \/ q = p /\ c = b
               \/ c # b /\ Holds(q, c) /\ pc'[q] \in {pc[q], "got"}
    <3>1. CASE pc[p] = "take"
      BY <1>2, <1>5, <1>8, <2>1, <3>1, Zenon DEF Elsewhere, Holds
    <3>2. CASE pc[p] = "geteblk"
      BY <1>2, <1>5, <1>8, <2>1, <3>2, Zenon DEF Elsewhere, Holds
    <3> QED BY <1>2, <3>1, <3>2, Zenon
  <2> QED BY <1>1, <1>2, <1>3, <1>6, <2>1 DEF Taken, ExclusiveOwner
<1>13. NoLostWakeup'
  BY <1>1, <1>2, <1>3, <1>5 DEF Taken, Elsewhere, NoLostWakeup, RunningInv, TypeOK
<1> QED BY <1>7, <1>9, <1>10, <1>11, <1>12, <1>13, Zenon
=============================================================================
