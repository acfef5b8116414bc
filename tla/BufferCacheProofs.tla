--------------------------- MODULE BufferCacheProofs ---------------------------
(***************************************************************************)
(* For any number of processes, hands, blocks and buffers, reads that fail *)
(* included: counts, sleep-locks and the driver's queue agree with where   *)
(* the processes are, and no block is in two buffers.  With a disk whose   *)
(* reads do not fail the cache, its locks and the queue implement          *)
(* BlockStore.                                                             *)
(***************************************************************************)
EXTENDS BufferCache, FiniteSetTheorems, TLAPS

(* The processes that use a buffer can be counted.                         *)
LEMMA UsingFinite ==
    ASSUME NEW b \in Bufs
    PROVE  /\ IsFiniteSet(Using(b)) /\ Cardinality(Using(b)) \in Nat
           /\ Cardinality(Using(b)) = 0 <=> Using(b) = {}
<1>1. Using(b) \subseteq Hands
  BY DEF Using
<1>2. IsFiniteSet(Using(b))
  BY <1>1, CacheAssumption, FS_Subset
<1>3. QED
  BY <1>2, FS_CardinalityType, FS_EmptySet

(* What a process beyond bget may rely on.                                 *)
LEMMA MineFacts ==
    ASSUME CacheInv, NEW p \in Hands, pc[p] \notin {"user", "get", "panic"}
    PROVE  /\ mine[p] \in Bufs /\ want[p] \in Blocks /\ blockno[mine[p]] = want[p]
           /\ pc[p] \in Inside <=> locked[mine[p]] = p
<1>1. mine[p] \in Bufs
  BY CacheAssumption DEF CacheInv, Registered, TypeOK
<1>2. pc[p] # "user"
  OBVIOUS
<1>3. QED
  BY <1>1, <1>2, CacheAssumption DEF CacheInv, Registered, OneBuffer, CountsAgree

(* An unused buffer is nobody's.                                           *)
LEMMA UnusedFree ==
    ASSUME CacheInv, NEW b \in Unused
    PROVE  b \in Bufs /\ refcnt[b] = 0 /\ ~dirty[b] /\ Using(b) = {} /\ locked[b] = Nobody
<1>1. b \in Bufs /\ refcnt[b] = 0 /\ ~dirty[b]
  BY DEF Unused
<1>2. Using(b) = {}
  BY <1>1, UsingFinite DEF CacheInv, CountsAgree
<1>3. \A p \in Hands : locked[b] # p
  BY <1>1, <1>2 DEF CacheInv, CountsAgree, Using
<1>4. QED
  BY <1>1, <1>2, <1>3 DEF CacheInv, TypeOK

(* The buffer being transferred belongs to a process that waits for it.    *)
LEMMA HeadFacts ==
    ASSUME CacheInv, started
    PROVE  /\ idequeue # <<>> /\ Head(idequeue) \in Bufs
           /\ blockno[Head(idequeue)] \in Blocks
           /\ \E p \in Hands : pc[p] = "transfer" /\ mine[p] = Head(idequeue)
<1>1. idequeue # <<>> /\ idequeue \in Seq(Bufs)
  BY DEF CacheInv, QueueAgrees, TypeOK
<1>2. 1 \in DOMAIN idequeue /\ Head(idequeue) = idequeue[1] /\ Head(idequeue) \in Bufs
  BY <1>1
<1>3. \E p \in Hands : pc[p] = "transfer" /\ mine[p] = Head(idequeue)
  BY <1>2 DEF CacheInv, QueueAgrees
<1>4. QED
  BY <1>1, <1>2, <1>3, MineFacts

(* What the log holds back can be counted, and no step but log_write adds  *)
(* to it.                                                                  *)
LEMMA FewerHeldBack ==
    ASSUME CacheInv, HeldBack' \subseteq HeldBack
    PROVE  Cardinality(HeldBack') <= MaxDirty
<1>1. HeldBack \subseteq Bufs
  BY DEF HeldBack
<1>2. IsFiniteSet(HeldBack)
  BY <1>1, CacheAssumption, FS_Subset
<1>3. /\ Cardinality(HeldBack') <= Cardinality(HeldBack)
      /\ Cardinality(HeldBack') \in Nat /\ Cardinality(HeldBack) \in Nat
  BY <1>2, FS_Subset, FS_CardinalityType
<1>4. QED
  BY <1>3, CacheAssumption DEF CacheInv

LEMMA InitCache == Init => CacheInv
<1> SUFFICES ASSUME Init PROVE CacheInv
  OBVIOUS
<1> USE DEF Init
<1>e. <<>> \in Seq(Bufs)
  OBVIOUS
<1>0. idequeue \in Seq(Bufs) /\ started \in BOOLEAN
  BY <1>e, Zenon
<1>a. pc \in [Hands -> Places]
  BY DEF Places
<1>b. blockno \in [Bufs -> Blocks \cup {NoBlock}] /\ refcnt \in [Bufs -> Nat] /\ locked \in [Bufs -> Hands \cup {Nobody}]
  OBVIOUS
<1>c. valid \in [Bufs -> BOOLEAN] /\ dirty \in [Bufs -> BOOLEAN]
  OBVIOUS
<1>d. mine \in [Hands -> Bufs \cup {NoBuf}] /\ want \in [Hands -> Blocks \cup {NoBlock}]
  OBVIOUS
<1>1. TypeOK
  BY <1>0, <1>a, <1>b, <1>c, <1>d DEF TypeOK
<1>2. \A b \in Bufs : Using(b) = {} /\ refcnt[b] = 0
  BY CacheAssumption DEF Using
<1>3. CountsAgree
  BY <1>2, FS_EmptySet, CacheAssumption DEF CountsAgree, Using, Inside
<1>4. HeldBack = {}
  BY DEF HeldBack
<1>5. Cardinality(HeldBack) <= MaxDirty
  BY <1>4, FS_EmptySet, CacheAssumption
<1>6. OneBuffer /\ QueueAgrees /\ NoSleepOverFreeLock /\ Registered
  BY CacheAssumption DEF OneBuffer, QueueAgrees, NoSleepOverFreeLock, Registered
<1>7. QED
  BY <1>1, <1>3, <1>5, <1>6 DEF CacheInv
-----------------------------------------------------------------------------
(* Steps that move no reference and no lock, and touch no flag: what is    *)
(* used by whom stays.                                                     *)
LEMMA SameUsing ==
    ASSUME mine' = mine
    PROVE  \A b \in Bufs : Using(b)' = Using(b)
  BY DEF Using

(* bread begins.                                                           *)
LEMMA BreadStep ==
    ASSUME CacheInv, NEW p \in Hands, NEW k \in Blocks, Bread(p, k)
    PROVE  CacheInv'
<1> USE DEF Bread, Goto, buf, flags, drive
<1>1. TypeOK'
  BY DEF CacheInv, TypeOK, Places
<1>2. mine[p] = NoBuf
  BY DEF CacheInv, Registered
<1>3. OneBuffer'
  BY <1>2, CacheAssumption DEF CacheInv, OneBuffer, TypeOK
<1>4. CountsAgree'
  BY <1>2, SameUsing, CacheAssumption DEF CacheInv, CountsAgree, Inside, TypeOK
<1>5. QueueAgrees'
  BY <1>2, CacheAssumption DEF CacheInv, QueueAgrees, Ready, TypeOK
<1>6. NoSleepOverFreeLock' /\ Registered'
  BY DEF CacheInv, NoSleepOverFreeLock, Registered, TypeOK, Ready
<1>7. HeldBack' \subseteq HeldBack
  BY DEF CacheInv, TypeOK, HeldBack, Writing
<1>8. QED
  BY <1>1, <1>3, <1>4, <1>5, <1>6, <1>7, FewerHeldBack DEF CacheInv

(* bget finds the block, or recycles a buffer: one more user.              *)
LEMMA GetStep ==
    ASSUME CacheInv, NEW p \in Hands, NEW b \in Bufs, Hit(p, b) \/ Recycle(p, b)
    PROVE  CacheInv'
<1> USE DEF Goto, buf, flags, drive, Cached, NotCached, OneMore
<1>1. /\ pc[p] = "get" /\ mine[p] = NoBuf /\ want[p] \in Blocks
      /\ mine' = [mine EXCEPT ![p] = b] /\ pc' = [pc EXCEPT ![p] = "lock"]
      /\ UNCHANGED <<data, locked, idequeue, started, disk, want>>
  BY DEF Hit, Recycle, CacheInv, Registered
<1>2. /\ blockno'[b] = want[p] /\ refcnt'[b] = refcnt[b] + 1
      /\ \A c \in Bufs \ {b} : blockno'[c] = blockno[c] /\ refcnt'[c] = refcnt[c] /\ valid'[c] = valid[c] /\ dirty'[c] = dirty[c]
      /\ \A q \in Hands : mine[q] = b => blockno'[b] = blockno[b] /\ valid'[b] = valid[b]
      /\ dirty' = dirty
  <2>1. CASE Hit(p, b)
    BY <2>1 DEF Hit, CacheInv, TypeOK
  <2>2. CASE Recycle(p, b)
    <3>1. refcnt[b] = 0 /\ ~dirty[b] /\ \A q \in Hands : mine[q] # b
      BY <2>2, UnusedFree DEF Recycle, Using
    <3>2. dirty' = dirty
      BY <2>2, <3>1 DEF Recycle, CacheInv, TypeOK
    <3>3. blockno'[b] = want[p] /\ refcnt'[b] = refcnt[b] + 1
      BY <2>2, <3>1 DEF Recycle, CacheInv, TypeOK
    <3>4. \A c \in Bufs \ {b} : blockno'[c] = blockno[c] /\ refcnt'[c] = refcnt[c]
      BY <2>2 DEF Recycle, CacheInv, TypeOK
    <3>5. \A c \in Bufs \ {b} : valid'[c] = valid[c]
      BY <2>2 DEF Recycle, CacheInv, TypeOK
    <3>6. QED
      BY <3>1, <3>2, <3>3, <3>4, <3>5
  <2>3. QED
    BY <2>1, <2>2
<1>3. TypeOK'
  <2>1. CASE Hit(p, b)
    BY <2>1, <1>1 DEF Hit, CacheInv, TypeOK, Places
  <2>2. CASE Recycle(p, b)
    BY <2>2, <1>1 DEF Recycle, CacheInv, TypeOK, Places
  <2>3. QED
    BY <2>1, <2>2
<1>4. OneBuffer'
  BY <1>1, <1>2, CacheAssumption DEF Hit, Recycle, CacheInv, OneBuffer, TypeOK
<1>5. CountsAgree'
  <2>1. Using(b)' = Using(b) \cup {p} /\ p \notin Using(b)
    BY <1>1, CacheAssumption DEF Using, CacheInv, TypeOK
  <2>2. Cardinality(Using(b)') = Cardinality(Using(b)) + 1
    BY <2>1, UsingFinite, FS_AddElement
  <2>3. \A c \in Bufs \ {b} : Using(c)' = Using(c)
    BY <1>1, CacheAssumption DEF Using, CacheInv, TypeOK
  <2>4. \A c \in Bufs : refcnt'[c] = Cardinality(Using(c)')
    BY <1>2, <2>2, <2>3 DEF CacheInv, CountsAgree
  <2>5. \A q \in Hands, c \in Bufs : locked[c] = q <=> mine'[q] = c /\ pc'[q] \in Inside
    BY <1>1, CacheAssumption DEF CacheInv, CountsAgree, Inside, TypeOK
  <2>6. QED
    BY <1>1, <2>4, <2>5 DEF CountsAgree
<1>6. QueueAgrees'
  <2>1. ASSUME NEW c \in Bufs, NEW q \in Hands
        PROVE  /\ pc'[q] = "transfer" <=> pc[q] = "transfer"
               /\ pc[q] = "transfer" => (mine'[q] = c <=> mine[q] = c)
               /\ pc[q] = "transfer" /\ mine[q] = c => (Ready(c)' <=> Ready(c))
    BY <1>1, <1>2 DEF CacheInv, Ready, TypeOK
  <2>2. QED
    BY <1>1, <2>1 DEF CacheInv, QueueAgrees
<1>7. NoSleepOverFreeLock' /\ Registered'
  BY <1>1, <1>2, CacheAssumption DEF CacheInv, NoSleepOverFreeLock, Registered, TypeOK, Ready
<1>8. HeldBack' \subseteq HeldBack
  BY <1>1, <1>2, CacheAssumption DEF CacheInv, TypeOK, HeldBack, Writing
<1>9. QED
  BY <1>3, <1>4, <1>5, <1>6, <1>7, <1>8, FewerHeldBack DEF CacheInv

(* bget finds no buffer to recycle, and panics.                            *)
LEMMA PanicStep ==
    ASSUME CacheInv, NEW p \in Hands, NoBuffers(p)
    PROVE  CacheInv'
<1> USE DEF NoBuffers, Goto, buf, flags, drive, proc
<1>1. TypeOK'
  BY DEF CacheInv, TypeOK, Places
<1>2. mine[p] = NoBuf
  BY DEF CacheInv, Registered
<1>3. OneBuffer'
  BY DEF CacheInv, OneBuffer
<1>4. CountsAgree'
  BY <1>2, SameUsing, CacheAssumption DEF CacheInv, CountsAgree, Inside, TypeOK
<1>5. QueueAgrees'
  BY <1>2, CacheAssumption DEF CacheInv, QueueAgrees, Ready, TypeOK
<1>6. NoSleepOverFreeLock' /\ Registered'
  BY DEF CacheInv, NoSleepOverFreeLock, Registered, TypeOK, Ready
<1>7. HeldBack' \subseteq HeldBack
  BY DEF CacheInv, TypeOK, HeldBack, Writing
<1>8. QED
  BY <1>1, <1>3, <1>4, <1>5, <1>6, <1>7, FewerHeldBack DEF CacheInv

(* acquiresleep gets the lock, or does not.                                *)
LEMMA LockStep ==
    ASSUME CacheInv, NEW p \in Hands, Lock(p) \/ LockSleep(p)
    PROVE  CacheInv'
<1> USE DEF Goto, buf, flags, drive, proc
<1>1. pc[p] = "lock" /\ mine[p] \in Bufs /\ blockno[mine[p]] = want[p] /\ want[p] \in Blocks
  BY MineFacts DEF Lock, LockSleep
<1>2. /\ UNCHANGED <<blockno, refcnt, data, valid, dirty, idequeue, started, disk, mine, want>>
      /\ \A q \in Hands \ {p} : pc'[q] = pc[q]
      /\ pc'[p] \in {"asleep", "have", "rw"}
      /\ pc'[p] = "asleep" => locked[mine[p]] # Nobody /\ locked' = locked
      /\ pc'[p] # "asleep" => locked[mine[p]] = Nobody /\ locked' = [locked EXCEPT ![mine[p]] = p]
      /\ pc'[p] = "have" => valid[mine[p]]
      /\ pc'[p] = "rw" => ~valid[mine[p]]
  BY DEF Lock, LockSleep, CacheInv, TypeOK
<1>3. TypeOK'
  <2>1. CASE Lock(p)
    BY <2>1, <1>1 DEF Lock, CacheInv, TypeOK, Places
  <2>2. CASE LockSleep(p)
    BY <2>2, <1>1 DEF LockSleep, CacheInv, TypeOK, Places
  <2>3. QED
    BY <2>1, <2>2
<1>4. OneBuffer'
  BY <1>2 DEF CacheInv, OneBuffer
<1>5. CountsAgree'
  <2>1. \A q \in Hands, c \in Bufs : locked'[c] = q <=> mine[q] = c /\ pc'[q] \in Inside
    BY <1>1, <1>2, CacheAssumption DEF CacheInv, CountsAgree, Inside, TypeOK
  <2>2. QED
    BY <1>2, <2>1, SameUsing DEF CacheInv, CountsAgree
<1>6. QueueAgrees'
  BY <1>1, <1>2 DEF CacheInv, QueueAgrees, Ready
<1>7. NoSleepOverFreeLock'
  <2>1. CASE pc'[p] = "asleep"
    BY <2>1, <1>2 DEF CacheInv, NoSleepOverFreeLock
  <2>2. CASE pc'[p] # "asleep"
    <3>1. \A c \in Bufs : locked'[c] = locked[c] \/ locked'[c] = p
      BY <2>2, <1>2 DEF CacheInv, TypeOK
    <3>2. \A q \in Hands : pc'[q] = "asleep" => pc[q] = "asleep" /\ mine[q] \in Bufs
      BY <2>2, <1>2, MineFacts
    <3>3. QED
      BY <3>1, <3>2, <1>2, CacheAssumption DEF CacheInv, NoSleepOverFreeLock
  <2>3. QED
    BY <2>1, <2>2
<1>8. Registered'
  BY <1>1, <1>2 DEF CacheInv, Registered, Ready
<1>9. HeldBack' \subseteq HeldBack
  BY <1>1, <1>2 DEF HeldBack, Writing
<1>10. QED
  BY <1>3, <1>4, <1>5, <1>6, <1>7, <1>8, <1>9, FewerHeldBack DEF CacheInv

(* The holder writes into the data: nothing of the invariant is concerned. *)
LEMMA ChangeStep ==
    ASSUME CacheInv, NEW p \in Hands, NEW v \in Data, Change(p, v)
    PROVE  CacheInv'
<1> USE DEF Change, Goto, flags, drive, proc
<1>1. /\ UNCHANGED <<blockno, refcnt, valid, dirty, locked, idequeue, started, disk, mine, want>>
      /\ pc[p] = "have" /\ pc'[p] = "changed" /\ \A q \in Hands \ {p} : pc'[q] = pc[q]
  BY DEF CacheInv, TypeOK
<1>2. TypeOK'
  BY DEF CacheInv, TypeOK, Places
<1>3. OneBuffer' /\ NoSleepOverFreeLock' /\ Registered' /\ QueueAgrees'
  BY <1>1 DEF CacheInv, OneBuffer, NoSleepOverFreeLock, Registered, QueueAgrees, Ready
<1>4. CountsAgree'
  BY <1>1, SameUsing DEF CacheInv, CountsAgree, Inside
<1>5. HeldBack' \subseteq HeldBack
  BY <1>1 DEF HeldBack, Writing
<1>6. QED
  BY <1>2, <1>3, <1>4, <1>5, FewerHeldBack DEF CacheInv

(* A holder that is not waiting for a transfer is not in the queue.        *)
LEMMA HolderNotQueued ==
    ASSUME CacheInv, NEW p \in Hands, pc[p] \in {"have", "changed", "rw"}
    PROVE  \A q \in Hands : pc[q] \in Inside /\ mine[q] = mine[p] => q = p
<1>1. mine[p] \in Bufs /\ locked[mine[p]] = p
  BY MineFacts DEF Inside
<1>2. QED
  BY <1>1 DEF CacheInv, CountsAgree

(* Both ways to mark a buffer dirty: log_write keeps it back, bwrite goes  *)
(* on to the disk.                                                         *)
LEMMA DirtyStep ==
    ASSUME CacheInv, NEW p \in Hands, LogWrite(p) \/ Bwrite(p)
    PROVE  CacheInv'
<1> USE DEF Goto, buf, drive, proc
<1>1. /\ UNCHANGED <<blockno, refcnt, data, valid, locked, idequeue, started, disk, mine, want>>
      /\ pc[p] \in {"have", "changed"} /\ pc'[p] \in {"have", "rw"}
      /\ \A q \in Hands \ {p} : pc'[q] = pc[q]
      /\ dirty' = [dirty EXCEPT ![mine[p]] = TRUE]
      /\ mine[p] \in Bufs
  BY MineFacts DEF LogWrite, Bwrite, CacheInv, TypeOK
<1>2. TypeOK'
  <2>1. CASE LogWrite(p)
    BY <2>1 DEF LogWrite, CacheInv, TypeOK, Places
  <2>2. CASE Bwrite(p)
    BY <2>2 DEF Bwrite, CacheInv, TypeOK, Places
  <2>3. QED
    BY <2>1, <2>2
<1>3. OneBuffer' /\ NoSleepOverFreeLock'
  BY <1>1 DEF CacheInv, OneBuffer, NoSleepOverFreeLock
<1>4. CountsAgree'
  BY <1>1, SameUsing DEF CacheInv, CountsAgree, Inside
<1>5. dirty'[mine[p]] /\ \A c \in Bufs \ {mine[p]} : dirty'[c] = dirty[c]
  BY <1>1 DEF CacheInv, TypeOK
<1>6. QueueAgrees'
  <2>1. ASSUME NEW q \in Hands, pc[q] = "transfer"
        PROVE  pc'[q] = "transfer" /\ mine[q] # mine[p]
    BY <1>1, <2>1, HolderNotQueued DEF Inside
  <2>2. ASSUME NEW q \in Hands, pc'[q] = "transfer"
        PROVE  pc[q] = "transfer"
    BY <1>1, <2>2
  <2>3. QED
    BY <1>1, <1>5, <2>1, <2>2 DEF CacheInv, QueueAgrees, Ready
<1>7. Registered'
  <2>1. ASSUME NEW q \in Hands, pc'[q] = "rw" PROVE ~Ready(mine[q])'
    BY <1>1, <1>5, <2>1, HolderNotQueued DEF CacheInv, Registered, Ready, Inside
  <2>2. QED
    BY <1>1, <2>1 DEF CacheInv, Registered
<1>8. Cardinality(HeldBack') <= MaxDirty
  <2>1. CASE Bwrite(p)
    <3>1. HeldBack' \subseteq HeldBack
      BY <2>1, <1>1, <1>5 DEF Bwrite, HeldBack, Writing, CacheInv, TypeOK
    <3>2. QED
      BY <3>1, FewerHeldBack
  <2>2. CASE LogWrite(p)
    <3>1. HeldBack' \subseteq Dirty \cup {mine[p]}
      BY <1>5 DEF HeldBack, Dirty
    <3>2. IsFiniteSet(Dirty \cup {mine[p]})
      BY <1>1, CacheAssumption, FS_Subset DEF Dirty
    <3>3. /\ Cardinality(HeldBack') <= Cardinality(Dirty \cup {mine[p]})
          /\ Cardinality(HeldBack') \in Nat /\ Cardinality(Dirty \cup {mine[p]}) \in Nat
      BY <3>1, <3>2, FS_Subset, FS_CardinalityType
    <3>4. QED
      BY <2>2, <3>3, CacheAssumption DEF LogWrite, LogTakes
  <2>3. QED
    BY <2>1, <2>2
<1>9. QED
  BY <1>2, <1>3, <1>4, <1>6, <1>7, <1>8 DEF CacheInv

(* releasesleep: the lock is free and its waiters are awake.               *)
LEMMA UnlockStep ==
    ASSUME CacheInv, NEW p \in Hands, Unlock(p)
    PROVE  CacheInv'
<1> USE DEF buf, flags, drive, proc
<1>1. /\ UNCHANGED <<blockno, refcnt, data, valid, dirty, idequeue, started, disk, mine, want>>
      /\ pc[p] = "have" /\ pc'[p] = "release" /\ mine[p] \in Bufs
      /\ locked' = [locked EXCEPT ![mine[p]] = Nobody]
  BY MineFacts DEF Unlock, CacheInv, TypeOK
<1>2. \A q \in Hands \ {p} :
        /\ pc[q] = "asleep" /\ mine[q] = mine[p] => pc'[q] = "lock"
        /\ ~(pc[q] = "asleep" /\ mine[q] = mine[p]) => pc'[q] = pc[q]
  BY <1>1 DEF Unlock, Woken, Waiting
<1>3. TypeOK'
  <2>1. pc' \in [Hands -> Places]
    BY DEF Unlock, CacheInv, TypeOK, Places
  <2>2. locked' \in [Bufs -> Hands \cup {Nobody}]
    BY <1>1 DEF CacheInv, TypeOK
  <2>3. QED
    BY <1>1, <2>1, <2>2 DEF CacheInv, TypeOK
<1>4. OneBuffer'
  BY <1>1 DEF CacheInv, OneBuffer
<1>5. CountsAgree'
  <2>1. \A q \in Hands, c \in Bufs : locked'[c] = q <=> mine[q] = c /\ pc'[q] \in Inside
    <3>1. \A q \in Hands \ {p} : pc'[q] \in Inside <=> pc[q] \in Inside
      BY <1>2 DEF Inside
    <3>2. \A q \in Hands \ {p} : pc[q] \in Inside => mine[q] # mine[p]
      BY <1>1, HolderNotQueued
    <3>3. pc'[p] \notin Inside
      BY <1>1 DEF Inside
    <3>4. \A c \in Bufs : locked'[c] = IF c = mine[p] THEN Nobody ELSE locked[c]
      BY <1>1 DEF CacheInv, TypeOK
    <3>5. QED
      BY <1>1, <3>1, <3>2, <3>3, <3>4, CacheAssumption DEF CacheInv, CountsAgree
  <2>2. QED
    BY <1>1, <2>1, SameUsing DEF CacheInv, CountsAgree
<1>6. QueueAgrees'
  <2>1. \A q \in Hands : pc'[q] = "transfer" <=> pc[q] = "transfer"
    BY <1>1, <1>2
  <2>2. QED
    BY <1>1, <2>1 DEF CacheInv, QueueAgrees, Ready
<1>7. NoSleepOverFreeLock'
  <2>1. ASSUME NEW q \in Hands, pc'[q] = "asleep"
        PROVE  q # p /\ pc[q] = "asleep" /\ mine[q] # mine[p] /\ mine[q] \in Bufs
    BY <1>1, <1>2, <2>1, MineFacts
  <2>2. QED
    BY <1>1, <2>1 DEF CacheInv, TypeOK, NoSleepOverFreeLock
<1>8. Registered'
  BY <1>1, <1>2 DEF CacheInv, Registered, Ready
<1>9. HeldBack' \subseteq HeldBack
  BY <1>1, <1>2 DEF HeldBack, Writing
<1>10. QED
  BY <1>3, <1>4, <1>5, <1>6, <1>7, <1>8, <1>9, FewerHeldBack DEF CacheInv

(* brelse gives up the reference: one user less.                           *)
LEMMA BrelseStep ==
    ASSUME CacheInv, NEW p \in Hands, Brelse(p)
    PROVE  CacheInv'
<1> USE DEF Goto, flags, drive, LessOne
<1>1. /\ UNCHANGED <<blockno, data, valid, dirty, locked, idequeue, started, disk>>
      /\ pc[p] = "release" /\ pc'[p] = "user" /\ \A q \in Hands \ {p} : pc'[q] = pc[q]
      /\ mine[p] \in Bufs /\ mine'[p] = NoBuf /\ \A q \in Hands \ {p} : mine'[q] = mine[q] /\ want'[q] = want[q]
      /\ refcnt' = [refcnt EXCEPT ![mine[p]] = refcnt[mine[p]] - 1]
  BY MineFacts DEF Brelse, CacheInv, TypeOK
<1>2. \A c \in Bufs : refcnt'[c] = Cardinality(Using(c)')
  <2>0. PICK b \in Bufs : b = mine[p]
    BY <1>1
  <2>1. Using(b)' = Using(b) \ {p} /\ p \in Using(b)
    BY <1>1, <2>0, CacheAssumption DEF Using
  <2>2. Cardinality(Using(b)') = Cardinality(Using(b)) - 1
    BY <1>1, <2>0, <2>1, UsingFinite, FS_RemoveElement
  <2>3. \A c \in Bufs \ {b} : Using(c)' = Using(c)
    <3>1. \A c \in Bufs \ {b}, q \in Hands : mine'[q] = c <=> mine[q] = c
      BY <1>1, <2>0, CacheAssumption
    <3>2. QED
      BY <3>1 DEF Using
  <2>4. \A c \in Bufs \ {b} : refcnt'[c] = refcnt[c]
    BY <1>1, <2>0 DEF CacheInv, TypeOK
  <2>5. refcnt'[b] = refcnt[b] - 1
    BY <1>1, <2>0 DEF CacheInv, TypeOK
  <2>6. \A c \in Bufs : refcnt[c] = Cardinality(Using(c))
    BY DEF CacheInv, CountsAgree
  <2>7. ASSUME NEW c \in Bufs PROVE refcnt'[c] = Cardinality(Using(c)')
    <3>1. CASE c = b
      BY <3>1, <2>2, <2>5, <2>6
    <3>2. CASE c # b
      BY <3>2, <2>3, <2>4, <2>6
    <3>3. QED
      BY <3>1, <3>2
  <2>8. QED
    BY <2>7
<1>3. refcnt[mine[p]] \in Nat \ {0}
  <2>1. Using(mine[p]) # {}
    BY <1>1 DEF Using
  <2>2. QED
    BY <1>1, <2>1, UsingFinite DEF CacheInv, CountsAgree
<1>4. TypeOK'
  <2>1. refcnt' \in [Bufs -> Nat]
    BY <1>1, <1>3 DEF CacheInv, TypeOK
  <2>2. QED
    BY <1>1, <2>1 DEF Brelse, CacheInv, TypeOK, Places
<1>5. OneBuffer'
  BY <1>1 DEF CacheInv, OneBuffer
<1>6. CountsAgree'
  <2>1. \A q \in Hands, c \in Bufs : locked[c] = q <=> mine'[q] = c /\ pc'[q] \in Inside
    BY <1>1, CacheAssumption DEF CacheInv, CountsAgree, Inside
  <2>2. QED
    BY <1>1, <1>2, <2>1 DEF CountsAgree
<1>7. QueueAgrees' /\ NoSleepOverFreeLock'
  BY <1>1 DEF CacheInv, QueueAgrees, NoSleepOverFreeLock, Ready
<1>8. Registered'
  BY <1>1 DEF CacheInv, Registered, Ready
<1>9. HeldBack' \subseteq HeldBack
  BY <1>1, CacheAssumption DEF HeldBack, Writing
<1>10. QED
  BY <1>4, <1>5, <1>6, <1>7, <1>8, <1>9, FewerHeldBack DEF CacheInv

(* iderw puts the buffer in the queue, once.                               *)
LEMMA IderwStep ==
    ASSUME CacheInv, NEW p \in Hands, Iderw(p)
    PROVE  CacheInv'
<1> USE DEF Goto, buf, flags, proc
<1>1. /\ UNCHANGED <<blockno, refcnt, data, valid, dirty, locked, disk, mine, want>>
      /\ pc[p] = "rw" /\ pc'[p] = "transfer" /\ \A q \in Hands \ {p} : pc'[q] = pc[q]
      /\ mine[p] \in Bufs /\ ~Ready(mine[p])
      /\ idequeue' = Append(idequeue, mine[p]) /\ idequeue \in Seq(Bufs)
  BY MineFacts DEF Iderw, CacheInv, TypeOK, Registered
<1>2. \A i \in DOMAIN idequeue : idequeue[i] # mine[p]
  <2>1. \A q \in Hands : pc[q] = "transfer" => mine[q] # mine[p]
    BY <1>1, HolderNotQueued DEF Inside
  <2>2. QED
    BY <1>1, <2>1 DEF CacheInv, QueueAgrees
<1>3. /\ Len(idequeue) \in Nat /\ DOMAIN idequeue = 1 .. Len(idequeue)
      /\ DOMAIN idequeue' = 1 .. Len(idequeue) + 1
      /\ idequeue'[Len(idequeue) + 1] = mine[p]
      /\ \A i \in DOMAIN idequeue : idequeue'[i] = idequeue[i]
      /\ idequeue' # <<>> /\ idequeue' \in Seq(Bufs)
  BY <1>1
<1>4. TypeOK'
  BY <1>1, <1>3 DEF Iderw, Starts, CacheInv, TypeOK, Places
<1>5. OneBuffer' /\ NoSleepOverFreeLock' /\ Registered'
  BY <1>1 DEF CacheInv, OneBuffer, NoSleepOverFreeLock, Registered, Ready
<1>6. CountsAgree'
  BY <1>1, SameUsing DEF CacheInv, CountsAgree, Inside
<1>7. QueueAgrees'
  <2>1. started' <=> idequeue' # <<>>
    BY <1>3 DEF Iderw, Starts, CacheInv, QueueAgrees
  <2>2. \A i, j \in DOMAIN idequeue' : idequeue'[i] = idequeue'[j] => i = j
    BY <1>2, <1>3 DEF CacheInv, QueueAgrees
  <2>3. ASSUME NEW c \in Bufs
        PROVE  (\E i \in DOMAIN idequeue' : idequeue'[i] = c)
               <=> c = mine[p] \/ \E i \in DOMAIN idequeue : idequeue[i] = c
    BY <1>3
  <2>4. ASSUME NEW c \in Bufs
        PROVE  (\E q \in Hands : pc'[q] = "transfer" /\ mine[q] = c /\ ~Ready(c))
               <=> c = mine[p] \/ \E q \in Hands : pc[q] = "transfer" /\ mine[q] = c /\ ~Ready(c)
    BY <1>1
  <2>5. QED
    BY <1>1, <2>1, <2>2, <2>3, <2>4 DEF CacheInv, QueueAgrees, Ready
<1>8. HeldBack' \subseteq HeldBack
  BY <1>1 DEF HeldBack, Writing
<1>9. QED
  BY <1>4, <1>5, <1>6, <1>7, <1>8, FewerHeldBack DEF CacheInv

(* iderw returns: the interrupt has taken the buffer out of the queue.     *)
LEMMA IderwEndsStep ==
    ASSUME CacheInv, NEW p \in Hands, IderwEnds(p)
    PROVE  CacheInv'
<1> USE DEF Goto, buf, flags, drive, proc
<1>1. /\ UNCHANGED <<blockno, refcnt, data, valid, dirty, locked, idequeue, started, disk, mine, want>>
      /\ pc[p] = "transfer" /\ pc'[p] = "have" /\ \A q \in Hands \ {p} : pc'[q] = pc[q]
      /\ mine[p] \in Bufs /\ Ready(mine[p])
  BY MineFacts DEF IderwEnds, CacheInv, TypeOK
<1>2. TypeOK'
  BY DEF IderwEnds, CacheInv, TypeOK, Places
<1>3. OneBuffer' /\ NoSleepOverFreeLock' /\ Registered' /\ QueueAgrees'
  BY <1>1 DEF CacheInv, OneBuffer, NoSleepOverFreeLock, Registered, QueueAgrees, Ready
<1>4. CountsAgree'
  BY <1>1, SameUsing DEF CacheInv, CountsAgree, Inside
<1>5. HeldBack' \subseteq HeldBack
  BY <1>1 DEF HeldBack, Writing, Ready
<1>6. QED
  BY <1>2, <1>3, <1>4, <1>5, FewerHeldBack DEF CacheInv

(* The interrupt takes the first buffer out of the queue and makes it      *)
(* ready, whether or not the read succeeded.                               *)
LEMMA InterruptStep ==
    ASSUME CacheInv, NEW ok \in BOOLEAN, Ideintr(ok)
    PROVE  CacheInv'
<1> DEFINE first == Head(idequeue)
<1>1. started /\ UNCHANGED <<blockno, refcnt, locked, pc, mine, want>> /\ idequeue' = Tail(idequeue)
  BY DEF Ideintr, proc
<1>2. PICK b \in Bufs :
        /\ b = Head(idequeue) /\ blockno[b] \in Blocks /\ idequeue # <<>>
        /\ \E p \in Hands : pc[p] = "transfer" /\ mine[p] = b
  BY <1>1, HeadFacts
<1>3. /\ started' = (idequeue' # <<>>)
      /\ valid' = [valid EXCEPT ![b] = TRUE]
      /\ dirty' = [dirty EXCEPT ![b] = FALSE]
      /\ data' = [data EXCEPT ![b] = IF ok THEN Transferred(b) ELSE @]
      /\ disk' = IF dirty[b] THEN [disk EXCEPT ![blockno[b]] = data[b]] ELSE disk
  BY <1>2 DEF Ideintr
<1>4. /\ idequeue \in Seq(Bufs) /\ Len(idequeue) \in Nat \ {0}
      /\ DOMAIN idequeue = 1 .. Len(idequeue) /\ idequeue[1] = b
      /\ idequeue' \in Seq(Bufs) /\ DOMAIN idequeue' = 1 .. Len(idequeue) - 1
      /\ \A i \in DOMAIN idequeue' : idequeue'[i] = idequeue[i + 1]
  BY <1>1, <1>2 DEF CacheInv, TypeOK
<1>5. TypeOK'
  <2>1. valid' \in [Bufs -> BOOLEAN] /\ dirty' \in [Bufs -> BOOLEAN]
    BY <1>3 DEF CacheInv, TypeOK
  <2>2. disk' \in [Blocks -> Data]
    BY <1>2, <1>3 DEF CacheInv, TypeOK
  <2>3. Transferred(b) \in Data
    BY <1>2 DEF Transferred, CacheInv, TypeOK
  <2>4. data' \in [Bufs -> Data]
    BY <1>3, <2>3 DEF CacheInv, TypeOK
  <2>5. started' \in BOOLEAN
    BY <1>3
  <2>6. QED
    BY <1>1, <1>4, <2>1, <2>2, <2>4, <2>5 DEF CacheInv, TypeOK
<1>6. OneBuffer' /\ NoSleepOverFreeLock'
  BY <1>1 DEF CacheInv, OneBuffer, NoSleepOverFreeLock
<1>7. CountsAgree'
  BY <1>1, SameUsing DEF CacheInv, CountsAgree
<1>8. /\ Ready(b)' /\ valid'[b] /\ ~dirty'[b]
      /\ \A c \in Bufs \ {b} : valid'[c] = valid[c] /\ dirty'[c] = dirty[c]
  BY <1>3 DEF Ready, CacheInv, TypeOK
<1>9. \A p \in Hands : mine[p] = b /\ pc[p] \in Inside => pc[p] = "transfer"
  BY <1>2 DEF Inside, CacheInv, CountsAgree
<1>10. QueueAgrees'
  <2>1. \A i, j \in DOMAIN idequeue' : idequeue'[i] = idequeue'[j] => i = j
    <3>1. SUFFICES ASSUME NEW i \in DOMAIN idequeue', NEW j \in DOMAIN idequeue', idequeue'[i] = idequeue'[j]
                   PROVE  i = j
      OBVIOUS
    <3>2. i + 1 \in DOMAIN idequeue /\ j + 1 \in DOMAIN idequeue /\ idequeue[i + 1] = idequeue[j + 1]
      BY <1>4, <3>1
    <3>3. i + 1 = j + 1
      BY <3>2 DEF CacheInv, QueueAgrees
    <3>4. QED
      BY <3>3, <1>4
  <2>2. ASSUME NEW c \in Bufs
        PROVE  (\E i \in DOMAIN idequeue' : idequeue'[i] = c)
               <=> c # b /\ \E i \in DOMAIN idequeue : idequeue[i] = c
    <3>1. ASSUME NEW i \in DOMAIN idequeue', idequeue'[i] = c
          PROVE  i + 1 \in DOMAIN idequeue /\ idequeue[i + 1] = c /\ c # b
      <4>1. i + 1 \in DOMAIN idequeue /\ i + 1 # 1 /\ 1 \in DOMAIN idequeue /\ idequeue[i + 1] = c
        BY <1>4, <3>1
      <4>2. QED
        BY <4>1, <1>4 DEF CacheInv, QueueAgrees
    <3>2. ASSUME NEW i \in DOMAIN idequeue, idequeue[i] = c, c # b
          PROVE  i - 1 \in DOMAIN idequeue' /\ idequeue'[i - 1] = c
      BY <1>4, <3>2
    <3>3. QED
      BY <3>1, <3>2
  <2>3. ASSUME NEW c \in Bufs
        PROVE  (\E p \in Hands : pc[p] = "transfer" /\ mine[p] = c /\ ~Ready(c)')
               <=> c # b /\ \E p \in Hands : pc[p] = "transfer" /\ mine[p] = c /\ ~Ready(c)
    BY <1>8 DEF Ready
  <2>4. QED
    BY <1>1, <1>3, <2>1, <2>2, <2>3 DEF CacheInv, QueueAgrees
<1>11. Registered'
  <2>1. \A p \in Hands : pc[p] = "rw" => mine[p] \in Bufs \ {b}
    BY <1>9, MineFacts DEF Inside
  <2>2. \A p \in Hands : pc[p] = "rw" => ~Ready(mine[p])'
    BY <1>1, <1>8, <2>1 DEF CacheInv, Registered, Ready
  <2>3. \A p \in Hands : pc[p] \in {"have", "changed"} => valid'[mine[p]]
    BY <1>8, MineFacts DEF CacheInv, Registered
  <2>4. QED
    BY <1>1, <2>2, <2>3 DEF CacheInv, Registered
<1>12. HeldBack' \subseteq HeldBack
  BY <1>1, <1>8 DEF HeldBack, Writing
<1>13. QED
  BY <1>5, <1>6, <1>7, <1>10, <1>11, <1>12, FewerHeldBack DEF CacheInv

LEMMA StepCache == CacheInv /\ [Next]_vars => CacheInv'
<1> SUFFICES ASSUME CacheInv, [Next]_vars PROVE CacheInv'
  OBVIOUS
<1>1. CASE Interrupt
  BY <1>1, InterruptStep, CacheAssumption DEF Interrupt
<1>2. ASSUME NEW p \in Hands, Step(p) PROVE CacheInv'
  BY <1>2, GetStep, PanicStep, LockStep, UnlockStep, BrelseStep, IderwStep, IderwEndsStep DEF Step
<1>3. ASSUME NEW p \in Hands, Use(p) PROVE CacheInv'
  BY <1>3, BreadStep, ChangeStep, DirtyStep DEF Use
<1>4. CASE UNCHANGED vars \/ Halted
  <2>1. /\ UNCHANGED <<blockno, refcnt, data, valid, dirty, locked>>
        /\ UNCHANGED <<idequeue, started, disk, pc, mine, want>>
    BY <1>4 DEF Halted, vars, buf, flags, drive, proc
  <2>2. HeldBack' \subseteq HeldBack
    BY <2>1 DEF HeldBack, Writing
  <2>3. CountsAgree'
    BY <2>1, SameUsing DEF CacheInv, CountsAgree
  <2>4. QED
    BY <2>1, <2>2, <2>3, FewerHeldBack
    DEF CacheInv, TypeOK, OneBuffer, QueueAgrees, NoSleepOverFreeLock, Registered, Ready
<1>5. QED
  BY <1>1, <1>2, <1>3, <1>4 DEF Next

(* Reference counts, sleep-locks, the driver's queue and what the log      *)
(* holds back agree with where the processes are.                          *)
THEOREM CacheInvariant == Spec => []CacheInv
<1>1. QED
  BY InitCache, StepCache, PTL DEF Spec

(* A block is in one buffer at most, and a process gets the block it asked *)
(* bread() for.                                                            *)
THEOREM BlocksHaveOneBuffer == Spec => []OneBuffer
<1>1. CacheInv => OneBuffer
  BY DEF CacheInv
<1>2. QED
  BY <1>1, CacheInvariant, PTL
-----------------------------------------------------------------------------
(* The copy of a block that counts: OneBuffer leaves one at most.          *)
ContentIs(k) ==
    /\ \A b \in Bufs : blockno[b] = k /\ valid[b] => Content(k) = data[b]
    /\ (\A b \in Bufs : blockno[b] = k => ~valid[b]) => Content(k) = disk[k]

LEMMA ContentOf == CacheInv => \A k \in Blocks : ContentIs(k)
<1> SUFFICES ASSUME CacheInv, NEW k \in Blocks PROVE ContentIs(k)
  OBVIOUS
<1> DEFINE copies == {b \in Bufs : blockno[b] = k /\ valid[b]}
<1>1. ASSUME NEW b \in Bufs, blockno[b] = k, valid[b]
      PROVE  Content(k) = data[b]
  <2>1. \A c \in copies : c = b
    BY <1>1, CacheAssumption DEF CacheInv, OneBuffer
  <2>2. b \in copies
    BY <1>1
  <2>3. (CHOOSE c \in copies : TRUE) = b
    BY <2>1, <2>2
  <2>4. QED
    BY <2>2, <2>3 DEF Content
<1>2. ASSUME \A b \in Bufs : blockno[b] = k => ~valid[b]
      PROVE  Content(k) = disk[k]
  <2>1. copies = {}
    BY <1>2
  <2>2. QED
    BY <2>1 DEF Content
<1>3. QED
  BY <1>1, <1>2 DEF ContentIs

(* The process that has a block, of which the sleep-lock leaves at most    *)
(* one.                                                                    *)
Has(p, k) == pc[p] \in Inside /\ want[p] = k /\ valid[mine[p]]

LEMMA OneHolder ==
    ASSUME CacheInv, NEW k \in Blocks, NEW p \in Hands, NEW q \in Hands, Has(p, k), Has(q, k)
    PROVE  p = q
<1>1. mine[p] \in Bufs /\ mine[q] \in Bufs /\ blockno[mine[p]] = k /\ blockno[mine[q]] = k
  BY MineFacts DEF Has, Inside
<1>2. mine[p] = mine[q]
  BY <1>1, CacheAssumption DEF CacheInv, OneBuffer
<1>3. QED
  BY <1>1, <1>2 DEF CacheInv, CountsAgree, Has

HolderIs(k) ==
    /\ \A p \in Hands : Has(p, k) => Holder(k) = p
    /\ (\A p \in Hands : ~Has(p, k)) => Holder(k) = Nobody

LEMMA HolderOf == CacheInv => \A k \in Blocks : HolderIs(k)
<1> SUFFICES ASSUME CacheInv, NEW k \in Blocks PROVE HolderIs(k)
  OBVIOUS
<1> DEFINE holders == {p \in Hands : pc[p] \in Inside /\ want[p] = k /\ valid[mine[p]]}
<1>1. ASSUME NEW p \in Hands, Has(p, k)
      PROVE  Holder(k) = p
  <2>1. \A q \in holders : q = p
    BY <1>1, OneHolder DEF Has
  <2>2. p \in holders
    BY <1>1 DEF Has
  <2>3. (CHOOSE q \in holders : TRUE) = p
    BY <2>1, <2>2
  <2>4. QED
    BY <2>2, <2>3 DEF Holder
<1>2. ASSUME \A p \in Hands : ~Has(p, k)
      PROVE  Holder(k) = Nobody
  <2>1. holders = {}
    BY <1>2 DEF Has
  <2>2. QED
    BY <2>1 DEF Holder
<1>3. QED
  BY <1>1, <1>2 DEF HolderIs

-----------------------------------------------------------------------------
LEMMA InitCoherent == Init => Coherent
  BY DEF Init, Coherent

(* Steps that touch neither contents nor flags leave buffers and disk as   *)
(* they agree.                                                             *)
LEMMA QuietCoherent ==
    ASSUME CacheInv, Coherent,
           UNCHANGED <<blockno, data, valid, dirty, disk>>,
           \A q \in Hands : pc[q] = "changed" => pc'[q] = "changed" /\ mine'[q] = mine[q],
           \A q \in Hands : pc'[q] = "changed" => pc[q] = "changed"
    PROVE  Coherent'
  BY DEF Coherent

(* The interrupt makes a buffer and its block alike.                       *)
LEMMA InterruptCoherent ==
    ASSUME CacheInv, Coherent, Ideintr(TRUE)
    PROVE  Coherent'
<1>1. started /\ UNCHANGED <<blockno, pc, mine>>
  BY DEF Ideintr, proc
<1>2. PICK b \in Bufs : b = Head(idequeue) /\ blockno[b] \in Blocks
  BY <1>1, HeadFacts
<1>3. /\ valid' = [valid EXCEPT ![b] = TRUE]
      /\ dirty' = [dirty EXCEPT ![b] = FALSE]
      /\ data' = [data EXCEPT ![b] = Transferred(b)]
      /\ disk' = IF dirty[b] THEN [disk EXCEPT ![blockno[b]] = data[b]] ELSE disk
  BY <1>2 DEF Ideintr
<1>4. /\ valid'[b] /\ ~dirty'[b] /\ data'[b] = disk'[blockno[b]]
      /\ \A c \in Bufs \ {b} : valid'[c] = valid[c] /\ dirty'[c] = dirty[c] /\ data'[c] = data[c]
  BY <1>2, <1>3 DEF Transferred, CacheInv, TypeOK
<1>5. ASSUME NEW c \in Bufs \ {b}, blockno[c] \in Blocks
      PROVE  disk'[blockno[c]] = disk[blockno[c]]
  <2>1. blockno[c] # blockno[b]
    BY <1>2, <1>5, CacheAssumption DEF CacheInv, OneBuffer
  <2>2. QED
    BY <1>2, <1>3, <1>5, <2>1 DEF CacheInv, TypeOK
<1>6. QED
  BY <1>1, <1>2, <1>4, <1>5 DEF Coherent

LEMMA StepCoherent ==
    ASSUME Faults = FALSE, CacheInv, Coherent, [Next]_vars
    PROVE  Coherent'
<1> USE DEF Goto, buf, flags, drive, proc
<1>1. CASE Interrupt
  BY <1>1, InterruptCoherent DEF Interrupt
<1>2. ASSUME NEW p \in Hands, NEW b \in Bufs, Recycle(p, b) PROVE Coherent'
  <2>1. \A c \in Bufs \ {b} : blockno'[c] = blockno[c] /\ valid'[c] = valid[c] /\ dirty'[c] = dirty[c]
    BY <1>2 DEF Recycle, CacheInv, TypeOK
  <2>2. ~valid'[b] /\ ~dirty'[b]
    BY <1>2 DEF Recycle, CacheInv, TypeOK
  <2>3. \A q \in Hands : pc[q] = "changed" => pc'[q] = "changed" /\ mine'[q] = mine[q]
    BY <1>2 DEF Recycle, CacheInv, TypeOK
  <2>4. data' = data /\ disk' = disk
    BY <1>2 DEF Recycle
  <2>5. QED
    BY <2>1, <2>2, <2>3, <2>4 DEF Coherent
<1>3. ASSUME NEW p \in Hands, NEW v \in Data, Change(p, v) PROVE Coherent'
  <2>1. mine[p] \in Bufs /\ valid[mine[p]] /\ pc'[p] = "changed" /\ \A q \in Hands \ {p} : pc'[q] = pc[q]
    BY <1>3, MineFacts DEF Change, CacheInv, TypeOK, Registered
  <2>2. \A c \in Bufs \ {mine[p]} : data'[c] = data[c]
    BY <1>3 DEF Change, CacheInv, TypeOK
  <2>3. QED
    BY <1>3, <2>1, <2>2 DEF Change, Coherent
<1>4. ASSUME NEW p \in Hands, LogWrite(p) \/ Bwrite(p) PROVE Coherent'
  <2>0. pc[p] \in {"have", "changed"}
    BY <1>4 DEF LogWrite, Bwrite
  <2>1. mine[p] \in Bufs /\ valid[mine[p]]
    BY <2>0, MineFacts DEF CacheInv, Registered
  <2>q. \A q \in Hands \ {p} : pc'[q] = pc[q]
    BY <1>4 DEF LogWrite, Bwrite, CacheInv, TypeOK
  <2>2. dirty'[mine[p]] /\ \A c \in Bufs \ {mine[p]} : dirty'[c] = dirty[c]
    BY <1>4, <2>1 DEF LogWrite, Bwrite, CacheInv, TypeOK
  <2>3. UNCHANGED <<blockno, data, valid, disk, mine>>
    BY <1>4 DEF LogWrite, Bwrite
  <2>4. QED
    BY <2>1, <2>q, <2>2, <2>3 DEF Coherent
<1>5. ASSUME NEW p \in Hands, NEW k \in Blocks, Bread(p, k) PROVE Coherent'
  BY <1>5, QuietCoherent DEF Bread, CacheInv, TypeOK
<1>6. ASSUME NEW p \in Hands, NEW b \in Bufs, Hit(p, b) PROVE Coherent'
  BY <1>6, QuietCoherent DEF Hit, CacheInv, TypeOK
<1>7. ASSUME NEW p \in Hands, Lock(p) \/ LockSleep(p) PROVE Coherent'
  BY <1>7, QuietCoherent DEF Lock, LockSleep, CacheInv, TypeOK
<1>8. ASSUME NEW p \in Hands, Unlock(p) PROVE Coherent'
  BY <1>8, QuietCoherent DEF Unlock, Woken, Waiting
<1>9. ASSUME NEW p \in Hands, NoBuffers(p) \/ Brelse(p) \/ Iderw(p) \/ IderwEnds(p) PROVE Coherent'
  BY <1>9, QuietCoherent DEF NoBuffers, Brelse, Iderw, IderwEnds, CacheInv, TypeOK
<1>10. CASE UNCHANGED vars \/ Halted
  BY <1>10, QuietCoherent DEF Halted, vars
<1>11. QED
  BY <1>1, <1>2, <1>3, <1>4, <1>5, <1>6, <1>7, <1>8, <1>9, <1>10 DEF Next, Step, Use

(* A valid buffer that is neither held back by the log nor being changed   *)
(* is what the disk has: recycling it loses nothing.                       *)
THEOREM BuffersCoherent == Faults = FALSE => (Spec => []Coherent)
<1> SUFFICES ASSUME Faults = FALSE PROVE Spec => []Coherent
  OBVIOUS
<1>1. CacheInv /\ Coherent /\ [Next]_vars => Coherent'
  BY StepCoherent
<1>2. QED
  BY <1>1, InitCoherent, CacheInvariant, PTL DEF Spec

-----------------------------------------------------------------------------
(* The same in the next state.                                             *)
LEMMA StoreNext ==
    (CacheInv => \A k \in Blocks : ContentIs(k))' /\ (CacheInv => \A k \in Blocks : HolderIs(k))'
  BY ContentOf, HolderOf, PTL

LEMMA SameHolder ==
    ASSUME CacheInv, CacheInv', NEW k \in Blocks,
           \A q \in Hands : Has(q, k)' <=> Has(q, k)
    PROVE  Holder(k)' = Holder(k)
<1>1. HolderIs(k) /\ HolderIs(k)'
  BY HolderOf, StoreNext
<1>2. QED
  BY <1>1 DEF HolderIs

(* Steps between which no block changes hands or content.                  *)
LEMMA QuietStore ==
    ASSUME CacheInv, CacheInv', UNCHANGED <<blockno, data, valid, disk>>,
           \A q \in Hands, k \in Blocks : Has(q, k)' <=> Has(q, k)
    PROVE  UNCHANGED S!vars
<1>1. \A k \in Blocks : Content(k)' = Content(k)
  BY DEF Content
<1>2. \A k \in Blocks : Holder(k)' = Holder(k)
  BY SameHolder
<1>3. QED
  BY <1>1, <1>2 DEF S!vars

(* Recycling: what the buffer held is on the disk, and what it will hold   *)
(* has not been read yet.                                                  *)
LEMMA RecycleStore ==
    ASSUME CacheInv, CacheInv', Coherent, NEW p \in Hands, NEW b \in Bufs, Recycle(p, b)
    PROVE  UNCHANGED S!vars
<1>1. /\ Using(b) = {} /\ ~dirty[b] /\ pc[p] = "get" /\ pc'[p] = "lock"
      /\ \A q \in Hands \ {p} : pc'[q] = pc[q] /\ mine'[q] = mine[q]
      /\ \A q \in Hands : mine[q] # b
      /\ UNCHANGED <<data, disk, want>>
  BY UnusedFree DEF Recycle, Goto, CacheInv, TypeOK, Using
<1>2. /\ ~valid'[b] /\ \A c \in Bufs \ {b} : blockno'[c] = blockno[c] /\ valid'[c] = valid[c]
  BY DEF Recycle, CacheInv, TypeOK
<1>3. ASSUME NEW k \in Blocks PROVE Content(k)' = Content(k)
  <2>1. ContentIs(k) /\ ContentIs(k)'
    BY ContentOf, StoreNext
  <2>2. CASE \E c \in Bufs \ {b} : blockno[c] = k /\ valid[c]
    BY <1>1, <1>2, <2>1, <2>2 DEF ContentIs
  <2>3. CASE blockno[b] = k /\ valid[b]
    <3>1. Content(k) = disk[k]
      BY <1>1, <2>1, <2>3 DEF ContentIs, Coherent
    <3>2. \A c \in Bufs : blockno'[c] = k => ~valid'[c]
      BY <1>2, <2>3, CacheAssumption DEF CacheInv, OneBuffer
    <3>3. QED
      BY <1>1, <2>1, <3>1, <3>2 DEF ContentIs
  <2>4. CASE \A c \in Bufs : blockno[c] = k => ~valid[c]
    BY <1>1, <1>2, <2>1, <2>4 DEF ContentIs
  <2>5. QED
    BY <2>2, <2>3, <2>4
<1>4. ASSUME NEW k \in Blocks, NEW q \in Hands PROVE Has(q, k)' <=> Has(q, k)
  <2>1. CASE q = p
    BY <1>1, <2>1 DEF Has, Inside
  <2>2. CASE q # p /\ pc[q] \in Inside
    <3>1. mine[q] \in Bufs \ {b}
      BY <1>1, <2>2, MineFacts DEF Inside
    <3>2. QED
      BY <1>1, <1>2, <2>2, <3>1 DEF Has
  <2>3. CASE q # p /\ pc[q] \notin Inside
    BY <1>1, <2>3 DEF Has
  <2>4. QED
    BY <2>1, <2>2, <2>3
<1>5. QED
  BY <1>3, <1>4, SameHolder DEF S!vars

(* Locking a buffer that is valid takes its block.                         *)
LEMMA LockStore ==
    ASSUME CacheInv, CacheInv', NEW p \in Hands, Lock(p)
    PROVE  [S!Next]_(S!vars)
<1>1. PICK b \in Bufs : b = mine[p] /\ blockno[b] = want[p] /\ want[p] \in Blocks /\ locked[b] = Nobody
  BY MineFacts DEF Lock
<1>2. PICK k \in Blocks : k = want[p]
  BY <1>1
<1>3. /\ UNCHANGED <<blockno, data, valid, disk, mine, want>>
      /\ pc[p] = "lock" /\ pc'[p] = IF valid[b] THEN "have" ELSE "rw"
      /\ \A q \in Hands \ {p} : pc'[q] = pc[q]
  BY <1>1 DEF Lock, Goto, buf, flags, proc, CacheInv, TypeOK
<1>4. CASE ~valid[b]
  <2>1. \A q \in Hands, j \in Blocks : Has(q, j)' <=> Has(q, j)
    BY <1>1, <1>3, <1>4 DEF Has, Inside
  <2>2. QED
    BY <1>3, <2>1, QuietStore
<1>5. CASE valid[b]
  <2>1. \A q \in Hands : ~Has(q, k)
    <3>1. SUFFICES ASSUME NEW q \in Hands, Has(q, k) PROVE FALSE
      OBVIOUS
    <3>2. mine[q] \in Bufs /\ blockno[mine[q]] = k /\ locked[mine[q]] = q
      BY <3>1, MineFacts DEF Has, Inside
    <3>3. mine[q] = b
      BY <1>1, <1>2, <3>2, CacheAssumption DEF CacheInv, OneBuffer
    <3>4. QED
      BY <1>1, <3>2, <3>3, CacheAssumption
  <2>2. Has(p, k)'
    BY <1>1, <1>2, <1>3, <1>5 DEF Has, Inside
  <2>3. Holder(k) = Nobody /\ Holder(k)' = p
    <3>1. HolderIs(k) /\ HolderIs(k)'
      BY HolderOf, StoreNext
    <3>2. QED
      BY <2>1, <2>2, <3>1 DEF HolderIs
  <2>4. ASSUME NEW j \in Blocks \ {k} PROVE Holder(j)' = Holder(j)
    <3>1. \A q \in Hands : Has(q, j)' <=> Has(q, j)
      BY <1>2, <1>3 DEF Has, Inside
    <3>2. QED
      BY <3>1, SameHolder
  <2>5. \A j \in Blocks : Content(j)' = Content(j)
    BY <1>3 DEF Content
  <2>6. S!Take(p, k)
    BY <2>3, <2>4, <2>5 DEF S!Take
  <2>7. QED
    BY <2>6 DEF S!Next
<1>6. QED
  BY <1>4, <1>5

(* Only the holder changes a block.                                        *)
LEMMA ChangeStore ==
    ASSUME CacheInv, CacheInv', NEW p \in Hands, NEW v \in Data, Change(p, v)
    PROVE  S!Next
<1>1. PICK b \in Bufs : b = mine[p] /\ blockno[b] = want[p] /\ want[p] \in Blocks /\ valid[b]
  BY MineFacts DEF Change, CacheInv, Registered
<1>2. PICK k \in Blocks : k = want[p]
  BY <1>1
<1>3. /\ UNCHANGED <<blockno, valid, disk, mine, want>>
      /\ pc[p] = "have" /\ pc'[p] = "changed" /\ \A q \in Hands \ {p} : pc'[q] = pc[q]
      /\ data'[b] = v /\ \A c \in Bufs \ {b} : data'[c] = data[c]
  BY <1>1 DEF Change, Goto, flags, proc, CacheInv, TypeOK
<1>4. Holder(k) = p
  <2>1. Has(p, k) /\ HolderIs(k)
    BY <1>1, <1>2, <1>3, HolderOf DEF Has, Inside
  <2>2. QED
    BY <2>1 DEF HolderIs
<1>5. ASSUME NEW j \in Blocks PROVE Holder(j)' = Holder(j)
  <2>1. \A q \in Hands : Has(q, j)' <=> Has(q, j)
    BY <1>3 DEF Has, Inside
  <2>2. QED
    BY <2>1, SameHolder
<1>6. ASSUME NEW j \in Blocks PROVE Content(j)' = IF j = k THEN v ELSE Content(j)
  <2>1. ContentIs(j) /\ ContentIs(j)'
    BY ContentOf, StoreNext
  <2>2. CASE j = k
    BY <1>1, <1>2, <1>3, <2>1, <2>2 DEF ContentIs
  <2>3. CASE j # k
    <3>1. \A c \in Bufs : blockno[c] = j => c # b
      BY <1>1, <1>2, <2>3
    <3>2. QED
      BY <1>3, <2>1, <2>3, <3>1 DEF ContentIs
  <2>4. QED
    BY <2>2, <2>3
<1>7. S!Change(p, k)
  BY <1>4, <1>5, <1>6 DEF S!Change
<1>8. QED
  BY <1>7 DEF S!Next

(* releasesleep lets the block go.                                         *)
LEMMA UnlockStore ==
    ASSUME CacheInv, CacheInv', NEW p \in Hands, Unlock(p)
    PROVE  S!Next
<1>1. /\ UNCHANGED <<blockno, data, valid, disk, mine, want>>
      /\ pc[p] = "have" /\ pc'[p] = "release"
      /\ mine[p] \in Bufs /\ valid[mine[p]] /\ want[p] \in Blocks
  BY MineFacts DEF Unlock, buf, flags, proc, CacheInv, TypeOK, Registered
<1>2. PICK k \in Blocks : k = want[p]
  BY <1>1
<1>3. \A q \in Hands \ {p} : pc'[q] \in Inside <=> pc[q] \in Inside
  BY DEF Unlock, Woken, Waiting, Inside
<1>4. Has(p, k) /\ \A q \in Hands : ~Has(q, k)'
  <2>1. Has(p, k)
    BY <1>1, <1>2 DEF Has, Inside
  <2>2. \A q \in Hands \ {p} : ~Has(q, k)
    BY <2>1, OneHolder
  <2>3. QED
    BY <1>1, <1>3, <2>1, <2>2 DEF Has, Inside
<1>5. Holder(k) = p /\ Holder(k)' = Nobody
  <2>1. HolderIs(k) /\ HolderIs(k)'
    BY HolderOf, StoreNext
  <2>2. QED
    BY <1>4, <2>1 DEF HolderIs
<1>6. ASSUME NEW j \in Blocks \ {k} PROVE Holder(j)' = Holder(j)
  <2>1. \A q \in Hands : Has(q, j)' <=> Has(q, j)
    BY <1>1, <1>2, <1>3 DEF Has
  <2>2. QED
    BY <2>1, SameHolder
<1>7. \A j \in Blocks : Content(j)' = Content(j)
  BY <1>1 DEF Content
<1>8. S!Leave(p, k)
  BY <1>5, <1>6, <1>7 DEF S!Leave
<1>9. QED
  BY <1>8 DEF S!Next

(* A read hands its block to the process that waits for it; a write        *)
(* changes nothing but the disk.                                           *)
LEMMA InterruptStore ==
    ASSUME CacheInv, CacheInv', Coherent, Ideintr(TRUE)
    PROVE  [S!Next]_(S!vars)
<1>1. started /\ UNCHANGED <<blockno, pc, mine, want>>
  BY DEF Ideintr, proc
<1>2. PICK b \in Bufs :
        /\ b = Head(idequeue) /\ blockno[b] \in Blocks /\ idequeue # <<>>
        /\ \E p \in Hands : pc[p] = "transfer" /\ mine[p] = b
  BY <1>1, HeadFacts
<1>3. PICK p \in Hands : pc[p] = "transfer" /\ mine[p] = b
  BY <1>2
<1>4. PICK k \in Blocks : k = blockno[b]
  BY <1>2
<1>5. want[p] = k /\ ~Ready(b)
  <2>1. want[p] = k
    BY <1>3, <1>4, MineFacts
  <2>2. 1 \in DOMAIN idequeue /\ idequeue[1] = b
    BY <1>2 DEF CacheInv, TypeOK
  <2>3. QED
    BY <2>1, <2>2 DEF CacheInv, QueueAgrees
<1>6. /\ valid'[b] /\ data'[b] = Transferred(b)
      /\ \A c \in Bufs \ {b} : valid'[c] = valid[c] /\ data'[c] = data[c]
      /\ \A i \in Blocks \ {k} : disk'[i] = disk[i]
  <2>1. /\ valid' = [valid EXCEPT ![b] = TRUE]
        /\ data' = [data EXCEPT ![b] = Transferred(b)]
        /\ disk' = IF dirty[b] THEN [disk EXCEPT ![k] = data[b]] ELSE disk
    BY <1>2, <1>4 DEF Ideintr
  <2>2. QED
    BY <2>1 DEF CacheInv, TypeOK
<1>7. \A c \in Bufs \ {b} : blockno[c] # k
  BY <1>4, CacheAssumption DEF CacheInv, OneBuffer
<1>8. Content(k)' = Content(k)
  <2>1. ContentIs(k) /\ ContentIs(k)'
    BY ContentOf, StoreNext
  <2>2. Content(k)' = Transferred(b)
    BY <1>1, <1>4, <1>6, <2>1 DEF ContentIs
  <2>3. CASE dirty[b]
    BY <1>4, <2>1, <2>2, <2>3 DEF ContentIs, Transferred, Coherent
  <2>4. CASE ~dirty[b]
    <3>1. Transferred(b) = disk[k] /\ ~valid[b]
      BY <1>4, <1>5, <2>4 DEF Transferred, Ready
    <3>2. Content(k) = disk[k]
      BY <1>7, <2>1, <3>1 DEF ContentIs
    <3>3. QED
      BY <2>2, <3>1, <3>2
  <2>5. QED
    BY <2>3, <2>4
<1>9. ASSUME NEW i \in Blocks \ {k} PROVE Content(i)' = Content(i) /\ Holder(i)' = Holder(i)
  <2>1. ContentIs(i) /\ ContentIs(i)'
    BY ContentOf, StoreNext
  <2>2. Content(i)' = Content(i)
    BY <1>1, <1>4, <1>6, <2>1 DEF ContentIs
  <2>3. ASSUME NEW q \in Hands PROVE Has(q, i)' <=> Has(q, i)
    <3>1. CASE pc[q] \in Inside /\ want[q] = i
      <4>1. mine[q] \in Bufs \ {b}
        BY <1>4, <3>1, MineFacts DEF Inside
      <4>2. QED
        BY <1>1, <1>6, <4>1 DEF Has
    <3>2. CASE ~(pc[q] \in Inside /\ want[q] = i)
      BY <1>1, <3>2 DEF Has
    <3>3. QED
      BY <3>1, <3>2
  <2>4. QED
    BY <2>2, <2>3, SameHolder
<1>10. Has(p, k)'
  BY <1>1, <1>3, <1>5, <1>6 DEF Has, Inside
<1>11. Holder(k)' = p
  <2>1. HolderIs(k)'
    BY StoreNext
  <2>2. QED
    BY <1>10, <2>1 DEF HolderIs
<1>12. HolderIs(k)
  BY HolderOf
<1>13. CASE valid[b]
  <2>1. Has(p, k)
    BY <1>3, <1>5, <1>13 DEF Has, Inside
  <2>2. Holder(k)' = Holder(k)
    BY <1>11, <1>12, <2>1 DEF HolderIs
  <2>3. UNCHANGED S!vars
    BY <1>8, <1>9, <2>2 DEF S!vars
  <2>4. QED
    BY <2>3
<1>14. CASE ~valid[b]
  <2>1. ASSUME NEW q \in Hands PROVE ~Has(q, k)
    <3>1. SUFFICES ASSUME Has(q, k) PROVE FALSE
      OBVIOUS
    <3>2. mine[q] \in Bufs /\ blockno[mine[q]] = k /\ valid[mine[q]]
      BY <3>1, MineFacts DEF Has, Inside
    <3>3. QED
      BY <1>7, <1>14, <3>2
  <2>2. Holder(k) = Nobody
    BY <1>12, <2>1 DEF HolderIs
  <2>3. S!Take(p, k)
    BY <1>8, <1>9, <1>11, <2>2 DEF S!Take
  <2>4. QED
    BY <2>3 DEF S!Next
<1>15. QED
  BY <1>13, <1>14

LEMMA InitStore == Init => S!Init
<1> SUFFICES ASSUME Init PROVE S!Init
  OBVIOUS
<1>1. CacheInv
  BY InitCache
<1>2. ASSUME NEW k \in Blocks PROVE Content(k) \in Data /\ Holder(k) = Nobody
  <2>1. ContentIs(k) /\ HolderIs(k)
    BY <1>1, ContentOf, HolderOf
  <2>2. Content(k) = disk[k]
    BY <2>1 DEF ContentIs, Init
  <2>3. \A p \in Hands : ~Has(p, k)
    BY DEF Has, Init, Inside
  <2>4. QED
    BY <2>1, <2>2, <2>3 DEF HolderIs, Init
<1>3. QED
  BY <1>2 DEF S!Init

LEMMA StepStore ==
    Faults = FALSE /\ CacheInv /\ CacheInv' /\ Coherent /\ [Next]_vars => [S!Next]_(S!vars)
<1> SUFFICES ASSUME Faults = FALSE, CacheInv, CacheInv', Coherent, [Next]_vars
             PROVE  [S!Next]_(S!vars)
  OBVIOUS
<1> USE DEF Goto, buf, flags, drive, proc
<1>1. CASE Interrupt
  BY <1>1, InterruptStore DEF Interrupt
<1>2. ASSUME NEW p \in Hands, NEW b \in Bufs, Recycle(p, b) PROVE UNCHANGED S!vars
  BY <1>2, RecycleStore
<1>3. ASSUME NEW p \in Hands, Lock(p) PROVE [S!Next]_(S!vars)
  BY <1>3, LockStore
<1>4. ASSUME NEW p \in Hands, NEW v \in Data, Change(p, v) PROVE S!Next
  BY <1>4, ChangeStore
<1>5. ASSUME NEW p \in Hands, Unlock(p) PROVE S!Next
  BY <1>5, UnlockStore
<1>6. ASSUME NEW p \in Hands, NEW k \in Blocks, Bread(p, k) PROVE UNCHANGED S!vars
  <2>1. \A q \in Hands, i \in Blocks : Has(q, i)' <=> Has(q, i)
    BY <1>6 DEF Bread, Has, Inside, CacheInv, TypeOK
  <2>2. QED
    BY <1>6, <2>1, QuietStore DEF Bread
<1>7. ASSUME NEW p \in Hands, NEW b \in Bufs, Hit(p, b) PROVE UNCHANGED S!vars
  <2>1. \A q \in Hands, i \in Blocks : Has(q, i)' <=> Has(q, i)
    BY <1>7 DEF Hit, Has, Inside, CacheInv, TypeOK
  <2>2. QED
    BY <1>7, <2>1, QuietStore DEF Hit
<1>8. ASSUME NEW p \in Hands, LockSleep(p) \/ LogWrite(p) \/ Bwrite(p) PROVE UNCHANGED S!vars
  <2>1. \A q \in Hands, i \in Blocks : Has(q, i)' <=> Has(q, i)
    BY <1>8 DEF LockSleep, LogWrite, Bwrite, Has, Inside, CacheInv, TypeOK
  <2>2. QED
    BY <1>8, <2>1, QuietStore DEF LockSleep, LogWrite, Bwrite
<1>9. ASSUME NEW p \in Hands, NoBuffers(p) \/ Brelse(p) \/ Iderw(p) \/ IderwEnds(p) PROVE UNCHANGED S!vars
  <2>1. \A q \in Hands, i \in Blocks : Has(q, i)' <=> Has(q, i)
    BY <1>9 DEF NoBuffers, Brelse, Iderw, IderwEnds, Has, Inside, CacheInv, TypeOK
  <2>2. QED
    BY <1>9, <2>1, QuietStore DEF NoBuffers, Brelse, Iderw, IderwEnds
<1>10. CASE UNCHANGED vars \/ Halted
  <2>1. \A q \in Hands, i \in Blocks : Has(q, i)' <=> Has(q, i)
    BY <1>10 DEF Halted, vars, Has
  <2>2. QED
    BY <1>10, <2>1, QuietStore DEF Halted, vars
<1>11. QED
  BY <1>1, <1>2, <1>3, <1>4, <1>5, <1>6, <1>7, <1>8, <1>9, <1>10 DEF Next, Step, Use

(* As long as reads do not fail, bread(), bwrite(), log_write() and        *)
(* brelse() give every process the one copy of the block it asks for: no   *)
(* change is lost to recycling and nobody sees another block.              *)
THEOREM CacheImplementsStore == Faults = FALSE => (Spec => ImplementsBlockStore)
<1> SUFFICES ASSUME Faults = FALSE PROVE Spec => ImplementsBlockStore
  OBVIOUS
<1>1. Spec => []Coherent
  BY BuffersCoherent
<1>2. CacheInv /\ CacheInv' /\ Coherent /\ [Next]_vars => [S!Next]_(S!vars)
  BY StepStore
<1>3. QED
  BY <1>1, <1>2, InitStore, CacheInvariant, PTL DEF Spec, ImplementsBlockStore, S!Spec

================================================================================
