------------------------------ MODULE BufferCache ------------------------------
(***************************************************************************)
(* The buffer cache (bio.c), its sleep-locks (sleeplock.c) and the disk    *)
(* driver (ide.c): processes that read, change, write and release blocks,  *)
(* and the interrupt that ends a transfer.                                 *)
(*                                                                         *)
(* A step is one critical section of bcache.lock, of a sleep-lock's own    *)
(* spinlock, or of idelock; sleep() is part of the section it ends.  Which *)
(* unused buffer is recycled is left open: the order of the list matters   *)
(* to speed only.                                                          *)
(*                                                                         *)
(* A process may keep one buffer while it reads another: the log copies    *)
(* from block to block (log.c), bmap keeps the indirect block while balloc *)
(* reads the bitmap (fs.c).  A process therefore has hands, each of which  *)
(* takes one buffer at a time, and one of which is in a call at a time.    *)
(***************************************************************************)
EXTENDS Integers, Sequences, FiniteSets

CONSTANTS
    Hands, Blocks, Data,
    Process,        \* whose hand each one is
    Nested,         \* <<j, k>>: block k may be read while j is in the other hand
    Bufs,           \* the buffers: NBUF of them in param.h
    MaxDirty,       \* how many blocks the log holds back: LOGSIZE - 1
    Faults,         \* whether a read of the disk may fail
    Nobody, NoBlock, NoBuf

ASSUME CacheAssumption ==
    /\ IsFiniteSet(Hands) /\ IsFiniteSet(Bufs)
    /\ MaxDirty \in Nat
    /\ Faults \in BOOLEAN
    /\ Nobody \notin Hands /\ NoBlock \notin Blocks /\ NoBuf \notin Bufs

VARIABLES
    blockno, refcnt, data,  \* struct buf
    valid, dirty,           \* B_VALID and B_DIRTY
    locked,                 \* who has the buffer's sleep-lock
    idequeue,               \* the transfer under way and those that wait
    started,                \* the disk has been told to begin
    disk,
    pc, mine, want          \* where each hand is, its buffer, the block it asks for

buf == <<blockno, refcnt, data>>
flags == <<valid, dirty>>
proc == <<mine, want>>
drive == <<idequeue, started>>
vars == <<buf, flags, locked, drive, disk, pc, proc>>

Places == {"user", "get", "lock", "asleep", "have", "changed", "rw", "transfer", "release", "panic"}

Init ==
    /\ blockno = [b \in Bufs |-> NoBlock]
    /\ refcnt = [b \in Bufs |-> 0]
    /\ data \in [Bufs -> Data]
    /\ valid = [b \in Bufs |-> FALSE] /\ dirty = [b \in Bufs |-> FALSE]
    /\ locked = [b \in Bufs |-> Nobody]
    /\ idequeue = <<>> /\ started = FALSE
    /\ disk \in [Blocks -> Data]
    /\ pc = [p \in Hands |-> "user"]
    /\ mine = [p \in Hands |-> NoBuf]
    /\ want = [p \in Hands |-> NoBlock]

Goto(p, place) == pc' = [pc EXCEPT ![p] = place]

Others(p) == {q \in Hands \ {p} : Process[q] = Process[p]}

(* The process is in its own code, in no call for another buffer.          *)
Running(p) == \A q \in Others(p) : pc[q] \in {"user", "have", "changed"}

-----------------------------------------------------------------------------
(* bread                                                                   *)
Bread(p, k) ==
    /\ pc[p] = "user" /\ Running(p)
    /\ \A q \in Others(p) : pc[q] # "user" => <<want[q], k>> \in Nested
    /\ want' = [want EXCEPT ![p] = k]
    /\ Goto(p, "get")
    /\ UNCHANGED <<buf, flags, locked, drive, disk, mine>>

Cached(k) == {b \in Bufs : blockno[b] = k}

(* Mutant of Unused: what the log holds back is recycled as well.          *)
UnusedOrDirty == {b \in Bufs : refcnt[b] = 0}

Unused == {b \in Bufs : refcnt[b] = 0 /\ ~dirty[b]}

OneMore(b) == refcnt[b] + 1

(* bget, the block being cached; ...                                       *)
Hit(p, b) ==
    /\ pc[p] = "get" /\ b \in Cached(want[p])
    /\ refcnt' = [refcnt EXCEPT ![b] = OneMore(b)]
    /\ mine' = [mine EXCEPT ![p] = b]
    /\ Goto(p, "lock")
    /\ UNCHANGED <<blockno, data, flags, locked, drive, disk, want>>

(* Mutant of NotCached: the second scan does not care.                     *)
MayBeCached(k) == TRUE

NotCached(k) == Cached(k) = {}

(* ... not cached; ...                                                     *)
Recycle(p, b) ==
    /\ pc[p] = "get" /\ NotCached(want[p]) /\ b \in Unused
    /\ blockno' = [blockno EXCEPT ![b] = want[p]]
    /\ valid' = [valid EXCEPT ![b] = FALSE] /\ dirty' = [dirty EXCEPT ![b] = FALSE]
    /\ refcnt' = [refcnt EXCEPT ![b] = 1]
    /\ mine' = [mine EXCEPT ![p] = b]
    /\ Goto(p, "lock")
    /\ UNCHANGED <<data, locked, drive, disk, want>>

(* ... not cached, and no buffer to recycle: "bget: no buffers".           *)
NoBuffers(p) ==
    /\ pc[p] = "get" /\ NotCached(want[p]) /\ Unused = {}
    /\ Goto(p, "panic")
    /\ UNCHANGED <<buf, flags, locked, drive, disk, proc>>

(* acquiresleep, and the end of bread                                      *)
Lock(p) ==
    LET b == mine[p] IN
    /\ pc[p] = "lock" /\ locked[b] = Nobody
    /\ locked' = [locked EXCEPT ![b] = p]
    /\ Goto(p, IF valid[b] THEN "have" ELSE "rw")
    /\ UNCHANGED <<buf, flags, drive, disk, proc>>

LockSleep(p) ==
    /\ pc[p] = "lock" /\ locked[mine[p]] # Nobody
    /\ Goto(p, "asleep")
    /\ UNCHANGED <<buf, flags, locked, drive, disk, proc>>

-----------------------------------------------------------------------------
(* The holder changes the data, and then calls log_write ...               *)
Change(p, v) ==
    /\ pc[p] = "have" /\ Running(p)
    /\ data' = [data EXCEPT ![mine[p]] = v]
    /\ Goto(p, "changed")
    /\ UNCHANGED <<blockno, refcnt, flags, locked, drive, disk, proc>>

Dirty == {b \in Bufs : dirty[b]}

(* What log_write panics beyond.                                           *)
LogTakes(b) == Cardinality(Dirty \cup {b}) <= MaxDirty

LogWrite(p) ==
    /\ pc[p] = "changed" /\ Running(p) /\ LogTakes(mine[p])
    /\ dirty' = [dirty EXCEPT ![mine[p]] = TRUE]
    /\ Goto(p, "have")
    /\ UNCHANGED <<buf, valid, locked, drive, disk, proc>>

(* ... or bwrite, as the log does.                                         *)
Bwrite(p) ==
    /\ pc[p] \in {"have", "changed"} /\ Running(p)
    /\ dirty' = [dirty EXCEPT ![mine[p]] = TRUE]
    /\ Goto(p, "rw")
    /\ UNCHANGED <<buf, valid, locked, drive, disk, proc>>

Waiting(b) == {q \in Hands : pc[q] = "asleep" /\ mine[q] = b}

(* Mutant of Woken: releasesleep wakes nobody.                             *)
WokenNone(b) == {}

Woken(b) == Waiting(b)

(* brelse: the sleep-lock goes first, under its own spinlock, ...          *)
Unlock(p) ==
    LET b == mine[p]
        woken == Woken(b)
    IN  /\ pc[p] = "have" /\ Running(p)
        /\ locked' = [locked EXCEPT ![b] = Nobody]
        /\ pc' = [q \in Hands |-> IF q = p THEN "release" ELSE IF q \in woken THEN "lock" ELSE pc[q]]
        /\ UNCHANGED <<buf, flags, drive, disk, proc>>

LessOne(b) == refcnt[b] - 1

(* ... and the count next, under bcache.lock.                              *)
Brelse(p) ==
    /\ pc[p] = "release"
    /\ refcnt' = [refcnt EXCEPT ![mine[p]] = LessOne(mine[p])]
    /\ mine' = [mine EXCEPT ![p] = NoBuf]
    /\ want' = [want EXCEPT ![p] = NoBlock]
    /\ Goto(p, "user")
    /\ UNCHANGED <<blockno, data, flags, locked, drive, disk>>

-----------------------------------------------------------------------------
Ready(b) == valid[b] /\ ~dirty[b]

Starts == started \/ idequeue = <<>>

(* iderw                                                                   *)
Iderw(p) ==
    /\ pc[p] = "rw"
    /\ idequeue' = Append(idequeue, mine[p])
    /\ started' = Starts
    /\ Goto(p, "transfer")
    /\ UNCHANGED <<buf, flags, locked, disk, proc>>

(* Awake after the interrupt.                                              *)
IderwEnds(p) ==
    /\ pc[p] = "transfer" /\ Ready(mine[p])
    /\ Goto(p, "have")
    /\ UNCHANGED <<buf, flags, locked, drive, disk, proc>>

(* What is in the buffer when the transfer is over.                        *)
Transferred(b) == IF dirty[b] THEN data[b] ELSE disk[blockno[b]]

(* ideintr: the first transfer is over, and the next one begins.  A read   *)
(* that failed leaves the data as they were.                               *)
Ideintr(ok) ==
    LET b == Head(idequeue) IN
    /\ started
    /\ idequeue' = Tail(idequeue)
    /\ started' = (idequeue' # <<>>)
    /\ data' = [data EXCEPT ![b] = IF ok THEN Transferred(b) ELSE @]
    /\ disk' = IF dirty[b] THEN [disk EXCEPT ![blockno[b]] = data[b]] ELSE disk
    /\ valid' = [valid EXCEPT ![b] = TRUE]
    /\ dirty' = [dirty EXCEPT ![b] = FALSE]
    /\ UNCHANGED <<blockno, refcnt, locked, pc, proc>>

Interrupt == \E ok \in {TRUE, ~Faults} : Ideintr(ok)

-----------------------------------------------------------------------------
Step(p) ==
    \/ \E b \in Bufs : Hit(p, b) \/ Recycle(p, b)
    \/ NoBuffers(p) \/ Lock(p) \/ LockSleep(p)
    \/ Unlock(p) \/ Brelse(p)
    \/ Iderw(p) \/ IderwEnds(p)

Use(p) ==
    \/ \E k \in Blocks : Bread(p, k)
    \/ \E v \in Data : Change(p, v)
    \/ LogWrite(p) \/ Bwrite(p)

(* After a panic the machine may stop.                                     *)
Halted == (\E p \in Hands : pc[p] = "panic") /\ UNCHANGED vars

Next == Interrupt \/ Halted \/ \E p \in Hands : Step(p) \/ Use(p)

Spec == Init /\ [][Next]_vars
-----------------------------------------------------------------------------
TypeOK ==
    /\ blockno \in [Bufs -> Blocks \cup {NoBlock}]
    /\ refcnt \in [Bufs -> Nat]
    /\ data \in [Bufs -> Data]
    /\ valid \in [Bufs -> BOOLEAN] /\ dirty \in [Bufs -> BOOLEAN]
    /\ locked \in [Bufs -> Hands \cup {Nobody}]
    /\ idequeue \in Seq(Bufs) /\ started \in BOOLEAN
    /\ disk \in [Blocks -> Data]
    /\ pc \in [Hands -> Places]
    /\ mine \in [Hands -> Bufs \cup {NoBuf}]
    /\ want \in [Hands -> Blocks \cup {NoBlock}]

Using(b) == {p \in Hands : mine[p] = b}

Inside == {"have", "changed", "rw", "transfer"}

(* No block is in two buffers, though the lock is dropped between the scan *)
(* of the list and the sleep-lock; and a process comes out of bread() with *)
(* the block it asked for, the buffer not having been recycled while it    *)
(* waited.                                                                 *)
OneBuffer ==
    /\ \A b, c \in Bufs : blockno[b] = blockno[c] /\ blockno[b] # NoBlock => b = c
    /\ \A p \in Hands : mine[p] # NoBuf => blockno[mine[p]] = want[p]

(* A buffer's count is the number of hands between bget and the end of     *)
(* brelse; its sleep-lock is held by the one that may use it.              *)
CountsAgree ==
    /\ \A b \in Bufs : refcnt[b] = Cardinality(Using(b))
    /\ \A p \in Hands, b \in Bufs : locked[b] = p <=> mine[p] = b /\ pc[p] \in Inside

(* What the driver has in its queue are the buffers of the processes that  *)
(* wait for a transfer, once each, and the disk is at work on the first:   *)
(* nobody waits for an interrupt that will not come.                       *)
QueueAgrees ==
    /\ started <=> idequeue # <<>>
    /\ \A i, j \in DOMAIN idequeue : idequeue[i] = idequeue[j] => i = j
    /\ \A b \in Bufs :
         (\E i \in DOMAIN idequeue : idequeue[i] = b)
         <=> \E p \in Hands : pc[p] = "transfer" /\ mine[p] = b /\ ~Ready(b)

(* Nobody sleeps in acquiresleep for a lock that is free.                  *)
NoSleepOverFreeLock == \A p \in Hands : pc[p] = "asleep" => locked[mine[p]] # Nobody

(* A hand has a buffer from bget to the end of brelse.  It enters iderw    *)
(* only with something to transfer, and leaves bread with valid data.      *)
Registered ==
    \A p \in Hands :
        /\ mine[p] = NoBuf <=> pc[p] \in {"user", "get", "panic"}
        /\ pc[p] # "user" => want[p] \in Blocks
        /\ pc[p] = "rw" => ~Ready(mine[p])
        /\ pc[p] \in {"have", "changed"} => valid[mine[p]]

(* What the log holds back: dirty, and nobody is writing it.               *)
Writing(b) == \E p \in Hands : mine[p] = b /\ pc[p] \in {"rw", "transfer"}

HeldBack == {b \in Bufs : dirty[b] /\ ~Writing(b)}

(* The inductive invariant: counts, locks, the driver's queue and the      *)
(* places of the processes tell one story.                                 *)
CacheInv ==
    /\ TypeOK /\ OneBuffer /\ CountsAgree /\ QueueAgrees
    /\ NoSleepOverFreeLock /\ Registered
    /\ Cardinality(HeldBack) <= MaxDirty

(* A buffer is as the disk is, but for what the log holds back and what    *)
(* its holder has just changed.                                            *)
Coherent ==
    \A b \in Bufs :
        /\ dirty[b] => valid[b]
        /\ valid[b] => blockno[b] \in Blocks
        /\ valid[b] /\ ~dirty[b] /\ (\A p \in Hands : pc[p] = "changed" => mine[p] # b)
             => data[b] = disk[blockno[b]]

(* One copy of every block, whoever has it in a buffer.                    *)
Holder(k) ==
    LET holders == {p \in Hands : pc[p] \in Inside /\ want[p] = k /\ valid[mine[p]]} IN
    IF holders = {} THEN Nobody ELSE CHOOSE p \in holders : TRUE

Content(k) ==
    LET copies == {b \in Bufs : blockno[b] = k /\ valid[b]} IN
    IF copies = {} THEN disk[k] ELSE data[CHOOSE b \in copies : TRUE]

S == INSTANCE BlockStore WITH
       Procs   <- Hands,
       content <- [k \in Blocks |-> Content(k)],
       holder  <- [k \in Blocks |-> Holder(k)]

(* The cache, its locks and the driver's queue implement one copy of every *)
(* block: no change is lost when a buffer is recycled, and nobody reads    *)
(* another block or an older copy.                                         *)
ImplementsBlockStore == S!Spec
================================================================================
