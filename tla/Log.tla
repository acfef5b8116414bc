---------------------------------- MODULE Log ----------------------------------
(***************************************************************************)
(* The write-ahead log of the file system (log.c), the same in the five    *)
(* kernels of the project: concurrent operations between begin_op and      *)
(* end_op, the commit by the last of them, one disk write at a time, and   *)
(* crashes before, between and after those writes, also during recovery.   *)
(*                                                                         *)
(* A step is what happens under log.lock, one disk write, or one log_write *)
(* up to its acquire().  The disk writes one block at a time and a block   *)
(* whole.  The buffer cache is what bread() returns: a block that is in    *)
(* the log is pinned (B_DIRTY) and any other is as on disk.                *)
(***************************************************************************)
EXTENDS Integers, Sequences, FiniteSets

CONSTANTS
    Ops,            \* the processes that make file-system calls
    Blocks,         \* the blocks at their home locations
    Values, Zero,   \* what a block may hold
    LOGSIZE,        \* as in param.h
    MAXOPBLOCKS,    \* as in param.h
    OpBlocks,       \* the blocks an operation really logs, MAXOPBLOCKS or fewer
    Size            \* log.size, the blocks mkfs gives the log with its header

ASSUME LogAssumption ==
    /\ LOGSIZE \in Nat /\ MAXOPBLOCKS \in 1 .. LOGSIZE /\ Size \in Nat
    /\ OpBlocks \in 0 .. MAXOPBLOCKS
    /\ Zero \in Values /\ Blocks # {}

ASSUME OpsAssumption == IsFiniteSet(Ops)

VARIABLES
    home,           \* disk: the blocks at their home locations
    slots,          \* disk: the blocks of the log
    header,         \* disk: the block numbers in the log's header
    cache,          \* memory: the contents bread() finds
    lh,             \* memory: log.lh, a sequence of block numbers
    outstanding, committing,
    pc,             \* where each process is
    blk,            \* the block each process is about to log
    wrote,          \* the blocks it has logged since begin_op
    tail,           \* the loop variable of the commit or of the recovery
    mode            \* "recover", "run" or "panic"

disk   == <<home, slots, header>>
memory == <<cache, lh, outstanding, committing>>
procs  == <<pc, blk, wrote>>
vars   == <<disk, memory, procs, tail, mode>>

Places == {"out", "begin", "asleep", "in", "logging",
           "write", "head", "install", "clear", "finish"}

Boot ==
    /\ lh = <<>> /\ outstanding = 0 /\ committing = FALSE
    /\ pc = [p \in Ops |-> "out"]
    /\ blk = [p \in Ops |-> CHOOSE b \in Blocks : TRUE]
    /\ wrote = [p \in Ops |-> {}]
    /\ tail = 1

(* A disk as mkfs makes it, and a machine that has been started.           *)
Init ==
    /\ home = [b \in Blocks |-> Zero]
    /\ slots = [i \in 1 .. LOGSIZE |-> Zero]
    /\ header = <<>>
    /\ cache = home
    /\ Boot
    /\ mode = "recover"

Wakeup == [p \in Ops |-> IF pc[p] = "asleep" THEN "begin" ELSE pc[p]]

-----------------------------------------------------------------------------
(* begin_op                                                                *)
Begin(p) ==
    /\ mode = "run" /\ pc[p] = "out"
    /\ pc' = [pc EXCEPT ![p] = "begin"]
    /\ wrote' = [wrote EXCEPT ![p] = {}]
    /\ UNCHANGED <<disk, memory, blk, tail, mode>>

(* Mutant of Admits: without reserving for the others.                     *)
AdmitsUnreserved == ~committing /\ Len(lh) + MAXOPBLOCKS <= LOGSIZE

Admits == ~committing /\ Len(lh) + (outstanding + 1) * MAXOPBLOCKS <= LOGSIZE

Enter(p) ==
    /\ mode = "run" /\ pc[p] = "begin"
    /\ Admits
    /\ outstanding' = outstanding + 1
    /\ pc' = [pc EXCEPT ![p] = "in"]
    /\ UNCHANGED <<disk, cache, lh, committing, blk, wrote, tail, mode>>

Wait(p) ==
    /\ mode = "run" /\ pc[p] = "begin"
    /\ ~Admits
    /\ pc' = [pc EXCEPT ![p] = "asleep"]
    /\ UNCHANGED <<disk, memory, blk, wrote, tail, mode>>

(* An operation changes a block whose buffer it has locked and calls       *)
(* log_write, whose checks come before it takes log.lock.                  *)
LogFull == Len(lh) >= LOGSIZE \/ Len(lh) >= Size - 1

Modify(p, b, v) ==
    /\ mode = "run" /\ pc[p] = "in"
    /\ b \in wrote[p] \/ Cardinality(wrote[p]) < OpBlocks
    /\ \A q \in Ops : pc[q] = "logging" => blk[q] # b
    /\ cache' = [cache EXCEPT ![b] = v]
    /\ IF LogFull \/ outstanding < 1
       THEN /\ mode' = "panic"
            /\ UNCHANGED <<pc, blk, wrote>>
       ELSE /\ pc' = [pc EXCEPT ![p] = "logging"]
            /\ blk' = [blk EXCEPT ![p] = b]
            /\ wrote' = [wrote EXCEPT ![p] = @ \cup {b}]
            /\ UNCHANGED mode
    /\ UNCHANGED <<disk, lh, outstanding, committing, tail>>

(* ... and then records the block, unless it is in the log already.        *)
Absorbed(b) == \E i \in DOMAIN lh : lh[i] = b

Record(p) ==
    /\ mode = "run" /\ pc[p] = "logging"
    /\ lh' = IF Absorbed(blk[p]) THEN lh ELSE Append(lh, blk[p])
    /\ pc' = [pc EXCEPT ![p] = "in"]
    /\ UNCHANGED <<disk, cache, outstanding, committing, blk, wrote, tail, mode>>

(* end_op: the last one out commits.                                       *)
Leave(p) ==
    /\ mode = "run" /\ pc[p] = "in"
    /\ outstanding' = outstanding - 1
    /\ IF committing
       THEN mode' = "panic" /\ UNCHANGED <<committing, pc, tail>>
       ELSE IF outstanding' = 0
       THEN /\ committing' = TRUE
            /\ pc' = [pc EXCEPT ![p] = IF lh = <<>> THEN "finish" ELSE "write"]
            /\ tail' = 1
            /\ UNCHANGED mode
       ELSE /\ pc' = [Wakeup EXCEPT ![p] = "out"]
            /\ UNCHANGED <<committing, tail, mode>>
    /\ UNCHANGED <<disk, cache, lh, blk, wrote>>

-----------------------------------------------------------------------------
(* commit(), one disk write at a time.                                     *)
WriteLog(p) ==
    /\ mode = "run" /\ pc[p] = "write"
    /\ IF tail > Len(lh)
       THEN /\ pc' = [pc EXCEPT ![p] = "head"]
            /\ UNCHANGED <<slots, tail>>
       ELSE /\ slots' = [slots EXCEPT ![tail] = cache[lh[tail]]]
            /\ tail' = tail + 1
            /\ UNCHANGED pc
    /\ UNCHANGED <<home, header, memory, blk, wrote, mode>>

WriteHead(p) ==
    /\ mode = "run" /\ pc[p] = "head"
    /\ header' = lh
    /\ pc' = [pc EXCEPT ![p] = "install"]
    /\ tail' = 1
    /\ UNCHANGED <<home, slots, memory, blk, wrote, mode>>

(* One round of install_trans: the log's block to its home location.       *)
InstallBlock ==
    /\ home' = [home EXCEPT ![lh[tail]] = slots[tail]]
    /\ cache' = [cache EXCEPT ![lh[tail]] = slots[tail]]
    /\ tail' = tail + 1

Install(p) ==
    /\ mode = "run" /\ pc[p] = "install"
    /\ IF tail > Len(lh)
       THEN pc' = [pc EXCEPT ![p] = "clear"] /\ UNCHANGED <<home, cache, tail>>
       ELSE InstallBlock /\ UNCHANGED pc
    /\ UNCHANGED <<slots, header, lh, outstanding, committing, blk, wrote, mode>>

(* Mutant of ClearHead: the header in memory keeps its blocks.             *)
ClearHeadOnDisk(p) ==
    /\ mode = "run" /\ pc[p] = "clear"
    /\ header' = <<>>
    /\ pc' = [pc EXCEPT ![p] = "finish"]
    /\ UNCHANGED <<home, slots, memory, blk, wrote, tail, mode>>

ClearHead(p) ==
    /\ mode = "run" /\ pc[p] = "clear"
    /\ lh' = <<>>
    /\ header' = <<>>
    /\ pc' = [pc EXCEPT ![p] = "finish"]
    /\ UNCHANGED <<home, slots, cache, outstanding, committing, blk, wrote, tail, mode>>

(* Mutant of Finish: no wake-up.                                           *)
FinishSilently(p) ==
    /\ mode = "run" /\ pc[p] = "finish"
    /\ committing' = FALSE
    /\ pc' = [pc EXCEPT ![p] = "out"]
    /\ UNCHANGED <<disk, cache, lh, outstanding, blk, wrote, tail, mode>>

(* The end of end_op.                                                      *)
Finish(p) ==
    /\ mode = "run" /\ pc[p] = "finish"
    /\ committing' = FALSE
    /\ pc' = [Wakeup EXCEPT ![p] = "out"]
    /\ UNCHANGED <<disk, cache, lh, outstanding, blk, wrote, tail, mode>>

-----------------------------------------------------------------------------
(* A crash loses the memory.  recover_from_log runs before any operation:  *)
(* the first step below stands for read_head as well.                      *)
Crash ==
    /\ mode' = "recover"
    /\ cache' = home
    /\ lh' = header /\ outstanding' = 0 /\ committing' = FALSE
    /\ pc' = [p \in Ops |-> "out"]
    /\ wrote' = [p \in Ops |-> {}]
    /\ tail' = 1
    /\ UNCHANGED <<disk, blk>>

RecoverBlock ==
    /\ mode = "recover" /\ tail <= Len(lh)
    /\ InstallBlock
    /\ UNCHANGED <<slots, header, lh, outstanding, committing, procs, mode>>

(* Mutant of RecoverEnd: the header is cleared before the installs.        *)
RecoverAtOnce ==
    /\ mode = "recover"
    /\ lh' = <<>>
    /\ header' = <<>>
    /\ mode' = "run"
    /\ UNCHANGED <<home, slots, cache, outstanding, committing, procs, tail>>

RecoverEnd ==
    /\ mode = "recover" /\ tail > Len(lh)
    /\ lh' = <<>>
    /\ header' = <<>>
    /\ mode' = "run"
    /\ UNCHANGED <<home, slots, cache, outstanding, committing, procs, tail>>

-----------------------------------------------------------------------------
Committer(p) == WriteLog(p) \/ WriteHead(p) \/ Install(p) \/ ClearHead(p) \/ Finish(p)

Operation(p) ==
    \/ Begin(p) \/ Enter(p) \/ Wait(p) \/ Record(p) \/ Leave(p)
    \/ \E b \in Blocks, v \in Values : Modify(p, b, v)

Next ==
    \/ Crash \/ RecoverBlock \/ RecoverEnd
    \/ \E p \in Ops : Operation(p) \/ Committer(p)

Spec == Init /\ [][Next]_vars

(* A process in end_op goes on until it is done.                           *)
FairSpec == Spec /\ \A p \in Ops : WF_vars(Committer(p)) /\ WF_vars(Record(p))
-----------------------------------------------------------------------------
TypeOK ==
    /\ home \in [Blocks -> Values] /\ cache \in [Blocks -> Values]
    /\ slots \in [1 .. LOGSIZE -> Values]
    /\ header \in Seq(Blocks) /\ lh \in Seq(Blocks)
    /\ outstanding \in Nat /\ committing \in BOOLEAN
    /\ pc \in [Ops -> Places]
    /\ blk \in [Ops -> Blocks]
    /\ wrote \in [Ops -> SUBSET Blocks]
    /\ tail \in 1 .. LOGSIZE + 1
    /\ mode \in {"recover", "run", "panic"}

Inside == {p \in Ops : pc[p] \in {"in", "logging"}}
Committing(p) == pc[p] \in {"write", "head", "install", "clear", "finish"}

(* "Thus there is never any reasoning required about whether a commit      *)
(* might write an uncommitted system call's updates": while one process    *)
(* commits, no other is inside an operation or commits.                    *)
CommitIsExclusive ==
    \A p \in Ops : Committing(p) =>
      \A q \in Ops \ {p} : pc[q] \in {"out", "begin", "asleep"}

(* "this op might exhaust log space; wait for commit" (begin_op): the      *)
(* operations it lets in have room for MAXOPBLOCKS blocks each, and        *)
(* log_write never stops one that keeps to them.  Not so in a log of       *)
(* LOGSIZE blocks, of which the header is one.                             *)
NeverExhausted == mode # "panic"

(* Nobody sleeps in begin_op once the log is idle.                         *)
NobodyStranded ==
    \A p \in Ops : pc[p] = "asleep" => outstanding > 0 \/ committing

(* Blocks wait in the log only while somebody is still to commit them.     *)
LogInUse ==
    /\ mode = "run" /\ lh # <<>> => outstanding > 0 \/ committing
    /\ \A p \in Ops : pc[p] = "finish" => lh = <<>>

(* log.outstanding and log.committing agree with where the processes are.  *)
CountsAgree ==
    /\ outstanding = Cardinality(Inside)
    /\ committing => Inside = {}
    /\ \A p \in Ops : Committing(p) => committing
    /\ \A p, q \in Ops : Committing(p) /\ Committing(q) => p = q

(* An inductive invariant of begin_op, end_op and commit: what the two     *)
(* counters of struct log say is true, and nobody waits for nothing.       *)
LogInv ==
    /\ pc \in [Ops -> Places] /\ committing \in BOOLEAN
    /\ mode = "recover" => \A p \in Ops : pc[p] = "out"
    /\ CountsAgree /\ LogInUse /\ NobodyStranded

(* The blocks the operations of a set have logged, each for itself, and    *)
(* those among them that are in the log.                                   *)
Writes(ops) == {w \in ops \X Blocks : w[2] \in wrote[w[1]]}
Logged == {w \in Writes(Inside) : Absorbed(w[2])}

(* Why the space that begin_op reserves suffices: what is in the log and   *)
(* what is reserved exceed its size by no more than the blocks of those    *)
(* still inside, and these are no more than OpBlocks each.                 *)
ReserveInv ==
    /\ lh \in Seq(Blocks) /\ header \in Seq(Blocks)
    /\ wrote \in [Ops -> SUBSET Blocks] /\ blk = [p \in Ops |-> blk[p]]
    /\ \A p \in Ops :
         /\ pc[p] \in {"begin", "asleep"} => wrote[p] = {}
         /\ pc[p] = "logging" => blk[p] \in wrote[p]
         /\ IsFiniteSet(wrote[p]) /\ Cardinality(wrote[p]) <= OpBlocks
    /\ \A ops \in SUBSET Ops :
         IsFiniteSet(Writes(ops)) /\ Cardinality(Writes(ops)) <= Cardinality(ops) * OpBlocks
    /\ mode = "run" => Len(lh) + outstanding * MAXOPBLOCKS <= LOGSIZE + Cardinality(Logged)

(* A process asleep in begin_op is woken, unless an operation stays inside *)
(* for ever.                                                               *)
WaiterWakes ==
    \A p \in Ops : (pc[p] = "asleep" /\ outstanding = 0) ~> pc[p] # "asleep"
-----------------------------------------------------------------------------
(* What recovery would make of the disk: the log's blocks over their homes.*)
Recovered ==
    [b \in Blocks |->
       LET logged == {i \in DOMAIN header : header[i] = b}
       IN  IF logged = {} THEN home[b] ELSE slots[CHOOSE i \in logged : TRUE]]

(* Where the commit is, the log's blocks are copies of what the group of   *)
(* operations wrote, and those before tail are at home.                    *)
Copied    == \A i \in DOMAIN lh : slots[i] = cache[lh[i]]
Installed == \A i \in DOMAIN lh : i < tail => home[lh[i]] = slots[i]
AtHome    == \A i \in DOMAIN lh : home[lh[i]] = slots[i]
OnceEach(blocks) == \A i, j \in DOMAIN blocks : blocks[i] = blocks[j] => i = j

(* The block p is about to record is the one block, besides those in the   *)
(* log, whose buffer may differ from the disk.                             *)
UpToDate(b) ==
    cache[b] = home[b] \/ Absorbed(b) \/ \E p \in Ops : pc[p] = "logging" /\ blk[p] = b

(* What a crash finds at each step of a commit: the disk of before, or a   *)
(* header whose blocks are all in the log.                                 *)
CommitInv ==
    /\ \A p \in Ops :
         /\ pc[p] = "write" => \A i \in DOMAIN lh : i < tail => slots[i] = cache[lh[i]]
         /\ pc[p] \in {"head", "install", "clear"} => Copied
         /\ pc[p] = "install" => Installed
         /\ pc[p] = "clear" => AtHome
         /\ pc[p] \in {"write", "install"} => tail <= Len(lh) + 1
    /\ header = IF \E p \in Ops : pc[p] \in {"install", "clear"} THEN lh ELSE <<>>

DiskInv ==
    /\ TypeOK
    /\ Len(header) <= LOGSIZE /\ OnceEach(lh) /\ OnceEach(header)
    /\ mode = "recover" => lh = header /\ cache = home /\ Installed /\ tail <= Len(lh) + 1
    /\ mode # "recover" => CommitInv
    /\ mode = "run" => \A b \in Blocks : UpToDate(b)

A == INSTANCE AtomicDisk WITH
       durable <- Recovered,
       shown   <- IF mode = "recover" THEN Recovered ELSE cache,
       open    <- Inside

(* The log, whatever crashes at whatever point, implements the atomic disk.*)
ImplementsAtomicDisk == A!Spec
=============================================================================
