--------------------------------- MODULE Pipe ---------------------------------
(***************************************************************************)
(* A pipe (pipe.c, the same in the five kernels): a ring of PIPESIZE bytes *)
(* under one spinlock, with processes that read, write, sleep and are      *)
(* killed, and the two ends being closed meanwhile.                        *)
(*                                                                         *)
(* A step is what a process does under the lock up to the next byte        *)
(* stored, the next test, or the sleep.  killed is tested under the pipe's *)
(* lock, which kill() does not take; hence the step between the test and   *)
(* the sleep.  The counters wrap at Wrap, 2^32 in the code.  Who holds     *)
(* which end, and so when pipeclose is called, is the part of PipeUsers    *)
(* and, with descriptors and reference counts, of FileTable.               *)
(***************************************************************************)
EXTENDS Integers, Sequences, FiniteSets

CONSTANTS
    Procs,          \* the processes; a byte is known by the one that wrote it
    PIPESIZE,       \* the size of the ring
    Wrap,           \* the counters are unsigned integers modulo this
    ReadCounts,     \* bounds: how many bytes a call asks for
    WriteCounts,
    Nobody          \* the lock's holder when it is free

ASSUME SizeAssumption ==
    /\ PIPESIZE \in Nat \ {0} /\ Wrap \in Nat
    /\ Wrap % PIPESIZE = 0 /\ PIPESIZE < Wrap
ASSUME CountAssumption == ReadCounts \subseteq Nat /\ WriteCounts \subseteq Nat
ASSUME NobodyAssumption == Nobody \notin Procs

VARIABLES
    data, nread, nwrite,    \* struct pipe
    readopen, writeopen,
    inuse,                  \* the page is allocated to the pipe
    plock,                  \* who holds its lock
    pc,                     \* where each process is
    op, left,               \* its system call, and the bytes it still asks for
    out,                    \* what the last step returned to a process, if anything
    killed

ring == <<data, nread, nwrite>>
ends == <<readopen, writeopen, inuse>>
call == <<op, left>>
pvars == <<ring, ends, plock, pc, call, killed, out>>

Result(p, bytes) == [to |-> p, bytes |-> bytes]
NoResult == Result(Nobody, <<>>)

Places == {"none", "user", "acquire", "hold", "drowsy", "asleep", "busy", "closing"}

PipeInit(open) ==
    /\ data = [i \in 0 .. PIPESIZE - 1 |-> CHOOSE p \in Procs : TRUE]
    /\ nread = 0 /\ nwrite = 0
    /\ readopen = open /\ writeopen = open /\ inuse = open
    /\ plock = Nobody
    /\ op = [p \in Procs |-> "none"] /\ left = [p \in Procs |-> 0]
    /\ out = NoResult
    /\ killed = [p \in Procs |-> FALSE]

Count == (nwrite - nread) % Wrap        \* bytes in the pipe

Advance(n, k) == (n + k) % Wrap

Empty == nread = nwrite

(* Mutant of Full: one byte too late.                                      *)
FullLate == nwrite = Advance(nread, PIPESIZE + 1)

Full == nwrite = Advance(nread, PIPESIZE)

Sleeping(p, what) == pc[p] = "asleep" /\ op[p] = what

(* Mutant of Wakeup: only one of the sleepers.                             *)
WakeupOne(what) ==
    LET one == CHOOSE p \in Procs : Sleeping(p, what) IN
    [p \in Procs |-> IF Sleeping(p, what) /\ p = one THEN "acquire" ELSE pc[p]]

(* wakeup(&p->nread) for readers, wakeup(&p->nwrite) for writers.          *)
Wakeup(what) ==
    [p \in Procs |-> IF Sleeping(p, what) THEN "acquire" ELSE pc[p]]

Holding(p, what) == pc[p] = "hold" /\ op[p] = what

(* The end of a call: the lock is free and the process in user space.      *)
Return(p, places) ==
    /\ plock' = Nobody
    /\ pc' = [places EXCEPT ![p] = "user"]
    /\ op' = [op EXCEPT ![p] = "none"]
    /\ left' = [left EXCEPT ![p] = 0]

-----------------------------------------------------------------------------
Call(p, what, n) ==
    /\ pc[p] = "user"
    /\ pc' = [pc EXCEPT ![p] = "acquire"]
    /\ op' = [op EXCEPT ![p] = what]
    /\ left' = [left EXCEPT ![p] = n]
    /\ UNCHANGED <<ring, ends, plock, killed>>

Acquire(p) ==
    /\ pc[p] = "acquire" /\ plock = Nobody
    /\ plock' = p
    /\ pc' = [pc EXCEPT ![p] = "hold"]
    /\ UNCHANGED <<ring, ends, call, killed>>

(* pipewrite                                                               *)
WriteByte(p) ==
    /\ Holding(p, "write") /\ left[p] > 0 /\ ~Full
    /\ data' = [data EXCEPT ![nwrite % PIPESIZE] = p]
    /\ nwrite' = Advance(nwrite, 1)
    /\ left' = [left EXCEPT ![p] = @ - 1]
    /\ UNCHANGED <<nread, ends, plock, pc, op, killed>>

WriteGivesUp(p) ==
    /\ Holding(p, "write") /\ left[p] > 0 /\ Full
    /\ ~readopen \/ killed[p]
    /\ Return(p, pc)
    /\ UNCHANGED <<ring, ends, killed>>

WriteFull(p) ==
    /\ Holding(p, "write") /\ left[p] > 0 /\ Full
    /\ readopen /\ ~killed[p]
    /\ pc' = [Wakeup("read") EXCEPT ![p] = "drowsy"]
    /\ UNCHANGED <<ring, ends, plock, call, killed>>

WriteEnd(p) ==
    /\ Holding(p, "write") /\ left[p] = 0
    /\ Return(p, Wakeup("read"))
    /\ UNCHANGED <<ring, ends, killed>>

(* piperead                                                                *)
ReadGivesUp(p) ==
    /\ Holding(p, "read") /\ Empty /\ writeopen /\ killed[p]
    /\ Return(p, pc)
    /\ UNCHANGED <<ring, ends, killed>>

ReadEmpty(p) ==
    /\ Holding(p, "read") /\ Empty /\ writeopen /\ ~killed[p]
    /\ pc' = [pc EXCEPT ![p] = "drowsy"]
    /\ UNCHANGED <<ring, ends, plock, call, killed>>

Least(m, n) == IF m < n THEN m ELSE n

(* Mutant of Oldest: from the writers' end.                                *)
Newest(n) == [i \in 1 .. n |-> data[(nwrite + Wrap - i) % PIPESIZE]]

Oldest(n) == [i \in 1 .. n |-> data[(nread + i - 1) % PIPESIZE]]

ReadBytes(p) ==
    LET n == Least(left[p], Count) IN
    /\ Holding(p, "read") /\ (~Empty \/ ~writeopen)
    /\ nread' = Advance(nread, n)
    /\ Return(p, Wakeup("write"))
    /\ out' = Result(p, Oldest(n))
    /\ UNCHANGED <<data, nwrite, ends, killed>>

(* sleep(&p->nread, &p->lock) or sleep(&p->nwrite, &p->lock)               *)
Sleep(p) ==
    /\ pc[p] = "drowsy"
    /\ pc' = [pc EXCEPT ![p] = "asleep"]
    /\ plock' = Nobody
    /\ UNCHANGED <<ring, ends, call, killed>>

(* kill(): the flag, and a wake-up if the process is asleep by then.       *)
Kill(p) ==
    /\ pc[p] # "none" /\ ~killed[p]
    /\ killed' = [killed EXCEPT ![p] = TRUE]
    /\ pc' = [pc EXCEPT ![p] = IF @ = "asleep" THEN "acquire" ELSE @]
    /\ UNCHANGED <<ring, ends, plock, call>>

Silent(p) ==
    \/ WriteByte(p) \/ WriteGivesUp(p) \/ WriteFull(p) \/ WriteEnd(p)
    \/ ReadGivesUp(p) \/ ReadEmpty(p)
    \/ Sleep(p)

InKernel(p) == ReadBytes(p) \/ (Silent(p) /\ out' = NoResult)

-----------------------------------------------------------------------------
(* pipealloc, once it has its page.                                        *)
Open ==
    /\ inuse' = TRUE
    /\ readopen' = TRUE /\ writeopen' = TRUE
    /\ nread' = 0 /\ nwrite' = 0

(* Mutant of StillUsed: the page goes with the first end.                  *)
BothOpen == readopen' /\ writeopen'

StillUsed == readopen' \/ writeopen'

(* Mutant of Opposite: whoever shares the end is woken, not who waits for  *)
(* it.                                                                     *)
SameEnd(end) == end

Opposite(end) == IF end = "write" THEN "read" ELSE "write"

(* pipeclose, in one step: it holds the lock throughout and waits for      *)
(* nothing.                                                                *)
CloseEnd(p, end) ==
    /\ plock = Nobody
    /\ writeopen' = (writeopen /\ end # "write")
    /\ readopen' = (readopen /\ end # "read")
    /\ inuse' = StillUsed
    /\ pc' = [Wakeup(Opposite(end)) EXCEPT ![p] = "busy"]
    /\ UNCHANGED <<ring, plock, call, killed>>

-----------------------------------------------------------------------------
PipeTypeOK ==
    /\ data \in [0 .. PIPESIZE - 1 -> Procs]
    /\ nread \in 0 .. Wrap - 1 /\ nwrite \in 0 .. Wrap - 1
    /\ {readopen, writeopen, inuse} \subseteq BOOLEAN
    /\ plock \in Procs \cup {Nobody}
    /\ pc \in [Procs -> Places]
    /\ op \in [Procs -> {"none", "read", "write", "pipe", "close", "exit"}]
    /\ left \in [Procs -> Nat]
    /\ killed \in [Procs -> BOOLEAN]

(* The writers never lap the readers, counters wrapping or not.            *)
NeverLapped == Count <= PIPESIZE

Working(p) == pc[p] \in {"acquire", "hold", "drowsy", "asleep"}

(* Once every writer is gone, every process in piperead returns; once      *)
(* every reader is gone, every one in pipewrite.                           *)
Cut(p) == Working(p) /\ (IF op[p] = "read" THEN ~writeopen ELSE ~readopen)

ClosingReaches == \A p \in Procs : Cut(p) ~> pc[p] = "user"
=============================================================================
