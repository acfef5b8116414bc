------------------------------- MODULE ProcTable -------------------------------
(***************************************************************************)
(* The process table (proc.c): the scheduler of each CPU, fork, exec,      *)
(* exit, wait, kill, yield and sleep, with the pages they take and give    *)
(* back, and the clock (trap.c) that processes sleep by (sysproc.c).       *)
(*                                                                         *)
(* ptable.lock belongs to a CPU and is handed over across swtch(): who     *)
(* takes it in exit(), wait() or yield() leaves it to the scheduler, and   *)
(* the scheduler to the process it resumes.  An interrupt may make a       *)
(* process yield anywhere in the kernel where no lock is held.             *)
(*                                                                         *)
(* Pages are counted, not named: those of an address space include its     *)
(* page directory.  A pid is whether the slot has one; nextpid makes them  *)
(* differ.  init is never killed: it would panic in exit().  The files are *)
(* FileTable's.  Of the time only whether it has come for a sleeper is     *)
(* kept.                                                                   *)
(***************************************************************************)
EXTENDS Integers, FiniteSets

CONSTANTS
    NPROC,          \* as in param.h
    CPUs, Clock,    \* the CPUs, and the one whose timer counts: cpuid() == 0
    NPAGES,         \* pages of memory
    MinSpace,       \* bounds: pages of an address space
    MaxSpace,
    Nobody          \* no slot, no CPU

Slots == 1 .. NPROC
initproc == 1

ASSUME ProcAssumption ==
    /\ NPROC \in Nat \ {0}
    /\ Nobody \notin Slots /\ Nobody \notin CPUs /\ Clock \in CPUs
    /\ {MinSpace, MaxSpace} \subseteq Nat \ {0} /\ MinSpace <= MaxSpace
    /\ NPAGES \in Nat /\ MinSpace + 1 <= NPAGES

VARIABLES
    state, haspid, parent, killed,      \* struct proc
    kstack,         \* the slot has a kernel stack
    space,          \* the pages of its address space
    fresh,          \* the pages of the one it is building, for a child or in exec
    free,           \* free pages
    pc, embryo,     \* where each process is, and the slot its fork() has
    on,             \* whose stack each CPU is on, Nobody's for the scheduler's
    loaded,         \* c->proc, and whose page table the CPU has
    ptlock, tlock,  \* the CPUs that have ptable.lock and tickslock
    ticking,        \* Clock is in the timer's handler
    due             \* the tick a process sleeps for has come

slot == <<state, haspid, parent, killed>>
pages == <<kstack, space, fresh, free>>
cpu == <<on, loaded>>
clock == <<tlock, ticking, due>>
vars == <<slot, pages, pc, embryo, cpu, ptlock, clock>>

(* userinit: init has a slot, a stack and an address space.                *)
Init ==
    LET isInit(yes, no) == [s \in Slots |-> IF s = initproc THEN yes ELSE no] IN
    /\ state = isInit("RUNNABLE", "UNUSED")
    /\ haspid = isInit(TRUE, FALSE)
    /\ parent = [s \in Slots |-> Nobody]
    /\ killed = [s \in Slots |-> FALSE]
    /\ kstack = isInit(TRUE, FALSE)
    /\ space = isInit(MinSpace, 0)
    /\ fresh = [s \in Slots |-> 0]
    /\ free = NPAGES - MinSpace - 1
    /\ pc = [s \in Slots |-> "start"]
    /\ embryo = [s \in Slots |-> Nobody]
    /\ on = [c \in CPUs |-> Nobody] /\ loaded = [c \in CPUs |-> Nobody]
    /\ ptlock = Nobody /\ tlock = Nobody
    /\ ticking = FALSE /\ due = [s \in Slots |-> FALSE]

Lowest(slots) == CHOOSE s \in slots : \A other \in slots : s <= other

(* Process p runs on CPU c.                                                *)
Runs(c, p) == on[c] = p /\ state[p] = "RUNNING"

At(c, p, place) == Runs(c, p) /\ pc[p] = place

Goto(p, place) == pc' = [pc EXCEPT ![p] = place]

-----------------------------------------------------------------------------
(* scheduler                                                               *)
ScanStart(c) ==
    /\ on[c] = Nobody /\ ptlock = Nobody
    /\ ptlock' = c
    /\ UNCHANGED <<slot, pages, pc, embryo, cpu, clock>>

Dispatch(c, p) ==
    /\ on[c] = Nobody /\ ptlock = c /\ loaded[c] = Nobody
    /\ state[p] = "RUNNABLE"
    /\ loaded' = [loaded EXCEPT ![c] = p]
    /\ on' = [on EXCEPT ![c] = p]
    /\ state' = [state EXCEPT ![p] = "RUNNING"]
    /\ UNCHANGED <<haspid, parent, killed, pages, pc, embryo, ptlock, clock>>

SwitchKvm(c) ==
    /\ on[c] = Nobody /\ loaded[c] # Nobody
    /\ loaded' = [loaded EXCEPT ![c] = Nobody]
    /\ UNCHANGED <<slot, pages, pc, embryo, on, ptlock, clock>>

ScanEnd(c) ==
    /\ on[c] = Nobody /\ ptlock = c /\ loaded[c] = Nobody
    /\ ptlock' = Nobody
    /\ UNCHANGED <<slot, pages, pc, embryo, cpu, clock>>

(* sched(), called with ptable.lock and the state already changed.         *)
Sched(c, p) ==
    /\ on[c] = p /\ state[p] # "RUNNING"
    /\ on' = [on EXCEPT ![c] = Nobody]
    /\ UNCHANGED <<slot, pages, pc, embryo, loaded, ptlock, clock>>

(* Back from sched() in yield() or sleep(), or in forkret().               *)
Resume(c, p) ==
    /\ Runs(c, p) /\ ptlock = c /\ pc[p] # "scan"
    /\ ptlock' = Nobody
    /\ Goto(p, IF pc[p] = "start" THEN "user" ELSE IF pc[p] = "doze" THEN "relock" ELSE pc[p])
    /\ UNCHANGED <<slot, pages, embryo, cpu, clock>>

(* Mutant of Keeps: the lock is released before sched().                   *)
Releases(c) == Nobody

(* ptable.lock stays with the CPU into sched().                            *)
Keeps(c) == c

Yield(c, p) ==
    /\ Runs(c, p) /\ ptlock = Nobody /\ tlock # c
    /\ ptlock' = Keeps(c)
    /\ state' = [state EXCEPT ![p] = "RUNNABLE"]
    /\ UNCHANGED <<haspid, parent, killed, pages, pc, embryo, cpu, clock>>

(* A system call; a killed process exits instead.                          *)
Enter(c, p, call) ==
    /\ At(c, p, "user") /\ ptlock # c
    /\ killed[p] => call = "exit"
    /\ p = initproc => call # "exit"
    /\ Goto(p, call)
    /\ UNCHANGED <<slot, pages, embryo, cpu, ptlock, clock>>

-----------------------------------------------------------------------------
(* fork                                                                    *)
Unused == {s \in Slots : state[s] = "UNUSED"}

AllocProc(c, p) ==
    /\ At(c, p, "fork") /\ ptlock = Nobody
    /\ IF Unused # {}
       THEN LET s == Lowest(Unused) IN
            /\ state' = [state EXCEPT ![s] = "EMBRYO"]
            /\ haspid' = [haspid EXCEPT ![s] = TRUE]
            /\ embryo' = [embryo EXCEPT ![p] = s]
            /\ Goto(p, "stack")
       ELSE /\ Goto(p, "user")
            /\ UNCHANGED <<state, haspid, embryo>>
    /\ UNCHANGED <<parent, killed, pages, cpu, ptlock, clock>>

(* The slot is given back; its pid and killed stay.                        *)
ForkFails(p) ==
    /\ state' = [state EXCEPT ![embryo[p]] = "UNUSED"]
    /\ embryo' = [embryo EXCEPT ![p] = Nobody]
    /\ Goto(p, "user")

StackPage(c, p) ==
    /\ At(c, p, "stack") /\ ptlock # c
    /\ IF free > 0
       THEN /\ kstack' = [kstack EXCEPT ![embryo[p]] = TRUE]
            /\ free' = free - 1
            /\ Goto(p, "copy")
            /\ UNCHANGED <<state, embryo>>
       ELSE ForkFails(p) /\ UNCHANGED <<kstack, free>>
    /\ UNCHANGED <<haspid, parent, killed, space, fresh, cpu, ptlock, clock>>

(* The next page of the space that p builds.                               *)
TakePage(p) ==
    /\ free > 0
    /\ fresh' = [fresh EXCEPT ![p] = @ + 1]
    /\ free' = free - 1

CopyPage(c, p) ==
    /\ At(c, p, "copy") /\ ptlock # c /\ fresh[p] < space[p]
    /\ TakePage(p)
    /\ UNCHANGED <<slot, kstack, space, pc, embryo, cpu, ptlock, clock>>

(* Mutant of GivenUp: a copy given up half way is not freed.               *)
GivenUpOnlyStack(p) == 1

GivenUp(p) == fresh[p] + 1

CopyFails(c, p) ==
    /\ At(c, p, "copy") /\ ptlock # c /\ fresh[p] < space[p] /\ free = 0
    /\ free' = free + GivenUp(p)
    /\ fresh' = [fresh EXCEPT ![p] = 0]
    /\ kstack' = [kstack EXCEPT ![embryo[p]] = FALSE]
    /\ ForkFails(p)
    /\ UNCHANGED <<haspid, parent, killed, space, cpu, ptlock, clock>>

Copied(c, p) ==
    /\ At(c, p, "copy") /\ ptlock # c /\ fresh[p] = space[p]
    /\ space' = [space EXCEPT ![embryo[p]] = fresh[p]]
    /\ fresh' = [fresh EXCEPT ![p] = 0]
    /\ parent' = [parent EXCEPT ![embryo[p]] = p]
    /\ Goto(p, "ready")
    /\ UNCHANGED <<state, haspid, killed, kstack, free, embryo, cpu, ptlock, clock>>

Ready(c, p) ==
    /\ At(c, p, "ready") /\ ptlock = Nobody
    /\ state' = [state EXCEPT ![embryo[p]] = "RUNNABLE"]
    /\ embryo' = [embryo EXCEPT ![p] = Nobody]
    /\ Goto(p, "user")
    /\ UNCHANGED <<haspid, parent, killed, pages, cpu, ptlock, clock>>

-----------------------------------------------------------------------------
(* exec: a new space is built and put in place of the old one.             *)
ExecPage(c, p) ==
    /\ At(c, p, "exec") /\ ptlock # c /\ fresh[p] < MaxSpace
    /\ TakePage(p)
    /\ UNCHANGED <<slot, kstack, space, pc, embryo, cpu, ptlock, clock>>

(* For want of memory, or of a proper program.                             *)
ExecFails(c, p) ==
    /\ At(c, p, "exec") /\ ptlock # c
    /\ free' = free + fresh[p]
    /\ fresh' = [fresh EXCEPT ![p] = 0]
    /\ Goto(p, "user")
    /\ UNCHANGED <<slot, kstack, space, embryo, cpu, ptlock, clock>>

ExecCommit(c, p) ==
    /\ At(c, p, "exec") /\ ptlock # c /\ fresh[p] >= MinSpace
    /\ free' = free + space[p]
    /\ space' = [space EXCEPT ![p] = fresh[p]]
    /\ fresh' = [fresh EXCEPT ![p] = 0]
    /\ Goto(p, "user")
    /\ UNCHANGED <<slot, kstack, embryo, cpu, ptlock, clock>>

-----------------------------------------------------------------------------
(* wakeup1 of the processes that sleep in wait() or by the clock: in       *)
(* wait() each has a channel of its own.                                   *)
Asleep(s, place) == state[s] = "SLEEPING" /\ pc[s] = place

Wakeup1(procs, place) ==
    [s \in Slots |-> IF s \in procs /\ Asleep(s, place) THEN "RUNNABLE" ELSE state[s]]

Children(p) == {s \in Slots : parent[s] = p}

(* Mutant of ToWake: only init is told, of the zombies it inherits.        *)
HeirOnly(p) == {q \in {initproc} : \E s \in Children(p) : state[s] = "ZOMBIE"}

ToWake(p) ==
    {parent[p]} \cup {q \in {initproc} : \E s \in Children(p) : state[s] = "ZOMBIE"}

(* Mutant of Heir: children stay with a parent that is gone.               *)
NoHeir(s, p) == parent[s]

Heir(s, p) == IF parent[s] = p THEN initproc ELSE parent[s]

Exit(c, p) ==
    /\ At(c, p, "exit") /\ ptlock = Nobody
    /\ ptlock' = Keeps(c)
    /\ state' = [Wakeup1(ToWake(p), "scan") EXCEPT ![p] = "ZOMBIE"]
    /\ parent' = [s \in Slots |-> Heir(s, p)]
    /\ Goto(p, "start")
    /\ UNCHANGED <<haspid, killed, pages, embryo, cpu, clock>>

-----------------------------------------------------------------------------
(* wait                                                                    *)
WaitLock(c, p) ==
    /\ At(c, p, "wait") /\ ptlock = Nobody
    /\ ptlock' = c
    /\ Goto(p, "scan")
    /\ UNCHANGED <<slot, pages, embryo, cpu, clock>>

Zombies(p) == {s \in Children(p) : state[s] = "ZOMBIE"}

Scans(c, p) == At(c, p, "scan") /\ ptlock = c

WaitReturns(p) == Goto(p, "user") /\ ptlock' = Nobody

Reap(c, p) ==
    LET s == Lowest(Zombies(p)) IN
    /\ Scans(c, p) /\ Zombies(p) # {}
    /\ free' = free + space[s] + 1
    /\ kstack' = [kstack EXCEPT ![s] = FALSE]
    /\ space' = [space EXCEPT ![s] = 0]
    /\ haspid' = [haspid EXCEPT ![s] = FALSE]
    /\ parent' = [parent EXCEPT ![s] = Nobody]
    /\ killed' = [killed EXCEPT ![s] = FALSE]
    /\ state' = [state EXCEPT ![s] = "UNUSED"]
    /\ WaitReturns(p)
    /\ UNCHANGED <<fresh, embryo, cpu, clock>>

NoPoint(c, p) ==
    /\ Scans(c, p) /\ Zombies(p) = {}
    /\ Children(p) = {} \/ killed[p]
    /\ WaitReturns(p)
    /\ UNCHANGED <<slot, pages, embryo, cpu, clock>>

WaitSleep(c, p) ==
    /\ Scans(c, p) /\ Zombies(p) = {}
    /\ Children(p) # {} /\ ~killed[p]
    /\ state' = [state EXCEPT ![p] = "SLEEPING"]
    /\ UNCHANGED <<haspid, parent, killed, pages, pc, embryo, cpu, ptlock, clock>>

-----------------------------------------------------------------------------
(* kill(): the first slot with the pid, whatever its state.  A pid that is *)
(* 0 is the first slot's that has none.                                    *)
WithPid == {s \in Slots : haspid[s]}
Addressed == WithPid \cup (IF WithPid = Slots THEN {} ELSE {Lowest(Slots \ WithPid)})

Kill(c, p, s) ==
    /\ At(c, p, "kill") /\ ptlock = Nobody
    /\ s \in Addressed /\ s # initproc
    /\ killed' = [killed EXCEPT ![s] = TRUE]
    /\ state' = [state EXCEPT ![s] = IF @ = "SLEEPING" THEN "RUNNABLE" ELSE @]
    /\ Goto(p, "user")
    /\ UNCHANGED <<haspid, parent, pages, embryo, cpu, ptlock, clock>>

-----------------------------------------------------------------------------
(* sys_sleep: tickslock is held from the test to the taking of ptable.lock *)
(* in sleep().                                                             *)
TicksLock(c, p) ==
    /\ At(c, p, "sleep") \/ At(c, p, "relock")
    /\ ptlock # c /\ tlock = Nobody
    /\ tlock' = c
    /\ Goto(p, "test")
    /\ UNCHANGED <<slot, pages, embryo, cpu, ptlock, ticking, due>>

SleepReturns(c, p) ==
    /\ At(c, p, "test")
    /\ due[p] \/ killed[p]
    /\ tlock' = Nobody
    /\ due' = [due EXCEPT ![p] = FALSE]
    /\ Goto(p, "user")
    /\ UNCHANGED <<slot, pages, embryo, cpu, ptlock, ticking>>

SleepAgain(c, p) ==
    /\ At(c, p, "test") /\ ~due[p] /\ ~killed[p]
    /\ Goto(p, "drowsy")
    /\ UNCHANGED <<slot, pages, embryo, cpu, ptlock, clock>>

Sleep(c, p) ==
    /\ At(c, p, "drowsy") /\ ptlock = Nobody
    /\ ptlock' = Keeps(c) /\ tlock' = Nobody
    /\ state' = [state EXCEPT ![p] = "SLEEPING"]
    /\ Goto(p, "doze")
    /\ UNCHANGED <<haspid, parent, killed, pages, embryo, cpu, ticking, due>>

(* Mutant of TicksFree: the tick is counted without tickslock.             *)
NoTicksLock == TRUE

TicksFree == tlock = Nobody

(* The timer interrupts Clock where it holds no lock, ...                  *)
Tick ==
    /\ ~ticking /\ ptlock # Clock /\ tlock # Clock
    /\ TicksFree
    /\ tlock' = Clock
    /\ ticking' = TRUE
    /\ due' = [s \in Slots |-> pc[s] \in {"test", "drowsy", "doze", "relock"}]
    /\ UNCHANGED <<slot, pages, pc, embryo, cpu, ptlock>>

(* ... and wakeup(&ticks).                                                 *)
TickWakes ==
    /\ ticking /\ ptlock = Nobody
    /\ state' = Wakeup1(Slots, "doze")
    /\ tlock' = Nobody
    /\ ticking' = FALSE
    /\ UNCHANGED <<haspid, parent, killed, pages, pc, embryo, cpu, ptlock, due>>

-----------------------------------------------------------------------------
Scheduler(c) == ScanStart(c) \/ SwitchKvm(c) \/ ScanEnd(c)

ForkStep(c, p) ==
    \/ AllocProc(c, p) \/ StackPage(c, p)
    \/ CopyPage(c, p) \/ CopyFails(c, p) \/ Copied(c, p)
    \/ Ready(c, p)

ExecStep(c, p) == ExecPage(c, p) \/ ExecFails(c, p) \/ ExecCommit(c, p)

SleepStep(c, p) ==
    TicksLock(c, p) \/ SleepReturns(c, p) \/ SleepAgain(c, p) \/ Sleep(c, p)

WaitStep(c, p) == WaitLock(c, p) \/ Reap(c, p) \/ NoPoint(c, p) \/ WaitSleep(c, p)

Calls == {"fork", "exec", "exit", "wait", "kill", "sleep"}

Switch(c) == Scheduler(c) \/ \E p \in Slots : Sched(c, p) \/ Resume(c, p)

Step(c, p) ==
    \/ ForkStep(c, p) \/ ExecStep(c, p) \/ Exit(c, p) \/ WaitStep(c, p) \/ SleepStep(c, p)
    \/ \E s \in Slots : Kill(c, p, s)

Next ==
    \/ Tick \/ TickWakes
    \/ \E c \in CPUs :
         /\ c = Clock => ~ticking
         /\ \/ Switch(c)
            \/ \E p \in Slots :
                 \/ Dispatch(c, p) \/ Step(c, p) \/ Yield(c, p)
                 \/ \E call \in Calls : Enter(c, p, call)

Spec == Init /\ [][Next]_vars
-----------------------------------------------------------------------------
States == {"UNUSED", "EMBRYO", "SLEEPING", "RUNNABLE", "RUNNING", "ZOMBIE"}

TypeOK ==
    /\ state \in [Slots -> States]
    /\ haspid \in [Slots -> BOOLEAN]
    /\ parent \in [Slots -> Slots \cup {Nobody}]
    /\ killed \in [Slots -> BOOLEAN]
    /\ kstack \in [Slots -> BOOLEAN]
    /\ space \in [Slots -> 0 .. MaxSpace]
    /\ fresh \in [Slots -> 0 .. MaxSpace]
    /\ free \in Nat
    /\ pc \in [Slots -> Calls \cup {"start", "user", "stack", "copy", "ready", "scan",
                             "test", "drowsy", "doze", "relock"}]
    /\ embryo \in [Slots -> Slots \cup {Nobody}]
    /\ on \in [CPUs -> Slots \cup {Nobody}]
    /\ loaded \in [CPUs -> Slots \cup {Nobody}]
    /\ {ptlock, tlock} \subseteq CPUs \cup {Nobody}
    /\ ticking \in BOOLEAN /\ due \in [Slots -> BOOLEAN]

(* The pages that a count for each slot stands for, each a pair.           *)
PagesOf(count) == {u \in Slots \X (1 .. MaxSpace) : u[2] <= count[u[1]]}

(* Every page is free, or part of one process: none is lost or freed twice *)
(* when fork() or exec() fails half way, or when a process is reaped; ...  *)
PagesConserved ==
    NPAGES = free
             + Cardinality({s \in Slots : kstack[s]})
             + Cardinality(PagesOf(space)) + Cardinality(PagesOf(fresh))

(* ... and a slot has none before fork() gives it some, nor after wait(),  *)
(* and none but those of its space outside fork() and exec().              *)
PagesOwned ==
    \A s \in Slots :
      /\ state[s] = "UNUSED" => ~kstack[s] /\ space[s] = 0
      /\ pc[s] = "stack" => ~kstack[embryo[s]]
      /\ pc[s] \in {"stack", "copy"} => space[embryo[s]] = 0
      /\ pc[s] \notin {"copy", "exec"} => fresh[s] = 0

PageInv == PagesConserved /\ PagesOwned

(* A CPU is never on a stack, nor on a page table, that has been freed:    *)
(* the parent of a zombie reaps it only after it has left both.            *)
NothingFreedInUse ==
    \A c \in CPUs :
      /\ on[c] # Nobody => kstack[on[c]] /\ space[on[c]] > 0
      /\ loaded[c] # Nobody => kstack[loaded[c]] /\ space[loaded[c]] > 0

(* A process runs on one CPU at a time, and a CPU that runs one believes   *)
(* so.                                                                     *)
OneCPU ==
    /\ \A c, d \in CPUs : on[c] # Nobody /\ on[c] = on[d] => c = d
    /\ \A c \in CPUs : on[c] # Nobody => loaded[c] = on[c]
    /\ \A s \in Slots : state[s] = "RUNNING" => \E c \in CPUs : on[c] = s

(* Every process but init has a parent that lives to wait for it.          *)
Alive(s) == state[s] \in {"SLEEPING", "RUNNABLE", "RUNNING"}

NoOrphan ==
    \A s \in Slots \ {initproc} :
      state[s] \in {"SLEEPING", "RUNNABLE", "RUNNING", "ZOMBIE"} =>
        parent[s] # Nobody /\ Alive(parent[s])

(* Nobody sleeps in wait() over a zombie child, nor after being killed,    *)
(* nor without a child to wait for.                                        *)
NoSleepOverZombie ==
    \A p \in Slots :
      Asleep(p, "scan") => Zombies(p) = {} /\ Children(p) # {} /\ ~killed[p]

(* "... we can be guaranteed that we won't miss any wakeup" (sleep):       *)
(* nobody sleeps on after the tick it sleeps for, once that is announced.  *)
NoMissedTick == \A p \in Slots : Asleep(p, "doze") /\ due[p] => ticking

(* Who is on a stack without running has ptable.lock, and so has who has   *)
(* just been resumed, who scans in wait(), and the scheduler as long as a  *)
(* process is loaded.                                                      *)
LockHandedOver ==
    /\ \A c \in CPUs, p \in Slots :
         on[c] = p /\ (state[p] # "RUNNING" \/ pc[p] \in {"start", "doze", "scan"}) => ptlock = c
    /\ \A c \in CPUs : on[c] = Nobody /\ loaded[c] # Nobody => ptlock = c

Grown(s) == state[s] \in {"SLEEPING", "RUNNABLE", "RUNNING", "ZOMBIE"}

(* Where a process can be in each state; init lives for ever.              *)
PlacesAgree ==
    /\ \A p \in Slots :
         /\ ~Alive(p) => pc[p] = "start"
         /\ state[p] = "SLEEPING" => pc[p] \in {"scan", "doze"}
         /\ Grown(p) => kstack[p] /\ space[p] > 0
    /\ Alive(initproc) /\ pc[initproc] # "exit"
    /\ \A c \in CPUs : loaded[c] # Nobody => Grown(loaded[c])

(* A fork under way has a slot of its own, which has no parent yet.        *)
EmbryosAgree ==
    /\ \A p \in Slots :
         /\ embryo[p] # Nobody <=> pc[p] \in {"stack", "copy", "ready"}
         /\ embryo[p] # Nobody => state[embryo[p]] = "EMBRYO"
         /\ pc[p] \in {"copy", "ready"} => kstack[embryo[p]]
         /\ pc[p] \in {"stack", "copy"} => parent[embryo[p]] = Nobody
         /\ pc[p] = "ready" => parent[embryo[p]] = p /\ space[embryo[p]] > 0
    /\ \A p, q \in Slots : embryo[p] = embryo[q] /\ embryo[p] # Nobody => p = q

ParentsAgree ==
    /\ parent[initproc] = Nobody
    /\ \A s \in Slots : parent[s] # s /\ (state[s] = "UNUSED" => parent[s] = Nobody)

(* Between the test of the ticks and sleep() a process has tickslock and   *)
(* its CPU; so no tick comes.                                              *)
TicksHeld ==
    /\ ticking => tlock = Clock
    /\ \A p \in Slots : pc[p] \in {"test", "drowsy"} =>
         /\ state[p] = "RUNNING"
         /\ \E c \in CPUs : on[c] = p /\ tlock = c /\ (c = Clock => ~ticking)
    /\ \A p \in Slots : pc[p] = "drowsy" => ~due[p]

(* The inductive invariant.                                                *)
ProcInv ==
    /\ TypeOK /\ OneCPU /\ LockHandedOver /\ PlacesAgree /\ EmbryosAgree
    /\ ParentsAgree /\ NoOrphan /\ NoSleepOverZombie /\ TicksHeld /\ NoMissedTick

(* "Kill the process with the given pid" (kill): a process that fork() has *)
(* just found a slot for has not been killed yet.                          *)
BornUnkilled ==
    [][\A s \in Slots : state[s] = "UNUSED" /\ state'[s] = "EMBRYO" => ~killed'[s]]_vars
================================================================================
