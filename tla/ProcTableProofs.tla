---------------------------- MODULE ProcTableProofs ----------------------------
(***************************************************************************)
(* For any number of slots, CPUs and pages: a process is on one CPU at a   *)
(* time, nothing is freed that a CPU still uses, every child has a parent  *)
(* that lives, no sleeper misses its child's exit or its tick, and no      *)
(* page of memory is lost.                                                 *)
(***************************************************************************)
EXTENDS ProcTable, FiniteSetTheorems, WellFoundedInduction, TLAPS

(* A loop over the table finds the first slot there is.                    *)
LEMMA LowestIn ==
    ASSUME NEW S, S \subseteq Slots, S # {}
    PROVE  Lowest(S) \in S
<1> DEFINE T == {1 .. x : x \in S}
<1>1. \A x \in S : x \in Nat /\ 1 .. x \subseteq Slots /\ IsFiniteSet(1 .. x)
  BY ProcAssumption, FS_Interval DEF Slots
<1>2. T \subseteq FiniteSubsetsOf(Slots) /\ T # {}
  BY <1>1 DEF FiniteSubsetsOf
<1>3. PICK i \in T : \A j \in T : ~(<<j, i>> \in StrictSubsetOrdering(Slots))
  BY <1>2, FS_StrictSubsetOrderingWellFounded, WFMin
<1>4. PICK x \in S : i = 1 .. x
  OBVIOUS
<1>5. ASSUME NEW y \in S, y < x PROVE FALSE
  <2>1. 1 .. y \subseteq 1 .. x /\ x \in 1 .. x /\ x \notin 1 .. y
    BY <1>1, <1>5, ProcAssumption DEF Slots
  <2>2. 1 .. y \in T /\ <<1 .. y, 1 .. x>> \in StrictSubsetOrdering(Slots)
    BY <1>1, <2>1 DEF StrictSubsetOrdering
  <2>3. QED
    BY <1>3, <1>4, <2>2
<1>6. \A y \in S : x <= y
  BY <1>1, <1>5
<1>7. QED
  BY <1>6 DEF Lowest

(* The inductive invariant holds when init is all there is.                *)
LEMMA InitProc == Init => ProcInv
<1> SUFFICES ASSUME Init PROVE ProcInv
  OBVIOUS
<1> USE DEF Init
<1>0. initproc \in Slots /\ Nobody \notin Slots /\ Nobody \notin CPUs
  BY ProcAssumption DEF Slots, initproc
<1>1. /\ \A s \in Slots : /\ state[s] = IF s = initproc THEN "RUNNABLE" ELSE "UNUSED"
                          /\ haspid[s] \in BOOLEAN
                          /\ parent[s] = Nobody /\ embryo[s] = Nobody /\ pc[s] = "start"
                          /\ kstack[s] = IF s = initproc THEN TRUE ELSE FALSE
                          /\ space[s] = IF s = initproc THEN MinSpace ELSE 0
      /\ \A c \in CPUs : on[c] = Nobody /\ loaded[c] = Nobody
  OBVIOUS
<1>2. TypeOK
  <2>1. state \in [Slots -> States] /\ haspid \in [Slots -> BOOLEAN] /\ kstack \in [Slots -> BOOLEAN]
    BY DEF States
  <2>2. space \in [Slots -> 0 .. MaxSpace] /\ fresh \in [Slots -> 0 .. MaxSpace] /\ free \in Nat
    BY ProcAssumption
  <2>3. /\ parent \in [Slots -> Slots \cup {Nobody}] /\ killed \in [Slots -> BOOLEAN]
        /\ embryo \in [Slots -> Slots \cup {Nobody}]
        /\ on \in [CPUs -> Slots \cup {Nobody}] /\ loaded \in [CPUs -> Slots \cup {Nobody}]
    OBVIOUS
  <2>4. {ptlock, tlock} \subseteq CPUs \cup {Nobody} /\ due \in [Slots -> BOOLEAN]
    OBVIOUS
  <2>5. ticking \in BOOLEAN
    BY Zenon
  <2>6. QED
    BY <2>1, <2>2, <2>3, <2>4, <2>5 DEF TypeOK
<1>3. OneCPU /\ LockHandedOver
  BY <1>0, <1>1 DEF OneCPU, LockHandedOver
<1>4. PlacesAgree
  BY <1>0, <1>1, ProcAssumption DEF PlacesAgree, Alive, Grown
<1>5. EmbryosAgree /\ ParentsAgree
  BY <1>0, <1>1 DEF EmbryosAgree, ParentsAgree
<1>6. NoOrphan /\ NoSleepOverZombie /\ TicksHeld /\ NoMissedTick
  BY <1>0, <1>1 DEF NoOrphan, NoSleepOverZombie, Asleep, TicksHeld, NoMissedTick
<1>7. QED
  BY <1>2, <1>3, <1>4, <1>5, <1>6 DEF ProcInv

(* init's slot is the first.                                               *)
LEMMA InitSlot == initproc \in Slots /\ initproc = 1
BY ProcAssumption DEF Slots, initproc

(* No CPU, and no process that has grown up, knows a slot that is unused   *)
(* or still an embryo, but the fork() that has it.                         *)
LEMMA NotGrown ==
    ASSUME ProcInv, NEW s \in Slots, ~Grown(s)
    PROVE  /\ \A d \in CPUs : on[d] # s /\ loaded[d] # s
           /\ pc[s] = "start" /\ embryo[s] = Nobody
           /\ \A q \in Slots : parent[q] = s => ~Grown(q)
           /\ s # initproc
<1> USE ProcAssumption, InitSlot DEF ProcInv, TypeOK
<1>1. \A d \in CPUs : on[d] # s /\ loaded[d] # s
  BY DEF OneCPU, PlacesAgree
<1>2. ~Alive(s) /\ pc[s] = "start" /\ s # initproc
  BY DEF PlacesAgree, Grown, Alive
<1>3. embryo[s] = Nobody
  BY <1>2 DEF EmbryosAgree
<1>4. \A q \in Slots : parent[q] = s => ~Grown(q)
  BY <1>2 DEF NoOrphan, ParentsAgree, Grown
<1>5. QED
  BY <1>1, <1>2, <1>3, <1>4

(* The slot that allocproc() finds is the forking process's own.           *)
LEMMA AllocStep ==
    ASSUME ProcInv, NEW c \in CPUs, NEW p \in Slots, AllocProc(c, p), c = Clock => ~ticking
    PROVE  ProcInv'
<1> USE ProcAssumption, InitSlot DEF ProcInv, TypeOK, AllocProc, Runs, At, Goto, slot, pages, cpu, clock
<1>1. CASE Unused = {}
  <2>1. TypeOK' /\ OneCPU' /\ LockHandedOver'
    BY <1>1 DEF States, OneCPU, LockHandedOver
  <2>2. TicksHeld' /\ NoMissedTick'
    BY <1>1 DEF TicksHeld, NoMissedTick, Asleep
  <2>3. PlacesAgree' /\ EmbryosAgree' /\ ParentsAgree'
    BY <1>1 DEF PlacesAgree, Alive, Grown, EmbryosAgree, ParentsAgree
  <2>4. NoOrphan' /\ NoSleepOverZombie'
    BY <1>1 DEF NoOrphan, Alive, NoSleepOverZombie, Asleep, Zombies, Children
  <2>5. QED
    BY <2>1, <2>2, <2>3, <2>4 DEF ProcInv
<1>2. CASE Unused # {}
  <2>1. PICK s \in Unused : s = Lowest(Unused)
    BY <1>2, LowestIn DEF Unused
  <2>2. s \in Slots /\ state[s] = "UNUSED" /\ ~Grown(s) /\ s # p /\ state[p] = "RUNNING"
    BY <2>1 DEF Unused, Grown
  <2>3. /\ state' = [state EXCEPT ![s] = "EMBRYO"]
        /\ haspid' = [haspid EXCEPT ![s] = TRUE]
        /\ embryo' = [embryo EXCEPT ![p] = s]
        /\ pc' = [pc EXCEPT ![p] = "stack"]
        /\ UNCHANGED <<parent, killed, kstack, space, fresh, free, on, loaded, ptlock, tlock, ticking, due>>
    BY <1>2, <2>1
  <2> HIDE DEF AllocProc
  <2>4. /\ \A d \in CPUs : on[d] # s /\ loaded[d] # s
        /\ pc[s] = "start" /\ s # initproc
        /\ \A q \in Slots : parent[q] = s => ~Grown(q)
    BY <2>2, NotGrown
  <2>5. TypeOK' /\ OneCPU'
    BY <2>2, <2>3, <2>4 DEF States, OneCPU
  <2>6. LockHandedOver'
    BY <2>2, <2>3, <2>4 DEF LockHandedOver
  <2>7. TicksHeld' /\ NoMissedTick'
    BY <2>2, <2>3, <2>4 DEF TicksHeld, NoMissedTick, Asleep
  <2>8. PlacesAgree'
    <3>1. \A q \in Slots : /\ Alive(q)' <=> Alive(q)
                           /\ Grown(q)' <=> Grown(q)
                           /\ ~Alive(q) => pc'[q] = pc[q]
      BY <2>2, <2>3 DEF Alive, Grown
    <3>2. \A q \in Slots : /\ ~Alive(q)' => pc'[q] = "start"
                           /\ state'[q] = "SLEEPING" => pc'[q] \in {"scan", "doze"}
                           /\ Grown(q)' => kstack'[q] /\ space'[q] > 0
      BY <2>2, <2>3, <3>1 DEF PlacesAgree
    <3>3. Alive(initproc)' /\ pc'[initproc] # "exit"
      BY <2>2, <2>3, <3>1 DEF PlacesAgree
    <3>4. \A d \in CPUs : loaded'[d] # Nobody => state'[loaded'[d]] = state[loaded[d]]
      BY <2>3, <2>4
    <3>5. QED
      BY <2>3, <3>2, <3>3, <3>4 DEF PlacesAgree, Grown, Alive
  <2>9. EmbryosAgree' /\ ParentsAgree'
    BY <2>2, <2>3, <2>4 DEF EmbryosAgree, ParentsAgree
  <2>10. NoOrphan'
    BY <2>2, <2>3, <2>4 DEF NoOrphan, Alive, Grown
  <2>11. NoSleepOverZombie'
    BY <2>2, <2>3, <2>4 DEF NoSleepOverZombie, Asleep, Zombies, Children
  <2>12. QED
    BY <2>5, <2>6, <2>7, <2>8, <2>9, <2>10, <2>11 DEF ProcInv
<1>3. QED
  BY <1>1, <1>2

(* The scheduler runs a process that is on no other CPU.                   *)
LEMMA DispatchStep ==
    ASSUME ProcInv, NEW c \in CPUs, NEW p \in Slots, Dispatch(c, p), c = Clock => ~ticking
    PROVE ProcInv'
<1> USE ProcAssumption, InitSlot DEF ProcInv, TypeOK, Dispatch, Runs, At, Goto, slot, pages, cpu, clock
<1>1. TypeOK'
  BY DEF States
<1>2. OneCPU'
  <2>1. \A d \in CPUs : on[d] # p
    BY DEF OneCPU, LockHandedOver
  <2>2. QED
    BY <2>1 DEF OneCPU
<1>3. LockHandedOver'
  BY DEF LockHandedOver
<1>4. TicksHeld' /\ NoMissedTick'
  BY DEF TicksHeld, NoMissedTick, Asleep
<1>5. PlacesAgree' /\ EmbryosAgree' /\ ParentsAgree'
  BY DEF PlacesAgree, Alive, Grown, EmbryosAgree, ParentsAgree
<1>6. NoOrphan' /\ NoSleepOverZombie'
  BY DEF NoOrphan, Alive, NoSleepOverZombie, Asleep, Zombies, Children
<1>7. QED
  BY <1>1, <1>2, <1>3, <1>4, <1>5, <1>6 DEF ProcInv

(* A process that yields leaves with ptable.lock, which it did not have.   *)
LEMMA YieldStep ==
    ASSUME ProcInv, NEW c \in CPUs, NEW p \in Slots, Yield(c, p), c = Clock => ~ticking
    PROVE ProcInv'
<1> USE ProcAssumption, InitSlot DEF ProcInv, TypeOK, Yield, Keeps, Runs, At, Goto, slot, pages, cpu, clock
<1>0. \A d \in CPUs : on[d] = p => d = c
  BY DEF OneCPU
<1>1. TypeOK' /\ OneCPU'
  BY DEF States, OneCPU
<1>3. LockHandedOver'
  BY <1>0 DEF LockHandedOver
<1>4. TicksHeld' /\ NoMissedTick'
  <2>1. pc[p] \notin {"test", "drowsy"}
    BY <1>0 DEF TicksHeld
  <2>2. QED
    BY <2>1 DEF TicksHeld, NoMissedTick, Asleep
<1>5. PlacesAgree' /\ EmbryosAgree' /\ ParentsAgree'
  BY DEF PlacesAgree, Alive, Grown, EmbryosAgree, ParentsAgree
<1>6. NoOrphan' /\ NoSleepOverZombie'
  BY DEF NoOrphan, Alive, NoSleepOverZombie, Asleep, Zombies, Children
<1>7. QED
  BY <1>1, <1>3, <1>4, <1>5, <1>6 DEF ProcInv

(* No system call begins in the middle.                                    *)
LEMMA EnterStep ==
    ASSUME ProcInv, NEW c \in CPUs, NEW p \in Slots, NEW call \in Calls, Enter(c, p, call),
           c = Clock => ~ticking
    PROVE ProcInv'
<1> USE ProcAssumption, InitSlot DEF ProcInv, TypeOK, Enter, Runs, At, Goto, slot, pages, cpu, clock
<1>0. call \notin {"start", "user", "stack", "copy", "ready", "scan", "test", "drowsy", "doze", "relock"}
  BY DEF Calls
<1>1. TypeOK' /\ OneCPU'
  BY DEF States, OneCPU
<1>3. LockHandedOver'
  BY <1>0 DEF LockHandedOver
<1>4. TicksHeld' /\ NoMissedTick'
  BY <1>0 DEF TicksHeld, NoMissedTick, Asleep
<1>5. PlacesAgree' /\ EmbryosAgree' /\ ParentsAgree'
  BY <1>0 DEF PlacesAgree, Alive, Grown, EmbryosAgree, ParentsAgree
<1>6. NoOrphan' /\ NoSleepOverZombie'
  BY <1>0 DEF NoOrphan, Alive, NoSleepOverZombie, Asleep, Zombies, Children
<1>7. QED
  BY <1>1, <1>3, <1>4, <1>5, <1>6 DEF ProcInv

(* wait() takes ptable.lock for the scan.                                  *)
LEMMA WaitLockStep ==
    ASSUME ProcInv, NEW c \in CPUs, NEW p \in Slots, WaitLock(c, p), c = Clock => ~ticking
    PROVE ProcInv'
<1> USE ProcAssumption, InitSlot DEF ProcInv, TypeOK, WaitLock, Runs, At, Goto, slot, pages, cpu, clock
<1>1. TypeOK' /\ OneCPU'
  BY DEF States, OneCPU
<1>3. LockHandedOver'
  <2>1. \A d \in CPUs : on[d] = p => d = c
    BY DEF OneCPU
  <2>2. QED
    BY <2>1 DEF LockHandedOver
<1>4. TicksHeld' /\ NoMissedTick'
  BY DEF TicksHeld, NoMissedTick, Asleep
<1>5. PlacesAgree' /\ EmbryosAgree' /\ ParentsAgree'
  BY DEF PlacesAgree, Alive, Grown, EmbryosAgree, ParentsAgree
<1>6. NoOrphan' /\ NoSleepOverZombie'
  BY DEF NoOrphan, Alive, NoSleepOverZombie, Asleep, Zombies, Children
<1>7. QED
  BY <1>1, <1>3, <1>4, <1>5, <1>6 DEF ProcInv

(* sleep() takes ptable.lock before it gives up tickslock.                 *)
LEMMA SleepsStep ==
    ASSUME ProcInv, NEW c \in CPUs, NEW p \in Slots, Sleep(c, p), c = Clock => ~ticking
    PROVE ProcInv'
<1> USE ProcAssumption, InitSlot DEF ProcInv, TypeOK, Sleep, Keeps, Runs, At, Goto, slot, pages, cpu, clock
<1>0. \A d \in CPUs : on[d] = p => d = c
  BY DEF OneCPU
<1>1. TypeOK' /\ OneCPU'
  BY DEF States, OneCPU
<1>3. LockHandedOver'
  BY <1>0 DEF LockHandedOver
<1>4. TicksHeld'
  BY <1>0 DEF TicksHeld
<1>8. NoMissedTick'
  <2>1. ~due[p]
    BY DEF TicksHeld
  <2>2. QED
    BY <2>1 DEF NoMissedTick, Asleep
<1>5. PlacesAgree' /\ EmbryosAgree' /\ ParentsAgree'
  BY DEF PlacesAgree, Alive, Grown, EmbryosAgree, ParentsAgree
<1>6. NoOrphan' /\ NoSleepOverZombie'
  BY DEF NoOrphan, Alive, NoSleepOverZombie, Asleep, Zombies, Children
<1>7. QED
  BY <1>1, <1>3, <1>4, <1>5, <1>6, <1>8 DEF ProcInv

IsOwn(e, p) ==
    /\ e = embryo[p] /\ state[e] = "EMBRYO" /\ e # p /\ e # initproc
    /\ pc[e] = "start" /\ embryo[e] = Nobody
    /\ \A d \in CPUs : on[d] # e /\ loaded[d] # e
    /\ \A q \in Slots : /\ parent[q] = e => ~Grown(q)
                        /\ embryo[q] = e => q = p

(* A fork() under way has its slot, not its own, for itself.               *)
LEMMA OwnEmbryo ==
    ASSUME ProcInv, NEW c \in CPUs, NEW p \in Slots, Runs(c, p), pc[p] \in {"stack", "copy", "ready"}
    PROVE  \E e \in Slots : IsOwn(e, p)
<1> USE DEF ProcInv, TypeOK
<1>1. embryo[p] # Nobody /\ embryo[p] \in Slots /\ state[embryo[p]] = "EMBRYO"
  BY DEF EmbryosAgree
<1>2. PICK e \in Slots : e = embryo[p]
  BY <1>1
<1>3. ~Grown(e) /\ state[e] = "EMBRYO" /\ e # p
  BY <1>1, <1>2 DEF Grown, Runs
<1>4. \A q \in Slots : embryo[q] = e => q = p
  BY <1>1, <1>2 DEF EmbryosAgree
<1>5. QED
  BY <1>2, <1>3, <1>4, NotGrown DEF IsOwn

(* A fork that gives its slot back leaves no trace of it.                  *)
LEMMA ForkGivesUp ==
    ASSUME ProcInv, NEW c \in CPUs, NEW p \in Slots, Runs(c, p), pc[p] \in {"stack", "copy"},
           ForkFails(p), c = Clock => ~ticking,
           UNCHANGED <<haspid, parent, killed, space, on, loaded, ptlock, tlock, ticking, due>>,
           kstack' = kstack \/ kstack' = [kstack EXCEPT ![embryo[p]] = FALSE],
           fresh' \in [Slots -> 0 .. MaxSpace], free' \in Nat
    PROVE  ProcInv'
<1> USE ProcAssumption, InitSlot DEF ProcInv, TypeOK, Runs, Goto
<1>1. PICK e \in Slots : IsOwn(e, p)
  BY OwnEmbryo
<1> USE DEF IsOwn
<1>2. /\ state' = [state EXCEPT ![e] = "UNUSED"]
      /\ embryo' = [embryo EXCEPT ![p] = Nobody]
      /\ pc' = [pc EXCEPT ![p] = "user"]
      /\ kstack' \in [Slots -> BOOLEAN] /\ \A q \in Slots : q # e => kstack'[q] = kstack[q]
  BY <1>1 DEF ForkFails
<1>3. parent[e] = Nobody
  BY <1>1 DEF EmbryosAgree
<1>4. TypeOK' /\ OneCPU'
  BY <1>1, <1>2 DEF States, OneCPU
<1>5. LockHandedOver'
  BY <1>1, <1>2 DEF LockHandedOver
<1>6. TicksHeld' /\ NoMissedTick'
  BY <1>1, <1>2 DEF TicksHeld, NoMissedTick, Asleep
<1>7. PlacesAgree'
  <2>1. \A q \in Slots : /\ Alive(q)' <=> Alive(q)
                         /\ Grown(q)' <=> Grown(q)
                         /\ ~Alive(q) => pc'[q] = pc[q]
    BY <1>1, <1>2 DEF Alive, Grown
  <2>2. \A q \in Slots : /\ ~Alive(q)' => pc'[q] = "start"
                         /\ state'[q] = "SLEEPING" => pc'[q] \in {"scan", "doze"}
                         /\ Grown(q)' => kstack'[q] /\ space'[q] > 0
    BY <1>1, <1>2, <2>1 DEF PlacesAgree, Grown
  <2>3. Alive(initproc)' /\ pc'[initproc] # "exit"
    BY <1>1, <1>2, <2>1 DEF PlacesAgree
  <2>4. \A d \in CPUs : loaded'[d] # Nobody => state'[loaded'[d]] = state[loaded[d]]
    BY <1>1, <1>2
  <2>5. QED
    BY <1>2, <2>2, <2>3, <2>4 DEF PlacesAgree, Grown, Alive
<1>8. EmbryosAgree'
  <2>1. \A q \in Slots : q # p => embryo'[q] = embryo[q] /\ embryo[q] # e /\ pc'[q] = pc[q]
    BY <1>1, <1>2
  <2>2. \A q \in Slots : q # p /\ embryo[q] # Nobody =>
          /\ state'[embryo[q]] = state[embryo[q]] /\ kstack'[embryo[q]] = kstack[embryo[q]]
          /\ parent'[embryo[q]] = parent[embryo[q]] /\ space'[embryo[q]] = space[embryo[q]]
    BY <1>1, <1>2
  <2>3. embryo'[p] = Nobody /\ pc'[p] = "user"
    BY <1>2
  <2>4. QED
    BY <2>1, <2>2, <2>3 DEF EmbryosAgree
<1>9. ParentsAgree'
  BY <1>1, <1>2, <1>3 DEF ParentsAgree
<1>10. NoOrphan' /\ NoSleepOverZombie'
  BY <1>1, <1>2 DEF NoOrphan, Alive, Grown, NoSleepOverZombie, Asleep, Zombies, Children
<1>11. QED
  BY <1>4, <1>5, <1>6, <1>7, <1>8, <1>9, <1>10 DEF ProcInv

(* allocproc() finds a page for the stack or gives the slot back.          *)
LEMMA StackStep ==
    ASSUME ProcInv, NEW c \in CPUs, NEW p \in Slots, StackPage(c, p), c = Clock => ~ticking
    PROVE  ProcInv'
<1> USE ProcAssumption, InitSlot DEF ProcInv, TypeOK, StackPage, Runs, At, Goto, slot, pages, cpu, clock
<1>1. PICK e \in Slots : IsOwn(e, p)
  BY OwnEmbryo
<1> USE DEF IsOwn
<1>2. CASE free > 0
  <2>1. /\ state[p] = "RUNNING" /\ pc[p] = "stack"
        /\ kstack' = [kstack EXCEPT ![e] = TRUE] /\ free' = free - 1
        /\ pc' = [pc EXCEPT ![p] = "copy"]
        /\ UNCHANGED <<state, embryo, haspid, parent, killed, space, fresh,
                       on, loaded, ptlock, tlock, ticking, due>>
    BY <1>1, <1>2
  <2> HIDE DEF StackPage
  <2>2. TypeOK' /\ OneCPU' /\ LockHandedOver'
    BY <1>1, <1>2, <2>1 DEF States, OneCPU, LockHandedOver
  <2>3. TicksHeld' /\ NoMissedTick'
    BY <1>1, <2>1 DEF TicksHeld, NoMissedTick, Asleep
  <2>4. PlacesAgree' /\ EmbryosAgree' /\ ParentsAgree'
    BY <1>1, <2>1 DEF PlacesAgree, Alive, Grown, EmbryosAgree, ParentsAgree
  <2>5. NoOrphan' /\ NoSleepOverZombie'
    BY <1>1, <2>1 DEF NoOrphan, Alive, NoSleepOverZombie, Asleep, Zombies, Children
  <2>6. QED
    BY <2>2, <2>3, <2>4, <2>5 DEF ProcInv
<1>3. CASE ~(free > 0)
  BY <1>3, ForkGivesUp
<1>4. QED
  BY <1>2, <1>3

(* A copy that fails gives stack and slot back.                            *)
LEMMA CopyFailsStep ==
    ASSUME ProcInv, NEW c \in CPUs, NEW p \in Slots, CopyFails(c, p), c = Clock => ~ticking
    PROVE  ProcInv'
<1>1. /\ Runs(c, p) /\ pc[p] \in {"stack", "copy"} /\ ForkFails(p)
      /\ UNCHANGED <<haspid, parent, killed, space, on, loaded, ptlock, tlock, ticking, due>>
      /\ kstack' = [kstack EXCEPT ![embryo[p]] = FALSE]
  BY DEF CopyFails, At, cpu, clock
<1>2. fresh' \in [Slots -> 0 .. MaxSpace] /\ free' \in Nat
  BY ProcAssumption DEF CopyFails, GivenUp, ProcInv, TypeOK
<1>3. QED
  BY <1>1, <1>2, ForkGivesUp

(* The child gets its space and its parent.                                *)
LEMMA CopiedStep ==
    ASSUME ProcInv, NEW c \in CPUs, NEW p \in Slots, Copied(c, p), c = Clock => ~ticking
    PROVE  ProcInv'
<1> USE ProcAssumption, InitSlot DEF ProcInv, TypeOK, Runs, At, Goto, slot, pages, cpu, clock
<1>1. PICK e \in Slots : IsOwn(e, p)
  BY OwnEmbryo DEF Copied
<1> USE DEF IsOwn
<1>2. /\ Runs(c, p) /\ pc[p] = "copy" /\ fresh[p] = space[p]
      /\ space' = [space EXCEPT ![e] = fresh[p]]
      /\ fresh' = [fresh EXCEPT ![p] = 0]
      /\ parent' = [parent EXCEPT ![e] = p]
      /\ pc' = [pc EXCEPT ![p] = "ready"]
      /\ UNCHANGED <<state, haspid, killed, kstack, free, embryo, on, loaded, ptlock, tlock, ticking, due>>
  BY <1>1 DEF Copied
<1>3. space[p] > 0
  BY <1>2 DEF PlacesAgree, Grown
<1>4. TypeOK' /\ OneCPU' /\ LockHandedOver'
  BY <1>1, <1>2 DEF States, OneCPU, LockHandedOver
<1>5. TicksHeld' /\ NoMissedTick'
  BY <1>2 DEF TicksHeld, NoMissedTick, Asleep
<1>6. PlacesAgree'
  BY <1>1, <1>2 DEF PlacesAgree, Alive, Grown
<1>7. EmbryosAgree'
  BY <1>1, <1>2, <1>3 DEF EmbryosAgree
<1>8. ParentsAgree'
  BY <1>1, <1>2 DEF ParentsAgree
<1>9. NoOrphan'
  BY <1>1, <1>2 DEF NoOrphan, Alive
<1>10. NoSleepOverZombie'
  <2>1. \A q \in Slots : Asleep(q, "scan")' => Asleep(q, "scan") /\ q # p
    BY <1>2 DEF Asleep
  <2>2. \A q \in Slots : q # p => Children(q)' = Children(q) \ {e}
    BY <1>1, <1>2 DEF Children
  <2>3. parent[e] = Nobody
    BY <1>1, <1>2 DEF EmbryosAgree
  <2>4. \A q \in Slots : q # p => Children(q)' = Children(q) /\ Zombies(q)' = Zombies(q)
    BY <1>2, <2>2, <2>3 DEF Children, Zombies
  <2>5. QED
    BY <1>2, <2>1, <2>4 DEF NoSleepOverZombie
<1>11. QED
  BY <1>4, <1>5, <1>6, <1>7, <1>8, <1>9, <1>10 DEF ProcInv

(* Only a child that is complete can be run.                               *)
LEMMA ReadyStep ==
    ASSUME ProcInv, NEW c \in CPUs, NEW p \in Slots, Ready(c, p), c = Clock => ~ticking
    PROVE  ProcInv'
<1> USE ProcAssumption, InitSlot DEF ProcInv, TypeOK, Runs, At, Goto, slot, pages, cpu, clock
<1>1. PICK e \in Slots : IsOwn(e, p)
  BY OwnEmbryo DEF Ready
<1> USE DEF IsOwn
<1>2. /\ Runs(c, p) /\ pc[p] = "ready"
      /\ state' = [state EXCEPT ![e] = "RUNNABLE"]
      /\ embryo' = [embryo EXCEPT ![p] = Nobody]
      /\ pc' = [pc EXCEPT ![p] = "user"]
      /\ UNCHANGED <<haspid, parent, killed, kstack, space, fresh, free,
                     on, loaded, ptlock, tlock, ticking, due>>
  BY <1>1 DEF Ready
<1>3. kstack[e] /\ space[e] > 0 /\ parent[e] = p
  BY <1>1, <1>2 DEF EmbryosAgree
<1>4. TypeOK' /\ OneCPU' /\ LockHandedOver'
  BY <1>1, <1>2 DEF States, OneCPU, LockHandedOver
<1>5. TicksHeld' /\ NoMissedTick'
  BY <1>1, <1>2 DEF TicksHeld, NoMissedTick, Asleep
<1>6. PlacesAgree'
  BY <1>1, <1>2, <1>3 DEF PlacesAgree, Alive, Grown
<1>7. EmbryosAgree' /\ ParentsAgree'
  BY <1>1, <1>2 DEF EmbryosAgree, ParentsAgree
<1>8. NoOrphan'
  BY <1>1, <1>2, <1>3 DEF NoOrphan, Alive
<1>9. NoSleepOverZombie'
  BY <1>1, <1>2 DEF NoSleepOverZombie, Asleep, Zombies, Children
<1>10. QED
  BY <1>4, <1>5, <1>6, <1>7, <1>8, <1>9 DEF ProcInv

(* exit() leaves its children to init, and wakes whom it leaves a zombie.  *)
LEMMA ExitStep ==
    ASSUME ProcInv, NEW c \in CPUs, NEW p \in Slots, Exit(c, p), c = Clock => ~ticking
    PROVE  ProcInv'
<1> USE ProcAssumption, InitSlot DEF ProcInv, TypeOK
<1>1. /\ on[c] = p /\ state[p] = "RUNNING" /\ pc[p] = "exit" /\ ptlock = Nobody
      /\ ptlock' = c
      /\ pc' = [pc EXCEPT ![p] = "start"]
      /\ UNCHANGED <<haspid, killed, kstack, space, fresh, free, embryo,
                     on, loaded, tlock, ticking, due>>
  BY DEF Exit, At, Runs, Goto, Keeps, pages, cpu, clock
<1>2. /\ state' \in [Slots -> States]
      /\ \A q \in Slots :
           state'[q] = IF q = p THEN "ZOMBIE"
                       ELSE IF q \in ToWake(p) /\ Asleep(q, "scan") THEN "RUNNABLE" ELSE state[q]
  BY DEF Exit, Wakeup1, States
<1>3. /\ parent' \in [Slots -> Slots \cup {Nobody}]
      /\ \A q \in Slots : parent'[q] = IF parent[q] = p THEN initproc ELSE parent[q]
  BY DEF Exit, Heir
<1>4. p # initproc /\ parent[p] # p
  BY <1>1 DEF PlacesAgree, ParentsAgree
<1>5. \A d \in CPUs : on[d] = p => d = c
  BY <1>1 DEF OneCPU
<1>6. \A q \in Slots : q # p =>
        /\ pc'[q] = pc[q]
        /\ Alive(q)' <=> Alive(q)
        /\ Grown(q)' <=> Grown(q)
        /\ state'[q] = "SLEEPING" => state[q] = "SLEEPING" /\ ~(q \in ToWake(p) /\ pc[q] = "scan")
        /\ \A st \in {"UNUSED", "EMBRYO", "RUNNING", "ZOMBIE"} : state'[q] = st <=> state[q] = st
  BY <1>1, <1>2 DEF Alive, Grown, Asleep
<1>7. Grown(p) /\ Grown(p)' /\ ~Alive(p)' /\ pc'[p] = "start"
  BY <1>1, <1>2 DEF Alive, Grown
<1> HIDE DEF TypeOK
<1>8. TypeOK'
  BY <1>1, <1>2, <1>3 DEF TypeOK
<1>9. OneCPU' /\ LockHandedOver'
  BY <1>1, <1>2, <1>5, <1>6, TypeOK DEF OneCPU, LockHandedOver, TypeOK
<1>10. TicksHeld' /\ NoMissedTick'
  BY <1>1, <1>2, <1>6, TypeOK DEF TicksHeld, NoMissedTick, Asleep, TypeOK
<1>11. PlacesAgree'
  <2>1. ASSUME NEW d \in CPUs, loaded[d] # Nobody
        PROVE  \E s \in Slots : s = loaded[d] /\ Grown(s)'
    <3>1. PICK s \in Slots : s = loaded[d] /\ Grown(s)
      BY <2>1, TypeOK DEF PlacesAgree, Grown, TypeOK
    <3>2. QED
      BY <1>6, <1>7, <3>1
  <2>2. \A q \in Slots : /\ ~Alive(q)' => pc'[q] = "start"
                         /\ state'[q] = "SLEEPING" => pc'[q] \in {"scan", "doze"}
                         /\ Grown(q)' => kstack'[q] /\ space'[q] > 0
    BY <1>1, <1>2, <1>6, <1>7 DEF PlacesAgree
  <2>3. Alive(initproc)' /\ pc'[initproc] # "exit"
    BY <1>4, <1>6 DEF PlacesAgree
  <2>4. loaded' = loaded
    BY <1>1
  <2>5. QED
    BY <2>1, <2>2, <2>3, <2>4 DEF PlacesAgree, Grown, Alive
<1>12. EmbryosAgree'
  <2>1. \A q \in Slots : embryo[q] # Nobody => embryo[q] # p /\ q # p /\ pc[q] \in {"stack", "copy", "ready"}
    BY <1>1 DEF EmbryosAgree
  <2>2. embryo' = embryo /\ kstack' = kstack /\ space' = space /\ embryo[p] = Nobody /\ pc'[p] = "start"
    BY <1>1, <2>1, TypeOK DEF TypeOK
  <2>3. ASSUME NEW q \in Slots, embryo[q] # Nobody
        PROVE  state'[embryo[q]] = "EMBRYO" /\ parent'[embryo[q]] = parent[embryo[q]]
    <3>1. embryo[q] \in Slots /\ embryo[q] # p /\ state[embryo[q]] = "EMBRYO"
      BY <2>1, <2>3, TypeOK DEF EmbryosAgree, TypeOK
    <3>2. parent[embryo[q]] # p
      BY <2>1, <2>3 DEF EmbryosAgree
    <3>3. QED
      BY <1>3, <1>6, <3>1, <3>2
  <2>4. QED
    BY <1>6, <2>1, <2>2, <2>3, TypeOK DEF EmbryosAgree, TypeOK
<1>13. ParentsAgree'
  BY <1>2, <1>3, <1>4, <1>6 DEF ParentsAgree
<1>14. NoOrphan'
  <2>1. Alive(initproc)' /\ \A q \in Slots : Alive(q) /\ q # p => Alive(q)'
    BY <1>4, <1>6 DEF PlacesAgree
  <2>2. \A q \in Slots \ {initproc} : Grown(q) => parent[q] \in Slots /\ Alive(parent[q])
    BY TypeOK DEF NoOrphan, Grown, TypeOK
  <2>3. ASSUME NEW q \in Slots \ {initproc}, Grown(q)'
        PROVE  \E r \in Slots : r = parent'[q] /\ Alive(r)'
    <3>1. PICK r \in Slots : r = parent[q] /\ Alive(r)
      BY <1>6, <1>7, <2>2, <2>3
    <3>2. QED
      BY <1>3, <2>1, <3>1
  <2>4. QED
    BY <2>3 DEF NoOrphan, Grown, Alive
<1>15. NoSleepOverZombie'
  <2> SUFFICES ASSUME NEW q \in Slots, Asleep(q, "scan")'
               PROVE  Zombies(q)' = {} /\ Children(q)' # {} /\ ~killed'[q]
    BY DEF NoSleepOverZombie
  <2>1. q # p /\ Asleep(q, "scan") /\ q \notin ToWake(p)
    BY <1>1, <1>2, <1>6 DEF Asleep
  <2>2. Zombies(q) = {} /\ Children(q) # {} /\ ~killed[q]
    BY <2>1 DEF NoSleepOverZombie
  <2>3. Children(q)' # {} /\ ~killed'[q]
    BY <1>1, <1>3, <2>1, <2>2 DEF Children
  <2>4. ASSUME NEW z \in Slots, parent'[z] = q, state'[z] = "ZOMBIE" PROVE FALSE
    <3>1. CASE z = p
      BY <1>3, <1>4, <2>1, <2>4, <3>1 DEF ToWake
    <3>2. CASE z # p /\ parent[z] = p
      BY <1>3, <1>6, <2>1, <2>4, <3>2 DEF ToWake, Children
    <3>3. CASE z # p /\ parent[z] # p
      BY <1>3, <1>6, <2>2, <2>4, <3>3 DEF Zombies, Children
    <3>4. QED
      BY <3>1, <3>2, <3>3
  <2>5. QED
    BY <2>3, <2>4 DEF Zombies, Children
<1>16. QED
  BY <1>8, <1>9, <1>10, <1>11, <1>12, <1>13, <1>14, <1>15 DEF ProcInv

(* wait() takes a zombie apart that no CPU is on any more.                 *)
LEMMA ReapStep ==
    ASSUME ProcInv, NEW c \in CPUs, NEW p \in Slots, Reap(c, p), c = Clock => ~ticking
    PROVE  ProcInv'
<1> USE ProcAssumption, InitSlot DEF ProcInv, TypeOK
<1>1. PICK s \in Zombies(p) : s = Lowest(Zombies(p))
  BY LowestIn DEF Reap, Zombies, Children
<1>2. s \in Slots /\ parent[s] = p /\ state[s] = "ZOMBIE"
  BY <1>1 DEF Zombies, Children
<1>3. /\ on[c] = p /\ state[p] = "RUNNING" /\ pc[p] = "scan" /\ ptlock = c
      /\ ptlock' = Nobody
      /\ free' = free + space[s] + 1
      /\ kstack' = [kstack EXCEPT ![s] = FALSE]
      /\ space' = [space EXCEPT ![s] = 0]
      /\ haspid' = [haspid EXCEPT ![s] = FALSE]
      /\ parent' = [parent EXCEPT ![s] = Nobody]
      /\ killed' = [killed EXCEPT ![s] = FALSE]
      /\ state' = [state EXCEPT ![s] = "UNUSED"]
      /\ pc' = [pc EXCEPT ![p] = "user"]
      /\ UNCHANGED <<fresh, embryo, on, loaded, tlock, ticking, due>>
  BY <1>1 DEF Reap, Scans, At, Runs, Goto, WaitReturns, cpu, clock
<1>4. s # p /\ s # initproc /\ pc[s] = "start" /\ ~Alive(s)
  BY <1>2, <1>3 DEF ParentsAgree, PlacesAgree, Alive
<1>5. \A d \in CPUs : on[d] # s /\ loaded[d] # s
  <2>1. \A d \in CPUs : on[d] # s
    BY <1>2, <1>3, <1>4 DEF LockHandedOver
  <2>2. ASSUME NEW d \in CPUs, loaded[d] = s PROVE FALSE
    BY <1>2, <1>3, <2>1, <2>2 DEF LockHandedOver, OneCPU
  <2>3. QED
    BY <2>1, <2>2
<1>6. TypeOK'
  BY <1>2, <1>3 DEF States
<1>7. OneCPU'
  BY <1>2, <1>3, <1>4, <1>5 DEF OneCPU
<1>8. LockHandedOver'
  <2>1. \A d \in CPUs : on[d] = p => d = c
    BY <1>3 DEF OneCPU
  <2>2. QED
    BY <1>2, <1>3, <1>4, <1>5, <2>1 DEF LockHandedOver
<1>9. TicksHeld' /\ NoMissedTick'
  BY <1>2, <1>3, <1>4 DEF TicksHeld, NoMissedTick, Asleep
<1>10. PlacesAgree'
  BY <1>2, <1>3, <1>4, <1>5 DEF PlacesAgree, Alive, Grown
<1>11. EmbryosAgree'
  <2>1. \A q \in Slots : embryo[q] # Nobody => embryo[q] \in Slots /\ embryo[q] # s /\ q # p /\ q # s
    BY <1>2, <1>3, <1>4 DEF EmbryosAgree
  <2>2. \A q \in Slots : embryo[q] # Nobody =>
          /\ state'[embryo[q]] = state[embryo[q]] /\ kstack'[embryo[q]] = kstack[embryo[q]]
          /\ parent'[embryo[q]] = parent[embryo[q]] /\ space'[embryo[q]] = space[embryo[q]]
    BY <1>2, <1>3, <2>1
  <2>3. \A q \in Slots : embryo'[q] = embryo[q] /\ (q # p => pc'[q] = pc[q])
    BY <1>3
  <2>4. embryo[p] = Nobody /\ pc'[p] = "user"
    BY <1>3, <2>1
  <2>5. QED
    BY <2>1, <2>2, <2>3, <2>4 DEF EmbryosAgree
<1>12. ParentsAgree'
  BY <1>2, <1>3, <1>4 DEF ParentsAgree
<1>13. NoOrphan'
  BY <1>2, <1>3, <1>4 DEF NoOrphan, Alive
<1>14. NoSleepOverZombie'
  <2>1. \A q \in Slots : Asleep(q, "scan")' => q # p /\ q # s /\ Asleep(q, "scan") /\ killed'[q] = killed[q]
    BY <1>2, <1>3, <1>4 DEF Asleep
  <2>2. \A q \in Slots : q # p => Children(q)' = Children(q)
    BY <1>2, <1>3 DEF Children
  <2>3. \A q \in Slots : q # p => Zombies(q)' = Zombies(q)
    <3> SUFFICES ASSUME NEW q \in Slots, q # p PROVE Zombies(q)' = Zombies(q)
      OBVIOUS
    <3>1. \A z \in Children(q) : z # s /\ state'[z] = state[z]
      BY <1>2, <1>3 DEF Children
    <3>2. QED
      BY <2>2, <3>1 DEF Zombies
  <2>4. QED
    BY <2>1, <2>2, <2>3 DEF NoSleepOverZombie
<1>15. QED
  BY <1>6, <1>7, <1>8, <1>9, <1>10, <1>11, <1>12, <1>13, <1>14 DEF ProcInv

(* The scheduler's steps, and those into and out of it.                    *)
LEMMA ScanStartStep ==
    ASSUME ProcInv, NEW c \in CPUs, ScanStart(c), c = Clock => ~ticking
    PROVE  ProcInv'
<1> USE ProcAssumption, InitSlot DEF ProcInv, TypeOK, ScanStart, Runs, At, Goto, slot, pages, cpu, clock
<1>1. TypeOK' /\ OneCPU' /\ LockHandedOver' /\ TicksHeld' /\ NoMissedTick'
  BY DEF States, Calls, OneCPU, LockHandedOver, TicksHeld, NoMissedTick, Asleep
<1>2. PlacesAgree' /\ EmbryosAgree' /\ ParentsAgree' /\ NoOrphan' /\ NoSleepOverZombie'
  BY DEF PlacesAgree, Alive, Grown, EmbryosAgree, ParentsAgree, NoOrphan, NoSleepOverZombie, Asleep, Zombies, Children
<1>3. QED
  BY <1>1, <1>2 DEF ProcInv

(* The scheduler ends its scan with nobody loaded.                         *)
LEMMA ScanEndStep ==
    ASSUME ProcInv, NEW c \in CPUs, ScanEnd(c), c = Clock => ~ticking
    PROVE  ProcInv'
<1> USE ProcAssumption, InitSlot DEF ProcInv, TypeOK, ScanEnd, Runs, At, Goto, slot, pages, cpu, clock
<1>1. TypeOK' /\ OneCPU' /\ LockHandedOver' /\ TicksHeld' /\ NoMissedTick'
  BY DEF States, Calls, OneCPU, LockHandedOver, TicksHeld, NoMissedTick, Asleep
<1>2. PlacesAgree' /\ EmbryosAgree' /\ ParentsAgree' /\ NoOrphan' /\ NoSleepOverZombie'
  BY DEF PlacesAgree, Alive, Grown, EmbryosAgree, ParentsAgree, NoOrphan, NoSleepOverZombie, Asleep, Zombies, Children
<1>3. QED
  BY <1>1, <1>2 DEF ProcInv

(* The scheduler leaves the page table of the process it ran.              *)
LEMMA SwitchKvmStep ==
    ASSUME ProcInv, NEW c \in CPUs, SwitchKvm(c), c = Clock => ~ticking
    PROVE  ProcInv'
<1> USE ProcAssumption, InitSlot DEF ProcInv, TypeOK, SwitchKvm, Runs, At, Goto, slot, pages, cpu, clock
<1>1. TypeOK' /\ OneCPU' /\ LockHandedOver' /\ TicksHeld' /\ NoMissedTick'
  BY DEF States, Calls, OneCPU, LockHandedOver, TicksHeld, NoMissedTick, Asleep
<1>2. PlacesAgree' /\ EmbryosAgree' /\ ParentsAgree' /\ NoOrphan' /\ NoSleepOverZombie'
  BY DEF PlacesAgree, Alive, Grown, EmbryosAgree, ParentsAgree, NoOrphan, NoSleepOverZombie, Asleep, Zombies, Children
<1>3. QED
  BY <1>1, <1>2 DEF ProcInv

(* A process leaves its stack with ptable.lock held.                       *)
LEMMA SchedStep ==
    ASSUME ProcInv, NEW c \in CPUs, NEW p \in Slots, Sched(c, p), c = Clock => ~ticking
    PROVE  ProcInv'
<1> USE ProcAssumption, InitSlot DEF ProcInv, TypeOK, Sched, Runs, At, Goto, slot, pages, cpu, clock
<1>1. TypeOK' /\ OneCPU' /\ LockHandedOver' /\ TicksHeld' /\ NoMissedTick'
  BY DEF States, Calls, OneCPU, LockHandedOver, TicksHeld, NoMissedTick, Asleep
<1>2. PlacesAgree' /\ EmbryosAgree' /\ ParentsAgree' /\ NoOrphan' /\ NoSleepOverZombie'
  BY DEF PlacesAgree, Alive, Grown, EmbryosAgree, ParentsAgree, NoOrphan, NoSleepOverZombie, Asleep, Zombies, Children
<1>3. QED
  BY <1>1, <1>2 DEF ProcInv

(* Who is resumed gives ptable.lock back.                                  *)
LEMMA ResumeStep ==
    ASSUME ProcInv, NEW c \in CPUs, NEW p \in Slots, Resume(c, p), c = Clock => ~ticking
    PROVE  ProcInv'
<1> USE ProcAssumption, InitSlot DEF ProcInv, TypeOK, Resume, Runs, At, Goto, slot, pages, cpu, clock
<1>1. TypeOK' /\ OneCPU' /\ LockHandedOver' /\ TicksHeld' /\ NoMissedTick'
  BY DEF States, Calls, OneCPU, LockHandedOver, TicksHeld, NoMissedTick, Asleep
<1>2. PlacesAgree' /\ EmbryosAgree' /\ ParentsAgree' /\ NoOrphan' /\ NoSleepOverZombie'
  BY DEF PlacesAgree, Alive, Grown, EmbryosAgree, ParentsAgree, NoOrphan, NoSleepOverZombie, Asleep, Zombies, Children
<1>3. QED
  BY <1>1, <1>2 DEF ProcInv

(* Pages that only their process knows.                                    *)
LEMMA CopyPageStep ==
    ASSUME ProcInv, NEW c \in CPUs, NEW p \in Slots, CopyPage(c, p), c = Clock => ~ticking
    PROVE  ProcInv'
<1> USE ProcAssumption, InitSlot DEF ProcInv, TypeOK, CopyPage, TakePage, Runs, At, Goto, slot, pages, cpu, clock
<1>1. TypeOK' /\ OneCPU' /\ LockHandedOver' /\ TicksHeld' /\ NoMissedTick'
  BY DEF States, Calls, OneCPU, LockHandedOver, TicksHeld, NoMissedTick, Asleep
<1>2. PlacesAgree' /\ EmbryosAgree' /\ ParentsAgree' /\ NoOrphan' /\ NoSleepOverZombie'
  BY DEF PlacesAgree, Alive, Grown, EmbryosAgree, ParentsAgree, NoOrphan, NoSleepOverZombie, Asleep, Zombies, Children
<1>3. QED
  BY <1>1, <1>2 DEF ProcInv

(* exec() builds its new space beside the old one.                         *)
LEMMA ExecPageStep ==
    ASSUME ProcInv, NEW c \in CPUs, NEW p \in Slots, ExecPage(c, p), c = Clock => ~ticking
    PROVE  ProcInv'
<1> USE ProcAssumption, InitSlot DEF ProcInv, TypeOK, ExecPage, TakePage, Runs, At, Goto, slot, pages, cpu, clock
<1>1. TypeOK' /\ OneCPU' /\ LockHandedOver' /\ TicksHeld' /\ NoMissedTick'
  BY DEF States, Calls, OneCPU, LockHandedOver, TicksHeld, NoMissedTick, Asleep
<1>2. PlacesAgree' /\ EmbryosAgree' /\ ParentsAgree' /\ NoOrphan' /\ NoSleepOverZombie'
  BY DEF PlacesAgree, Alive, Grown, EmbryosAgree, ParentsAgree, NoOrphan, NoSleepOverZombie, Asleep, Zombies, Children
<1>3. QED
  BY <1>1, <1>2 DEF ProcInv

(* exec() gives back what it had built.                                    *)
LEMMA ExecFailsStep ==
    ASSUME ProcInv, NEW c \in CPUs, NEW p \in Slots, ExecFails(c, p), c = Clock => ~ticking
    PROVE  ProcInv'
<1> USE ProcAssumption, InitSlot DEF ProcInv, TypeOK, ExecFails, Runs, At, Goto, slot, pages, cpu, clock
<1>1. TypeOK' /\ OneCPU' /\ LockHandedOver' /\ TicksHeld' /\ NoMissedTick'
  BY DEF States, Calls, OneCPU, LockHandedOver, TicksHeld, NoMissedTick, Asleep
<1>2. PlacesAgree' /\ EmbryosAgree' /\ ParentsAgree' /\ NoOrphan' /\ NoSleepOverZombie'
  BY DEF PlacesAgree, Alive, Grown, EmbryosAgree, ParentsAgree, NoOrphan, NoSleepOverZombie, Asleep, Zombies, Children
<1>3. QED
  BY <1>1, <1>2 DEF ProcInv

(* exec() puts the new space in place of the old.                          *)
LEMMA ExecCommitStep ==
    ASSUME ProcInv, NEW c \in CPUs, NEW p \in Slots, ExecCommit(c, p), c = Clock => ~ticking
    PROVE  ProcInv'
<1> USE ProcAssumption, InitSlot DEF ProcInv, TypeOK, ExecCommit, Runs, At, Goto, slot, pages, cpu, clock
<1>1. TypeOK' /\ OneCPU' /\ LockHandedOver' /\ TicksHeld' /\ NoMissedTick'
  BY DEF States, Calls, OneCPU, LockHandedOver, TicksHeld, NoMissedTick, Asleep
<1>2. PlacesAgree' /\ EmbryosAgree' /\ ParentsAgree' /\ NoOrphan' /\ NoSleepOverZombie'
  BY DEF PlacesAgree, Alive, Grown, EmbryosAgree, ParentsAgree, NoOrphan, NoSleepOverZombie, Asleep, Zombies, Children
<1>3. QED
  BY <1>1, <1>2 DEF ProcInv

(* wait() without a zombie.                                                *)
LEMMA NoPointStep ==
    ASSUME ProcInv, NEW c \in CPUs, NEW p \in Slots, NoPoint(c, p), c = Clock => ~ticking
    PROVE  ProcInv'
<1> USE ProcAssumption, InitSlot DEF ProcInv, TypeOK, NoPoint, Scans, Zombies, Children, WaitReturns, Runs, At, Goto, slot, pages, cpu, clock
<1>1. TypeOK' /\ OneCPU' /\ LockHandedOver' /\ TicksHeld' /\ NoMissedTick'
  BY DEF States, Calls, OneCPU, LockHandedOver, TicksHeld, NoMissedTick, Asleep
<1>2. PlacesAgree' /\ EmbryosAgree' /\ ParentsAgree' /\ NoOrphan' /\ NoSleepOverZombie'
  BY DEF PlacesAgree, Alive, Grown, EmbryosAgree, ParentsAgree, NoOrphan, NoSleepOverZombie, Asleep, Zombies, Children
<1>3. QED
  BY <1>1, <1>2 DEF ProcInv

(* wait() sleeps only after a scan that found children and no zombie.      *)
LEMMA WaitSleepStep ==
    ASSUME ProcInv, NEW c \in CPUs, NEW p \in Slots, WaitSleep(c, p), c = Clock => ~ticking
    PROVE  ProcInv'
<1> USE ProcAssumption, InitSlot DEF ProcInv, TypeOK, WaitSleep, Scans, Zombies, Children, Runs, At, Goto, slot, pages, cpu, clock
<1>1. TypeOK' /\ OneCPU' /\ LockHandedOver' /\ TicksHeld' /\ NoMissedTick'
  BY DEF States, Calls, OneCPU, LockHandedOver, TicksHeld, NoMissedTick, Asleep
<1>2. PlacesAgree' /\ EmbryosAgree' /\ ParentsAgree' /\ NoOrphan' /\ NoSleepOverZombie'
  BY DEF PlacesAgree, Alive, Grown, EmbryosAgree, ParentsAgree, NoOrphan, NoSleepOverZombie, Asleep, Zombies, Children
<1>3. QED
  BY <1>1, <1>2 DEF ProcInv

(* A kill makes a sleeper runnable, in whatever sleep.                     *)
LEMMA KillStep ==
    ASSUME ProcInv, NEW c \in CPUs, NEW p \in Slots, NEW s \in Slots, Kill(c, p, s), c = Clock => ~ticking
    PROVE  ProcInv'
<1> USE ProcAssumption, InitSlot DEF ProcInv, TypeOK, Kill, Runs, At, Goto, slot, pages, cpu, clock
<1>1. TypeOK' /\ OneCPU' /\ LockHandedOver' /\ TicksHeld' /\ NoMissedTick'
  BY DEF States, Calls, OneCPU, LockHandedOver, TicksHeld, NoMissedTick, Asleep
<1>2. PlacesAgree' /\ EmbryosAgree' /\ ParentsAgree' /\ NoOrphan' /\ NoSleepOverZombie'
  BY DEF PlacesAgree, Alive, Grown, EmbryosAgree, ParentsAgree, NoOrphan, NoSleepOverZombie, Asleep, Zombies, Children
<1>3. QED
  BY <1>1, <1>2 DEF ProcInv

(* sys_sleep up to sleep(), and the timer.                                 *)
LEMMA TicksLockStep ==
    ASSUME ProcInv, NEW c \in CPUs, NEW p \in Slots, TicksLock(c, p), c = Clock => ~ticking
    PROVE  ProcInv'
<1> USE ProcAssumption, InitSlot DEF ProcInv, TypeOK, TicksLock, Runs, At, Goto, slot, pages, cpu, clock
<1>1. TypeOK' /\ OneCPU' /\ LockHandedOver' /\ TicksHeld' /\ NoMissedTick'
  BY DEF States, Calls, OneCPU, LockHandedOver, TicksHeld, NoMissedTick, Asleep
<1>2. PlacesAgree' /\ EmbryosAgree' /\ ParentsAgree' /\ NoOrphan' /\ NoSleepOverZombie'
  BY DEF PlacesAgree, Alive, Grown, EmbryosAgree, ParentsAgree, NoOrphan, NoSleepOverZombie, Asleep, Zombies, Children
<1>3. QED
  BY <1>1, <1>2 DEF ProcInv

(* The tick has come, or the process was killed.                           *)
LEMMA SleepReturnsStep ==
    ASSUME ProcInv, NEW c \in CPUs, NEW p \in Slots, SleepReturns(c, p), c = Clock => ~ticking
    PROVE  ProcInv'
<1> USE ProcAssumption, InitSlot DEF ProcInv, TypeOK, SleepReturns, Runs, At, Goto, slot, pages, cpu, clock
<1>1. TypeOK' /\ OneCPU' /\ LockHandedOver' /\ TicksHeld' /\ NoMissedTick'
  BY DEF States, Calls, OneCPU, LockHandedOver, TicksHeld, NoMissedTick, Asleep
<1>2. PlacesAgree' /\ EmbryosAgree' /\ ParentsAgree' /\ NoOrphan' /\ NoSleepOverZombie'
  BY DEF PlacesAgree, Alive, Grown, EmbryosAgree, ParentsAgree, NoOrphan, NoSleepOverZombie, Asleep, Zombies, Children
<1>3. QED
  BY <1>1, <1>2 DEF ProcInv

(* The test fails and tickslock stays held.                                *)
LEMMA SleepAgainStep ==
    ASSUME ProcInv, NEW c \in CPUs, NEW p \in Slots, SleepAgain(c, p), c = Clock => ~ticking
    PROVE  ProcInv'
<1> USE ProcAssumption, InitSlot DEF ProcInv, TypeOK, SleepAgain, Runs, At, Goto, slot, pages, cpu, clock
<1>1. TypeOK' /\ OneCPU' /\ LockHandedOver' /\ TicksHeld' /\ NoMissedTick'
  BY DEF States, Calls, OneCPU, LockHandedOver, TicksHeld, NoMissedTick, Asleep
<1>2. PlacesAgree' /\ EmbryosAgree' /\ ParentsAgree' /\ NoOrphan' /\ NoSleepOverZombie'
  BY DEF PlacesAgree, Alive, Grown, EmbryosAgree, ParentsAgree, NoOrphan, NoSleepOverZombie, Asleep, Zombies, Children
<1>3. QED
  BY <1>1, <1>2 DEF ProcInv

(* The timer's handler takes tickslock.                                    *)
LEMMA TickStep ==
    ASSUME ProcInv, Tick
    PROVE  ProcInv'
<1> USE ProcAssumption, InitSlot DEF ProcInv, TypeOK, Tick, TicksFree, Runs, At, Goto, slot, pages, cpu, clock
<1>1. TypeOK' /\ OneCPU' /\ LockHandedOver' /\ TicksHeld' /\ NoMissedTick'
  BY DEF States, Calls, OneCPU, LockHandedOver, TicksHeld, NoMissedTick, Asleep
<1>2. PlacesAgree' /\ EmbryosAgree' /\ ParentsAgree' /\ NoOrphan' /\ NoSleepOverZombie'
  BY DEF PlacesAgree, Alive, Grown, EmbryosAgree, ParentsAgree, NoOrphan, NoSleepOverZombie, Asleep, Zombies, Children
<1>3. QED
  BY <1>1, <1>2 DEF ProcInv

(* wakeup(&ticks) reaches everybody whose tick has come.                   *)
LEMMA TickWakesStep ==
    ASSUME ProcInv, TickWakes
    PROVE  ProcInv'
<1> USE ProcAssumption, InitSlot DEF ProcInv, TypeOK, TickWakes, Wakeup1, Asleep, Runs, At, Goto, slot, pages, cpu, clock
<1>1. TypeOK' /\ OneCPU' /\ LockHandedOver' /\ TicksHeld' /\ NoMissedTick'
  BY DEF States, Calls, OneCPU, LockHandedOver, TicksHeld, NoMissedTick, Asleep
<1>2. PlacesAgree' /\ EmbryosAgree' /\ ParentsAgree' /\ NoOrphan' /\ NoSleepOverZombie'
  BY DEF PlacesAgree, Alive, Grown, EmbryosAgree, ParentsAgree, NoOrphan, NoSleepOverZombie, Asleep, Zombies, Children
<1>3. QED
  BY <1>1, <1>2 DEF ProcInv

-----------------------------------------------------------------------------
(* Every step keeps the invariant.                                         *)
LEMMA StepProc == ProcInv /\ [Next]_vars => ProcInv'
<1> SUFFICES ASSUME ProcInv, [Next]_vars PROVE ProcInv'
  OBVIOUS
<1>1. CASE Tick
  BY <1>1, TickStep
<1>2. CASE TickWakes
  BY <1>2, TickWakesStep
<1>3. ASSUME NEW c \in CPUs, c = Clock => ~ticking,
             Switch(c) \/ \E p \in Slots :
                            \/ Dispatch(c, p) \/ Step(c, p) \/ Yield(c, p)
                            \/ \E call \in Calls : Enter(c, p, call)
      PROVE  ProcInv'
  <2>1. CASE Switch(c)
    BY <1>3, <2>1, ScanStartStep, SwitchKvmStep, ScanEndStep, SchedStep, ResumeStep DEF Switch, Scheduler
  <2>2. ASSUME NEW p \in Slots, Dispatch(c, p) \/ Yield(c, p) \/ \E call \in Calls : Enter(c, p, call)
        PROVE  ProcInv'
    BY <1>3, <2>2, DispatchStep, YieldStep, EnterStep
  <2>3. ASSUME NEW p \in Slots, Step(c, p)
        PROVE  ProcInv'
    <3>1. CASE ForkStep(c, p)
      BY <1>3, <3>1, AllocStep, StackStep, CopyPageStep, CopyFailsStep, CopiedStep, ReadyStep DEF ForkStep
    <3>2. CASE ExecStep(c, p)
      BY <1>3, <3>2, ExecPageStep, ExecFailsStep, ExecCommitStep DEF ExecStep
    <3>3. CASE Exit(c, p)
      BY <1>3, <3>3, ExitStep
    <3>4. CASE WaitStep(c, p)
      BY <1>3, <3>4, WaitLockStep, ReapStep, NoPointStep, WaitSleepStep DEF WaitStep
    <3>5. CASE SleepStep(c, p)
      BY <1>3, <3>5, TicksLockStep, SleepReturnsStep, SleepAgainStep, SleepsStep DEF SleepStep
    <3>6. CASE \E s \in Slots : Kill(c, p, s)
      BY <1>3, <3>6, KillStep
    <3>7. QED
      BY <2>3, <3>1, <3>2, <3>3, <3>4, <3>5, <3>6 DEF Step
  <2>4. QED
    BY <1>3, <2>1, <2>2, <2>3
<1>4. CASE UNCHANGED vars
  <2>1. TypeOK' /\ OneCPU' /\ LockHandedOver' /\ TicksHeld' /\ NoMissedTick'
    BY <1>4 DEF ProcInv, TypeOK, OneCPU, LockHandedOver, TicksHeld, NoMissedTick, Asleep,
                vars, slot, pages, cpu, clock
  <2>2. PlacesAgree' /\ EmbryosAgree' /\ ParentsAgree' /\ NoOrphan' /\ NoSleepOverZombie'
    BY <1>4 DEF ProcInv, PlacesAgree, Alive, Grown, EmbryosAgree, ParentsAgree, NoOrphan,
                NoSleepOverZombie, Asleep, Zombies, Children, vars, slot, pages, cpu, clock
  <2>3. QED
    BY <2>1, <2>2 DEF ProcInv
<1>5. QED
  BY <1>1, <1>2, <1>3, <1>4 DEF Next

(* The inductive invariant holds always: states, places, the hand-over of  *)
(* ptable.lock and tickslock, forks under way and parents agree with the   *)
(* places the processes are at.                                            *)
THEOREM ProcInvariant == Spec => []ProcInv
<1>1. ProcInv /\ [Next]_vars => ProcInv'
  BY StepProc
<1>2. QED
  BY <1>1, InitProc, PTL DEF Spec

(* A process is on one CPU's stack at a time (scheduler, sched).           *)
THEOREM ProcessOnOneCPU == Spec => []OneCPU
<1>1. ProcInv => OneCPU
  BY DEF ProcInv
<1>2. QED
  BY <1>1, ProcInvariant, PTL

(* wait() never frees a stack or a page table that a CPU still uses.       *)
THEOREM NoUseAfterReap == Spec => []NothingFreedInUse
<1>1. ProcInv => NothingFreedInUse
  <2> SUFFICES ASSUME ProcInv, NEW c \in CPUs
               PROVE  /\ on[c] # Nobody => kstack[on[c]] /\ space[on[c]] > 0
                      /\ loaded[c] # Nobody => kstack[loaded[c]] /\ space[loaded[c]] > 0
    BY DEF NothingFreedInUse
  <2>1. loaded[c] # Nobody => Grown(loaded[c]) /\ loaded[c] \in Slots
    BY DEF ProcInv, TypeOK, PlacesAgree
  <2>2. on[c] # Nobody => loaded[c] = on[c]
    BY DEF ProcInv, OneCPU
  <2>3. QED
    BY <2>1, <2>2 DEF ProcInv, PlacesAgree
<1>2. QED
  BY <1>1, ProcInvariant, PTL

(* exit() leaves no child without a parent that can wait for it.           *)
THEOREM EveryChildHasParent == Spec => []NoOrphan
<1>1. ProcInv => NoOrphan
  BY DEF ProcInv
<1>2. QED
  BY <1>1, ProcInvariant, PTL

(* No exit(), adopted child's included, and no kill() is missed by a       *)
(* parent in wait().                                                       *)
THEOREM NoExitMissed == Spec => []NoSleepOverZombie
<1>1. ProcInv => NoSleepOverZombie
  BY DEF ProcInv
<1>2. QED
  BY <1>1, ProcInvariant, PTL

(* sleep() gives tickslock up without missing the tick.                    *)
THEOREM NoTickMissed == Spec => []NoMissedTick
<1>1. ProcInv => NoMissedTick
  BY DEF ProcInv
<1>2. QED
  BY <1>1, ProcInvariant, PTL

-----------------------------------------------------------------------------
(* The pages of one slot are as many as its count says.                    *)
LEMMA ColumnSize ==
    ASSUME NEW s, NEW n \in Nat
    PROVE  /\ IsFiniteSet({<<s, i>> : i \in 1 .. n})
           /\ Cardinality({<<s, i>> : i \in 1 .. n}) = n
<1> DEFINE C == {<<s, i>> : i \in 1 .. n}
           f == [i \in 1 .. n |-> <<s, i>>]
<1>1. IsFiniteSet(1 .. n) /\ Cardinality(1 .. n) = n
  BY FS_Interval
<1>2. f \in Bijection(1 .. n, C)
  BY DEF Bijection, Injection, Surjection, IsInjective
<1>3. ExistsBijection(1 .. n, C)
  BY <1>2 DEF ExistsBijection
<1>4. QED
  BY <1>1, <1>3, FS_Bijection

(* The table is finite.                                                    *)
LEMMA SlotsFinite == IsFiniteSet(Slots)
<1>1. 1 \in Int /\ NPROC \in Int
  BY ProcAssumption
<1>2. QED
  BY <1>1, FS_Interval DEF Slots

(* Only as many pages as are counted, and a new count for one slot changes *)
(* their number by the difference.                                         *)
LEMMA PagesChange ==
    ASSUME NEW count \in [Slots -> 0 .. MaxSpace], NEW s \in Slots, NEW n \in 0 .. MaxSpace
    PROVE  /\ Cardinality(PagesOf(count)) \in Nat
           /\ Cardinality(PagesOf([count EXCEPT ![s] = n])) = Cardinality(PagesOf(count)) - count[s] + n
<1> DEFINE Column(k) == {<<s, i>> : i \in 1 .. k}
           Rest == {u \in PagesOf(count) : u[1] # s}
           after == [count EXCEPT ![s] = n]
<1>1. count[s] \in Nat /\ n \in Nat /\ MaxSpace \in Nat
  BY ProcAssumption
<1>2. IsFiniteSet(PagesOf(count))
  <2>1. IsFiniteSet(Slots \X (1 .. MaxSpace))
    <3>1. IsFiniteSet(1 .. MaxSpace)
      BY <1>1, FS_Interval
    <3>2. QED
      BY <3>1, SlotsFinite, FS_Product
  <2>2. PagesOf(count) \subseteq Slots \X (1 .. MaxSpace)
    BY DEF PagesOf
  <2>3. QED
    BY <2>1, <2>2, FS_Subset
<1>3. IsFiniteSet(Rest) /\ Cardinality(Rest) \in Nat
  BY <1>2, FS_Subset, FS_CardinalityType
<1>4. PagesOf(count) = Rest \cup Column(count[s])
  BY <1>1 DEF PagesOf
<1>5. PagesOf(after) = Rest \cup Column(n)
  BY <1>1 DEF PagesOf
<1>6. \A k \in Nat : IsFiniteSet(Column(k)) /\ Cardinality(Column(k)) = k
  BY ColumnSize
<1>7. ASSUME NEW k \in Nat
      PROVE  Cardinality(Rest \cup Column(k)) = Cardinality(Rest) + k
  <2>1. Rest \cap Column(k) = {}
    OBVIOUS
  <2> HIDE DEF Rest, Column
  <2>2. Cardinality(Rest \cap Column(k)) = 0
    BY <2>1, FS_EmptySet
  <2>3. IsFiniteSet(Column(k)) /\ Cardinality(Column(k)) = k
    BY <1>6
  <2>4. Cardinality(Rest \cup Column(k)) =
          Cardinality(Rest) + Cardinality(Column(k)) - Cardinality(Rest \cap Column(k))
    BY <1>3, <2>3, FS_Union
  <2>5. QED
    BY <1>3, <2>2, <2>3, <2>4
<1> HIDE DEF Rest, Column
<1>8. /\ Cardinality(PagesOf(count)) = Cardinality(Rest) + count[s]
      /\ Cardinality(PagesOf(after)) = Cardinality(Rest) + n
  BY <1>1, <1>4, <1>5, <1>7
<1> HIDE DEF after
<1>9. /\ Cardinality(PagesOf(count)) \in Nat
      /\ Cardinality(PagesOf(after)) = Cardinality(PagesOf(count)) - count[s] + n
  BY <1>1, <1>3, <1>8
<1>10. QED
  BY <1>9 DEF after

(* The kernel stacks, likewise.                                            *)
LEMMA StacksChange ==
    ASSUME NEW stack \in [Slots -> BOOLEAN], NEW after \in [Slots -> BOOLEAN], NEW s \in Slots,
           \A t \in Slots \ {s} : after[t] = stack[t]
    PROVE  /\ Cardinality({t \in Slots : stack[t]}) \in Nat
           /\ ~stack[s] /\ after[s] => Cardinality({t \in Slots : after[t]}) = Cardinality({t \in Slots : stack[t]}) + 1
           /\ stack[s] /\ ~after[s] => Cardinality({t \in Slots : after[t]}) = Cardinality({t \in Slots : stack[t]}) - 1
<1> DEFINE S == {t \in Slots : stack[t]}
           T == {t \in Slots : after[t]}
<1>1. IsFiniteSet(S)
  BY SlotsFinite, FS_Subset
<1>2. /\ ~stack[s] /\ after[s] => T = S \cup {s} /\ s \notin S
      /\ stack[s] /\ ~after[s] => T = S \ {s} /\ s \in S
  OBVIOUS
<1> HIDE DEF S, T
<1>3. Cardinality(S) \in Nat
  BY <1>1, FS_CardinalityType
<1>4. Cardinality(S \cup {s}) = IF s \in S THEN Cardinality(S) ELSE Cardinality(S) + 1
  BY <1>1, FS_AddElement
<1>5. Cardinality(S \ {s}) = IF s \in S THEN Cardinality(S) - 1 ELSE Cardinality(S)
  BY <1>1, FS_RemoveElement
<1>6. /\ Cardinality(S) \in Nat
      /\ ~stack[s] /\ after[s] => Cardinality(T) = Cardinality(S) + 1
      /\ stack[s] /\ ~after[s] => Cardinality(T) = Cardinality(S) - 1
  BY <1>2, <1>3, <1>4, <1>5
<1>7. QED
  BY <1>6 DEF S, T

(* At first init has the only pages.                                       *)
LEMMA InitPages == Init => PageInv
<1> SUFFICES ASSUME Init PROVE PageInv
  OBVIOUS
<1> DEFINE none == [s \in Slots |-> 0]
<1>1. MinSpace \in 0 .. MaxSpace /\ 0 \in 0 .. MaxSpace /\ initproc \in Slots /\ MinSpace \in Nat /\ NPAGES \in Nat
  BY ProcAssumption, InitSlot
<1>2. none \in [Slots -> 0 .. MaxSpace] /\ none[initproc] = 0
  BY <1>1
<1>3. PagesOf(none) = {} /\ fresh = none
  BY DEF PagesOf, Init
<1>4. space = [none EXCEPT ![initproc] = MinSpace]
  BY <1>1 DEF Init
<1>5. Cardinality(PagesOf(fresh)) = 0
  BY <1>3, FS_EmptySet
<1>6. Cardinality(PagesOf(space)) = MinSpace
  <2>1. Cardinality(PagesOf(space)) = Cardinality(PagesOf(none)) - none[initproc] + MinSpace
    BY <1>1, <1>2, <1>4, PagesChange
  <2>2. QED
    BY <1>1, <1>2, <1>3, <1>5, <2>1
<1>7. {s \in Slots : kstack[s]} = {initproc}
  BY <1>1 DEF Init
<1>8. Cardinality({s \in Slots : kstack[s]}) = 1
  BY <1>7, FS_Singleton
<1>9. free = NPAGES - MinSpace - 1
  BY DEF Init
<1>10. PagesConserved
  BY <1>1, <1>5, <1>6, <1>8, <1>9 DEF PagesConserved
<1>11. PagesOwned
  BY <1>1 DEF PagesOwned, Init
<1>12. QED
  BY <1>10, <1>11 DEF PageInv

(* Pages stay conserved where nobody takes or frees one.                   *)
LEMMA QuietPages ==
    ASSUME PagesConserved, UNCHANGED pages PROVE PagesConserved'
<1>1. kstack' = kstack /\ space' = space /\ fresh' = fresh /\ free' = free
  BY DEF pages
<1>2. PagesOf(space)' = PagesOf(space) /\ PagesOf(fresh)' = PagesOf(fresh)
  BY <1>1 DEF PagesOf
<1>3. QED
  BY <1>1, <1>2 DEF PagesConserved

(* fork() takes a page for the stack, or gives the slot back.              *)
LEMMA StackPages ==
    ASSUME ProcInv, PageInv, NEW c \in CPUs, NEW p \in Slots, StackPage(c, p)
    PROVE  PageInv'
<1> USE ProcAssumption DEF PageInv
<1>1. PICK e \in Slots : IsOwn(e, p)
  BY OwnEmbryo DEF StackPage, At
<1>2. /\ kstack \in [Slots -> BOOLEAN] /\ pc = [s \in Slots |-> pc[s]] /\ free \in Nat
      /\ state \in [Slots -> States] /\ embryo \in [Slots -> Slots \cup {Nobody}]
  BY DEF ProcInv, TypeOK, Calls
<1>3. /\ e = embryo[p] /\ state[e] = "EMBRYO" /\ ~kstack[e] /\ space[e] = 0 /\ pc[p] = "stack" /\ e # p
      /\ \A q \in Slots : embryo[q] = e => q = p
  BY <1>1 DEF IsOwn, PagesOwned, StackPage, At
<1>4. UNCHANGED <<space, fresh>>
  BY DEF StackPage
<1>5. CASE free > 0
  <2>1. /\ kstack' = [kstack EXCEPT ![e] = TRUE] /\ free' = free - 1
        /\ pc' = [pc EXCEPT ![p] = "copy"] /\ UNCHANGED <<state, embryo>>
    BY <1>3, <1>5 DEF StackPage, Goto
  <2>2. Cardinality({s \in Slots : kstack'[s]}) = Cardinality({s \in Slots : kstack[s]}) + 1
        /\ Cardinality({s \in Slots : kstack[s]}) \in Nat
    <3>1. kstack' \in [Slots -> BOOLEAN] /\ ~kstack[e] /\ kstack'[e] /\ \A t \in Slots \ {e} : kstack'[t] = kstack[t]
      BY <1>2, <1>3, <2>1
    <3>2. QED
      BY <1>2, <3>1, StacksChange
  <2>3. space \in [Slots -> 0 .. MaxSpace] /\ fresh \in [Slots -> 0 .. MaxSpace]
    BY DEF ProcInv, TypeOK
  <2>4. 0 \in 0 .. MaxSpace
    OBVIOUS
  <2>5. Cardinality(PagesOf(space)) \in Nat /\ Cardinality(PagesOf(fresh)) \in Nat
    BY <2>3, <2>4, <1>1, PagesChange
  <2>6. PagesOf(space)' = PagesOf(space) /\ PagesOf(fresh)' = PagesOf(fresh)
    BY <1>4 DEF PagesOf
  <2>7. PagesConserved'
    BY <1>2, <2>1, <2>2, <2>5, <2>6 DEF PagesConserved
  <2>8. PagesOwned'
    BY <1>2, <1>3, <1>4, <2>1 DEF PagesOwned
  <2>9. QED
    BY <2>7, <2>8
<1>6. CASE ~(free > 0)
  <2>1. /\ state' = [state EXCEPT ![e] = "UNUSED"] /\ embryo' = [embryo EXCEPT ![p] = Nobody]
        /\ pc' = [pc EXCEPT ![p] = "user"] /\ UNCHANGED <<kstack, free>>
    BY <1>3, <1>6 DEF StackPage, ForkFails, Goto
  <2>2. PagesConserved'
    BY <1>4, <2>1, QuietPages DEF pages
  <2>3. PagesOwned'
    BY <1>2, <1>3, <1>4, <2>1 DEF PagesOwned
  <2>4. QED
    BY <2>2, <2>3
<1>7. QED
  BY <1>5, <1>6

(* The number of pages in each place, as numbers.                          *)
LEMMA CountTypes ==
    ASSUME ProcInv
    PROVE  /\ Cardinality({s \in Slots : kstack[s]}) \in Nat
           /\ Cardinality(PagesOf(space)) \in Nat /\ Cardinality(PagesOf(fresh)) \in Nat
           /\ free \in Nat
           /\ kstack \in [Slots -> BOOLEAN] /\ pc = [s \in Slots |-> pc[s]]
           /\ space \in [Slots -> 0 .. MaxSpace] /\ fresh \in [Slots -> 0 .. MaxSpace]
           /\ state \in [Slots -> States] /\ embryo \in [Slots -> Slots \cup {Nobody}]
<1>1. /\ free \in Nat
      /\ kstack \in [Slots -> BOOLEAN] /\ pc = [s \in Slots |-> pc[s]]
      /\ space \in [Slots -> 0 .. MaxSpace] /\ fresh \in [Slots -> 0 .. MaxSpace]
      /\ state \in [Slots -> States] /\ embryo \in [Slots -> Slots \cup {Nobody}]
  BY DEF ProcInv, TypeOK, Calls
<1>2. initproc \in Slots /\ 0 \in 0 .. MaxSpace
  BY InitSlot, ProcAssumption
<1>3. Cardinality({s \in Slots : kstack[s]}) \in Nat
  BY <1>1, <1>2, StacksChange
<1>4. Cardinality(PagesOf(space)) \in Nat /\ Cardinality(PagesOf(fresh)) \in Nat
  BY <1>1, <1>2, PagesChange
<1>5. QED
  BY <1>1, <1>3, <1>4

(* fork() and exec() take pages for the space they build.                  *)
LEMMA TakePages ==
    ASSUME ProcInv, PageInv, NEW c \in CPUs, NEW p \in Slots, CopyPage(c, p) \/ ExecPage(c, p)
    PROVE  PageInv'
<1> USE ProcAssumption DEF PageInv
<1>1. /\ pc[p] \in {"copy", "exec"} /\ free > 0
      /\ fresh' = [fresh EXCEPT ![p] = fresh[p] + 1] /\ free' = free - 1
      /\ UNCHANGED <<state, kstack, space, pc, embryo>>
      /\ fresh[p] + 1 \in 0 .. MaxSpace
  BY DEF CopyPage, ExecPage, TakePage, At, slot, ProcInv, TypeOK
<1>2. Cardinality(PagesOf(fresh')) = Cardinality(PagesOf(fresh)) - fresh[p] + (fresh[p] + 1)
  <2>1. fresh \in [Slots -> 0 .. MaxSpace]
    BY CountTypes
  <2> DEFINE n == fresh[p] + 1
  <2>2. n \in 0 .. MaxSpace /\ fresh' = [fresh EXCEPT ![p] = n]
    BY <1>1
  <2> HIDE DEF n
  <2>3. Cardinality(PagesOf(fresh')) = Cardinality(PagesOf(fresh)) - fresh[p] + n
    BY <2>1, <2>2, PagesChange
  <2>4. QED
    BY <2>3 DEF n
<1>3. PagesOf(fresh)' = PagesOf(fresh') /\ PagesOf(space)' = PagesOf(space)
  BY <1>1 DEF PagesOf
<1>4. fresh[p] \in Nat
  BY CountTypes
<1>5. PagesConserved'
  BY <1>1, <1>2, <1>3, <1>4, CountTypes DEF PagesConserved
<1>6. PagesOwned'
  BY <1>1, CountTypes DEF PagesOwned
<1>7. QED
  BY <1>5, <1>6

(* The same for two counts that differ in one slot.                        *)
LEMMA PagesMove ==
    ASSUME NEW count \in [Slots -> 0 .. MaxSpace], NEW after \in [Slots -> 0 .. MaxSpace],
           NEW s \in Slots, \A t \in Slots \ {s} : after[t] = count[t]
    PROVE  Cardinality(PagesOf(after)) = Cardinality(PagesOf(count)) - count[s] + after[s]
<1> DEFINE n == after[s]
<1>1. n \in 0 .. MaxSpace /\ after = [count EXCEPT ![s] = n]
  OBVIOUS
<1> HIDE DEF n
<1>2. Cardinality(PagesOf(after)) = Cardinality(PagesOf(count)) - count[s] + n
  BY <1>1, PagesChange
<1>3. QED
  BY <1>2 DEF n

(* fork() out of memory frees what it has copied, and the stack.           *)
LEMMA CopyFailsPages ==
    ASSUME ProcInv, PageInv, NEW c \in CPUs, NEW p \in Slots, CopyFails(c, p)
    PROVE  PageInv'
<1> USE ProcAssumption DEF PageInv
<1>1. PICK e \in Slots : IsOwn(e, p)
  BY OwnEmbryo DEF CopyFails, At
<1>2. /\ e = embryo[p] /\ e # p /\ kstack[e] /\ space[e] = 0 /\ pc[p] = "copy"
      /\ \A q \in Slots : embryo[q] = e => q = p
      /\ \A q \in Slots : pc[q] = "stack" => embryo[q] # Nobody
  BY <1>1 DEF IsOwn, PagesOwned, CopyFails, At, ProcInv, EmbryosAgree
<1>3. /\ free' = free + fresh[p] + 1 /\ fresh' = [fresh EXCEPT ![p] = 0]
      /\ kstack' = [kstack EXCEPT ![e] = FALSE] /\ state' = [state EXCEPT ![e] = "UNUSED"]
      /\ embryo' = [embryo EXCEPT ![p] = Nobody] /\ pc' = [pc EXCEPT ![p] = "user"]
      /\ UNCHANGED space
  <2>1. fresh[p] \in Nat /\ free \in Nat
    BY CountTypes
  <2>2. QED
    BY <1>2, <2>1 DEF CopyFails, GivenUp, ForkFails, Goto
<1>4. Cardinality({s \in Slots : kstack'[s]}) = Cardinality({s \in Slots : kstack[s]}) - 1
  <2>1. /\ kstack \in [Slots -> BOOLEAN] /\ kstack' \in [Slots -> BOOLEAN] /\ kstack[e] /\ ~kstack'[e]
        /\ \A t \in Slots \ {e} : kstack'[t] = kstack[t]
    BY <1>2, <1>3, CountTypes
  <2>2. QED
    BY <2>1, StacksChange
<1>5. Cardinality(PagesOf(fresh')) = Cardinality(PagesOf(fresh)) - fresh[p]
  <2>1. /\ fresh \in [Slots -> 0 .. MaxSpace] /\ fresh' \in [Slots -> 0 .. MaxSpace]
        /\ \A t \in Slots \ {p} : fresh'[t] = fresh[t] /\ fresh'[p] = 0
    BY <1>3, CountTypes
  <2>2. Cardinality(PagesOf(fresh')) = Cardinality(PagesOf(fresh)) - fresh[p] + fresh'[p]
    BY <2>1, PagesMove
  <2>3. fresh'[p] = 0 /\ fresh[p] \in Nat
    BY <1>3, CountTypes
  <2>4. QED
    BY <2>2, <2>3, CountTypes
<1>6. PagesOf(fresh)' = PagesOf(fresh') /\ PagesOf(space)' = PagesOf(space)
  BY <1>3 DEF PagesOf
<1>7. fresh[p] \in Nat
  BY CountTypes
<1>8. PagesConserved'
  BY <1>3, <1>4, <1>5, <1>6, <1>7, CountTypes DEF PagesConserved
<1>9. PagesOwned'
  BY <1>2, <1>3, CountTypes DEF PagesOwned
<1>10. QED
  BY <1>8, <1>9

(* The copy becomes the child's.                                           *)
LEMMA CopiedPages ==
    ASSUME ProcInv, PageInv, NEW c \in CPUs, NEW p \in Slots, Copied(c, p)
    PROVE  PageInv'
<1> USE ProcAssumption DEF PageInv
<1>1. PICK e \in Slots : IsOwn(e, p)
  BY OwnEmbryo DEF Copied, At
<1>2. /\ e = embryo[p] /\ state[e] = "EMBRYO" /\ e # p /\ space[e] = 0 /\ pc[p] = "copy"
      /\ \A q \in Slots : embryo[q] = e => q = p
      /\ \A q \in Slots : pc[q] \in {"stack", "copy"} => embryo[q] \in Slots
  BY <1>1, CountTypes DEF IsOwn, PagesOwned, Copied, At, ProcInv, EmbryosAgree
<1>3. /\ space' = [space EXCEPT ![e] = fresh[p]] /\ fresh' = [fresh EXCEPT ![p] = 0]
      /\ pc' = [pc EXCEPT ![p] = "ready"] /\ UNCHANGED <<state, kstack, free, embryo>>
  BY <1>2 DEF Copied, Goto
<1>4. fresh[p] \in Nat /\ fresh[p] \in 0 .. MaxSpace
  BY CountTypes
<1>5. Cardinality(PagesOf(fresh')) = Cardinality(PagesOf(fresh)) - fresh[p]
  <2>1. /\ fresh \in [Slots -> 0 .. MaxSpace] /\ fresh' \in [Slots -> 0 .. MaxSpace]
        /\ \A t \in Slots \ {p} : fresh'[t] = fresh[t]
    BY <1>3, CountTypes
  <2>2. Cardinality(PagesOf(fresh')) = Cardinality(PagesOf(fresh)) - fresh[p] + fresh'[p]
    BY <2>1, PagesMove
  <2>3. fresh'[p] = 0
    BY <1>3, CountTypes
  <2>4. QED
    BY <1>4, <2>2, <2>3, CountTypes
<1>6. Cardinality(PagesOf(space')) = Cardinality(PagesOf(space)) + fresh[p]
  <2>1. /\ space \in [Slots -> 0 .. MaxSpace] /\ space' \in [Slots -> 0 .. MaxSpace]
        /\ \A t \in Slots \ {e} : space'[t] = space[t]
    BY <1>3, <1>4, CountTypes
  <2>2. Cardinality(PagesOf(space')) = Cardinality(PagesOf(space)) - space[e] + space'[e]
    BY <2>1, PagesMove
  <2>3. space'[e] = fresh[p] /\ space[e] = 0
    BY <1>2, <1>3, CountTypes
  <2>4. QED
    BY <1>4, <2>2, <2>3, CountTypes
<1>7. PagesOf(fresh)' = PagesOf(fresh') /\ PagesOf(space)' = PagesOf(space')
  BY DEF PagesOf
<1>8. PagesConserved'
  BY <1>3, <1>4, <1>5, <1>6, <1>7, CountTypes DEF PagesConserved
<1>9. PagesOwned'
  BY <1>2, <1>3, CountTypes DEF PagesOwned
<1>10. QED
  BY <1>8, <1>9

(* exec() frees the new space, or the old one.                             *)
LEMMA ExecPages ==
    ASSUME ProcInv, PageInv, NEW c \in CPUs, NEW p \in Slots, ExecFails(c, p) \/ ExecCommit(c, p)
    PROVE  PageInv'
<1> USE ProcAssumption DEF PageInv
<1>1. /\ pc[p] = "exec" /\ fresh' = [fresh EXCEPT ![p] = 0]
      /\ pc' = [pc EXCEPT ![p] = "user"] /\ UNCHANGED <<state, kstack, embryo>>
      /\ state[p] = "RUNNING"
  BY DEF ExecFails, ExecCommit, Goto, At, Runs, slot
<1>2. fresh[p] \in Nat /\ fresh[p] \in 0 .. MaxSpace /\ space[p] \in Nat
  BY CountTypes
<1>3. Cardinality(PagesOf(fresh')) = Cardinality(PagesOf(fresh)) - fresh[p]
  <2>1. /\ fresh \in [Slots -> 0 .. MaxSpace] /\ fresh' \in [Slots -> 0 .. MaxSpace]
        /\ \A t \in Slots \ {p} : fresh'[t] = fresh[t]
    BY <1>1, CountTypes
  <2>2. Cardinality(PagesOf(fresh')) = Cardinality(PagesOf(fresh)) - fresh[p] + fresh'[p]
    BY <2>1, PagesMove
  <2>3. fresh'[p] = 0
    BY <1>1, CountTypes
  <2>4. QED
    BY <1>2, <2>2, <2>3, CountTypes
<1>4. PagesOf(fresh)' = PagesOf(fresh') /\ PagesOf(space)' = PagesOf(space')
  BY DEF PagesOf
<1>5. \A q \in Slots : pc[q] \in {"stack", "copy"} => embryo[q] \in Slots /\ embryo[q] # p
  BY <1>1, CountTypes DEF ProcInv, EmbryosAgree
<1>6. CASE ExecFails(c, p)
  <2>1. free' = free + fresh[p] /\ UNCHANGED space
    BY <1>6 DEF ExecFails
  <2>2. PagesConserved'
    BY <1>1, <1>2, <1>3, <1>4, <2>1, CountTypes DEF PagesConserved
  <2>3. PagesOwned'
    BY <1>1, <2>1, CountTypes DEF PagesOwned
  <2>4. QED
    BY <2>2, <2>3
<1>7. CASE ExecCommit(c, p)
  <2>1. free' = free + space[p] /\ space' = [space EXCEPT ![p] = fresh[p]]
    BY <1>7 DEF ExecCommit
  <2>2. Cardinality(PagesOf(space')) = Cardinality(PagesOf(space)) - space[p] + fresh[p]
    <3>1. /\ space \in [Slots -> 0 .. MaxSpace] /\ space' \in [Slots -> 0 .. MaxSpace]
          /\ \A t \in Slots \ {p} : space'[t] = space[t]
      BY <1>2, <2>1, CountTypes
    <3>2. Cardinality(PagesOf(space')) = Cardinality(PagesOf(space)) - space[p] + space'[p]
      BY <3>1, PagesMove
    <3>3. space'[p] = fresh[p]
      BY <2>1, CountTypes
    <3>4. QED
      BY <3>2, <3>3
  <2>3. PagesConserved'
    BY <1>1, <1>2, <1>3, <1>4, <2>1, <2>2, CountTypes DEF PagesConserved
  <2>4. PagesOwned'
    BY <1>1, <1>5, <2>1, CountTypes DEF PagesOwned
  <2>5. QED
    BY <2>3, <2>4
<1>8. QED
  BY <1>6, <1>7

(* wait() frees the stack and the space of a zombie.                       *)
LEMMA ReapPages ==
    ASSUME ProcInv, PageInv, NEW c \in CPUs, NEW p \in Slots, Reap(c, p)
    PROVE  PageInv'
<1> USE ProcAssumption DEF PageInv
<1>1. PICK s \in Slots : s = Lowest(Zombies(p)) /\ state[s] = "ZOMBIE"
  <2>1. Zombies(p) \subseteq Slots /\ Zombies(p) # {}
    BY DEF Reap, Zombies, Children
  <2>2. Lowest(Zombies(p)) \in Zombies(p)
    BY <2>1, LowestIn
  <2>3. QED
    BY <2>2 DEF Zombies, Children
<1>2. /\ free' = free + space[s] + 1 /\ kstack' = [kstack EXCEPT ![s] = FALSE]
      /\ space' = [space EXCEPT ![s] = 0] /\ state' = [state EXCEPT ![s] = "UNUSED"]
      /\ pc' = [pc EXCEPT ![p] = "user"] /\ UNCHANGED <<fresh, embryo>> /\ pc[p] = "scan"
  BY <1>1 DEF Reap, WaitReturns, Goto, Scans, At
<1>3. space[s] \in Nat /\ kstack[s] /\ free \in Nat
  BY <1>1, CountTypes DEF ProcInv, PlacesAgree, Grown
<1>4. Cardinality({t \in Slots : kstack'[t]}) = Cardinality({t \in Slots : kstack[t]}) - 1
  <2>1. /\ kstack \in [Slots -> BOOLEAN] /\ kstack' \in [Slots -> BOOLEAN] /\ kstack[s] /\ ~kstack'[s]
        /\ \A t \in Slots \ {s} : kstack'[t] = kstack[t]
    BY <1>2, <1>3, CountTypes
  <2>2. QED
    BY <2>1, StacksChange
<1>5. Cardinality(PagesOf(space')) = Cardinality(PagesOf(space)) - space[s]
  <2>1. /\ space \in [Slots -> 0 .. MaxSpace] /\ space' \in [Slots -> 0 .. MaxSpace]
        /\ \A t \in Slots \ {s} : space'[t] = space[t]
    BY <1>2, CountTypes
  <2>2. Cardinality(PagesOf(space')) = Cardinality(PagesOf(space)) - space[s] + space'[s]
    BY <2>1, PagesMove
  <2>3. space'[s] = 0
    BY <1>2, CountTypes
  <2>4. QED
    BY <1>3, <2>2, <2>3, CountTypes
<1>6. PagesOf(fresh)' = PagesOf(fresh) /\ PagesOf(space)' = PagesOf(space')
  BY <1>2 DEF PagesOf
<1>7. PagesConserved'
  BY <1>2, <1>3, <1>4, <1>5, <1>6, CountTypes DEF PagesConserved
<1>8. \A q \in Slots : pc[q] \in {"stack", "copy"} => embryo[q] \in Slots /\ embryo[q] # s
  BY <1>1, CountTypes DEF ProcInv, EmbryosAgree
<1>9. PagesOwned'
  BY <1>2, <1>8, CountTypes DEF PagesOwned
<1>10. QED
  BY <1>7, <1>9

(* What neither takes nor frees a page, nor enters or leaves a place where *)
(* pages are being collected, keeps them as they are.                      *)
LEMMA QuietOwned ==
    ASSUME PageInv, UNCHANGED pages, UNCHANGED embryo,
           \A s \in Slots : /\ state'[s] = "UNUSED" => state[s] = "UNUSED"
                            /\ pc'[s] \in {"stack", "copy"} => pc[s] = pc'[s]
                            /\ pc[s] \in {"copy", "exec"} => pc'[s] \in {"copy", "exec"}
    PROVE  PageInv'
<1>1. PagesConserved'
  BY QuietPages DEF PageInv
<1>2. kstack' = kstack /\ space' = space /\ fresh' = fresh
  BY DEF pages
<1>3. PagesOwned'
  BY <1>2 DEF PageInv, PagesOwned
<1>4. QED
  BY <1>1, <1>3 DEF PageInv

(* A slot that fork() finds has no pages.                                  *)
LEMMA AllocPages ==
    ASSUME ProcInv, PageInv, NEW c \in CPUs, NEW p \in Slots, AllocProc(c, p)
    PROVE  PageInv'
<1>1. UNCHANGED pages /\ pc[p] = "fork"
  BY DEF AllocProc, At
<1>2. PagesConserved'
  BY <1>1, QuietPages DEF PageInv
<1>3. CASE Unused = {}
  <2>1. pc' = [pc EXCEPT ![p] = "user"] /\ UNCHANGED <<state, embryo>>
    BY <1>3 DEF AllocProc, Goto
  <2>2. QED
    BY <1>1, <2>1, CountTypes, QuietOwned
<1>4. CASE Unused # {}
  <2>1. PICK s \in Slots : s = Lowest(Unused) /\ state[s] = "UNUSED"
    <3>1. Unused \subseteq Slots
      BY DEF Unused
    <3>2. Lowest(Unused) \in Unused
      BY <1>4, <3>1, LowestIn
    <3>3. QED
      BY <3>2 DEF Unused
  <2>2. /\ state' = [state EXCEPT ![s] = "EMBRYO"] /\ embryo' = [embryo EXCEPT ![p] = s]
        /\ pc' = [pc EXCEPT ![p] = "stack"]
    BY <1>4, <2>1 DEF AllocProc, Goto
  <2>3. kstack' = kstack /\ space' = space /\ fresh' = fresh
    BY <1>1 DEF pages
  <2>4. PagesOwned'
    BY <1>1, <2>1, <2>2, <2>3, CountTypes DEF PageInv, PagesOwned
  <2>5. QED
    BY <1>2, <2>4 DEF PageInv
<1>5. QED
  BY <1>3, <1>4

(* The child is let go.                                                    *)
LEMMA ReadyPages ==
    ASSUME ProcInv, PageInv, NEW c \in CPUs, NEW p \in Slots, Ready(c, p)
    PROVE  PageInv'
<1>1. /\ UNCHANGED pages /\ pc[p] = "ready" /\ pc' = [pc EXCEPT ![p] = "user"]
      /\ state' = [state EXCEPT ![embryo[p]] = "RUNNABLE"]
      /\ embryo' = [embryo EXCEPT ![p] = Nobody]
  BY DEF Ready, At, Goto
<1>2. PagesConserved'
  BY <1>1, QuietPages DEF PageInv
<1>3. kstack' = kstack /\ space' = space /\ fresh' = fresh
  BY <1>1 DEF pages
<1>4. PagesOwned'
  BY <1>1, <1>3, CountTypes DEF PageInv, PagesOwned
<1>5. QED
  BY <1>2, <1>4 DEF PageInv

(* Every step conserves the pages.                                         *)
LEMMA StepPages == ProcInv /\ PageInv /\ [Next]_vars => PageInv'
<1> SUFFICES ASSUME ProcInv, PageInv, [Next]_vars PROVE PageInv'
  OBVIOUS
<1>0. pc = [q \in Slots |-> pc[q]] /\ state = [q \in Slots |-> state[q]]
  BY CountTypes
<1>1. CASE Tick
  BY <1>1, QuietOwned DEF Tick, slot
<1>2. CASE TickWakes
  BY <1>0, <1>2, QuietOwned DEF TickWakes, Wakeup1
<1>3. ASSUME NEW c \in CPUs, Switch(c) PROVE PageInv'
  <2>1. CASE Scheduler(c)
    BY <1>3, <2>1, QuietOwned DEF Scheduler, ScanStart, SwitchKvm, ScanEnd, slot
  <2>2. ASSUME NEW p \in Slots, Sched(c, p) PROVE PageInv'
    BY <2>2, QuietOwned DEF Sched, slot
  <2>3. ASSUME NEW p \in Slots, Resume(c, p) PROVE PageInv'
    BY <1>0, <2>3, QuietOwned DEF Resume, Goto, slot
  <2>4. QED
    BY <1>3, <2>1, <2>2, <2>3 DEF Switch
<1>4. ASSUME NEW c \in CPUs, NEW p \in Slots, Dispatch(c, p) \/ Yield(c, p) PROVE PageInv'
  BY <1>0, <1>4, QuietOwned DEF Dispatch, Yield
<1>5. ASSUME NEW c \in CPUs, NEW p \in Slots, NEW call \in Calls, Enter(c, p, call) PROVE PageInv'
  <2>1. /\ UNCHANGED <<state, embryo, pages>> /\ pc[p] = "user" /\ pc' = [pc EXCEPT ![p] = call]
        /\ call \notin {"stack", "copy"}
    BY <1>5 DEF Enter, At, Goto, slot, Calls
  <2>2. QED
    BY <1>0, <2>1, QuietOwned
<1>6. ASSUME NEW c \in CPUs, NEW p \in Slots, Step(c, p) PROVE PageInv'
  <2>1. CASE ForkStep(c, p)
    BY <2>1, AllocPages, StackPages, TakePages, CopyFailsPages, CopiedPages, ReadyPages DEF ForkStep
  <2>2. CASE ExecStep(c, p)
    BY <2>2, TakePages, ExecPages DEF ExecStep
  <2>3. CASE Exit(c, p)
    BY <1>0, <2>3, QuietOwned DEF Exit, Wakeup1, Goto, At
  <2>4. CASE WaitStep(c, p)
    <3>1. CASE WaitLock(c, p) \/ NoPoint(c, p) \/ WaitSleep(c, p)
      BY <1>0, <3>1, QuietOwned DEF WaitLock, NoPoint, WaitSleep, WaitReturns, Scans, Goto, At, slot
    <3>2. QED
      BY <2>4, <3>1, ReapPages DEF WaitStep
  <2>5. CASE SleepStep(c, p)
    BY <1>0, <2>5, QuietOwned DEF SleepStep, TicksLock, SleepReturns, SleepAgain, Sleep, Goto, At, slot
  <2>6. ASSUME NEW s \in Slots, Kill(c, p, s) PROVE PageInv'
    BY <1>0, <2>6, QuietOwned DEF Kill, Goto, At
  <2>7. QED
    BY <1>6, <2>1, <2>2, <2>3, <2>4, <2>5, <2>6 DEF Step
<1>7. CASE UNCHANGED vars
  BY <1>7, QuietOwned DEF vars, slot
<1>8. QED
  BY <1>1, <1>2, <1>3, <1>4, <1>5, <1>6, <1>7 DEF Next

(* Whatever runs out half way through fork() or exec(), and whoever exits  *)
(* and is waited for: every page is free or one process's.                 *)
THEOREM NoPageLost == Spec => []PageInv
<1>1. ProcInv /\ PageInv /\ [Next]_vars => PageInv'
  BY StepPages
<1>2. QED
  BY <1>1, InitPages, ProcInvariant, PTL DEF Spec
================================================================================
