------------------------------ MODULE InodesProofs ------------------------------
(***************************************************************************)
(* For any processes, calls, names, inodes and size of the cache: every    *)
(* pointer to an inode is counted, an inode in use has one entry, its lock *)
(* has one holder, and a valid copy is what the disk has.                  *)
(***************************************************************************)
EXTENDS Inodes, FiniteSetTheorems, TLAPS

-----------------------------------------------------------------------------
(* Counting the pointers to an entry of the cache.                         *)
Spots == Procs \X Registers

Count(h, s) == Cardinality({q \in Spots : h[q[1]][q[2]] = s})

(* There are finitely many places for a pointer.                           *)
LEMMA SpotsFinite == IsFiniteSet(Spots)
<1>1. IsFiniteSet({"ip"})
  BY FS_Singleton
<1>2. IsFiniteSet({"ip"} \cup {"dp"})
  BY <1>1, FS_AddElement
<1>3. IsFiniteSet(({"ip"} \cup {"dp"}) \cup {"old"})
  BY <1>2, FS_AddElement
<1>4. IsFiniteSet((({"ip"} \cup {"dp"}) \cup {"old"}) \cup {"giving"})
  BY <1>3, FS_AddElement
<1>5. IsFiniteSet(((({"ip"} \cup {"dp"}) \cup {"old"}) \cup {"giving"}) \cup {"cwd"})
  BY <1>4, FS_AddElement
<1>6. IsFiniteSet((((({"ip"} \cup {"dp"}) \cup {"old"}) \cup {"giving"}) \cup {"cwd"}) \cup {"file"})
  BY <1>5, FS_AddElement
<1>7. Registers = (((({"ip"} \cup {"dp"}) \cup {"old"}) \cup {"giving"}) \cup {"cwd"}) \cup {"file"}
  BY DEF Registers
<1>8. IsFiniteSet(Registers)
  BY <1>6, <1>7
<1>9. QED
  BY <1>8, InodesAssumption, FS_Product DEF Spots

(* Any of them can be counted.                                             *)
LEMMA SomeSpots ==
    ASSUME NEW S, S \subseteq Spots
    PROVE  IsFiniteSet(S) /\ Cardinality(S) \in Nat
  BY SpotsFinite, FS_Subset, FS_CardinalityType

(* A pointer counts.                                                       *)
LEMMA Counted ==
    ASSUME NEW h, NEW s
    PROVE  /\ Count(h, s) \in Nat
           /\ \A p \in Procs : \A r \in Registers : h[p][r] = s => Count(h, s) >= 1
<1> DEFINE S == {q \in Spots : h[q[1]][q[2]] = s}
<1>1. S \subseteq Spots /\ Count(h, s) = Cardinality(S)
  BY DEF Count
<1>2. ASSUME NEW p \in Procs, NEW r \in Registers, h[p][r] = s PROVE S # {}
  <2>1. <<p, r>> \in S
    BY <1>2 DEF Spots
  <2>2. QED
    BY <2>1
<1> HIDE DEF S
<1>3. IsFiniteSet(S) /\ Cardinality(S) \in Nat
  BY <1>1, SomeSpots
<1>4. S # {} => Cardinality(S) # 0
  BY <1>3, FS_EmptySet
<1>5. QED
  BY <1>1, <1>2, <1>3, <1>4

(* Only these registers of p may differ.                                   *)
SameBut(h, h2, p, regs) ==
    /\ \A r \in Registers \ regs : h2[p][r] = h[p][r]
    /\ \A q \in Procs \ {p} : h2[q] = h[q]

(* Two registers that change their pointers.                               *)
Exchange(h, h2, p, u, v) ==
    h2[p][u] = h[p][v] /\ h2[p][v] = h[p][u] /\ SameBut(h, h2, p, {u, v})

LEMMA Exchanged ==
    ASSUME NEW h, NEW h2, NEW p \in Procs, NEW u \in Registers, NEW v \in Registers,
           Exchange(h, h2, p, u, v), NEW s
    PROVE  Count(h2, s) = Count(h, s)
<1>0. /\ h2[p][u] = h[p][v] /\ h2[p][v] = h[p][u]
      /\ \A r \in Registers \ {u, v} : h2[p][r] = h[p][r]
      /\ \A q \in Procs \ {p} : h2[q] = h[q]
  BY DEF Exchange, SameBut
<1> DEFINE S == {q \in Spots : h[q[1]][q[2]] = s}
           T == {q \in Spots : h2[q[1]][q[2]] = s}
           sigma == [q \in Spots |-> IF q = <<p, u>> THEN <<p, v>>
                                     ELSE IF q = <<p, v>> THEN <<p, u>> ELSE q]
           b == [q \in S |-> sigma[q]]
<1>1. /\ sigma \in [Spots -> Spots] /\ \A q \in Spots : sigma[sigma[q]] = q
      /\ <<p, u>> \in Spots /\ <<p, v>> \in Spots
  BY DEF Spots
<1>2. ASSUME NEW q \in Spots PROVE h2[q[1]][q[2]] = h[sigma[q][1]][sigma[q][2]]
  <2>1. q = <<q[1], q[2]>> /\ q[1] \in Procs /\ q[2] \in Registers
    BY DEF Spots
  <2>2. CASE q = <<p, u>>
    BY <1>0, <2>2
  <2>3. CASE q = <<p, v>> /\ u # v
    BY <1>0, <2>3
  <2>4. CASE q # <<p, u>> /\ q # <<p, v>>
    <3>1. sigma[q] = q
      BY <2>4
    <3>2. q[1] # p \/ q[2] \in Registers \ {u, v}
      BY <2>1, <2>4
    <3>3. h2[q[1]][q[2]] = h[q[1]][q[2]]
      BY <1>0, <2>1, <3>2
    <3>4. QED
      BY <3>1, <3>3
  <2>5. QED
    BY <2>2, <2>3, <2>4
<1> HIDE DEF sigma
<1>3. \A q \in S : sigma[q] \in T
  BY <1>1, <1>2
<1>4. \A q \in T : sigma[q] \in S /\ b[sigma[q]] = q
  BY <1>1, <1>2
<1>5. b \in [S -> T] /\ (\A x, y \in S : b[x] = b[y] => x = y) /\ \A t \in T : \E x \in S : b[x] = t
  BY <1>1, <1>3, <1>4
<1>6. IsFiniteSet(S)
  <2>1. S \subseteq Spots
    OBVIOUS
  <2> HIDE DEF S
  <2>2. QED
    BY <2>1, SomeSpots
<1>7. ExistsBijection(S, T)
  <2> HIDE DEF S, T, b
  <2>1. b \in Bijection(S, T)
    BY <1>5 DEF Bijection, Injection, Surjection, IsInjective
  <2>2. QED
    BY <2>1 DEF ExistsBijection
<1>8. Cardinality(S) = Cardinality(T)
  BY <1>6, <1>7, FS_Bijection
<1>9. QED
  BY <1>8 DEF Count

(* One pointer more.                                                       *)
Add(h, h2, p, u, new) ==
    h[p][u] = None /\ h2[p][u] = new /\ SameBut(h, h2, p, {u})

LEMMA Added ==
    ASSUME NEW h, NEW h2, NEW p \in Procs, NEW u \in Registers, NEW new \in Slots,
           Add(h, h2, p, u, new), NEW s \in Slots
    PROVE  Count(h2, s) = Count(h, s) + IF s = new THEN 1 ELSE 0
<1> DEFINE S == {q \in Spots : h[q[1]][q[2]] = s}
           T == {q \in Spots : h2[q[1]][q[2]] = s}
<1>1. <<p, u>> \in Spots /\ None # s /\ <<p, u>> \notin S
  BY InodesAssumption DEF Spots, Add
<1>2. \A q \in Spots : q # <<p, u>> => h2[q[1]][q[2]] = h[q[1]][q[2]]
  BY DEF Spots, Add, SameBut
<1>3. /\ S \subseteq Spots /\ Count(h, s) = Cardinality(S) /\ Count(h2, s) = Cardinality(T)
      /\ s = new => T = S \cup {<<p, u>>}
      /\ s # new => T = S
  BY <1>1, <1>2 DEF Count, Add
<1> HIDE DEF S, T
<1>4. IsFiniteSet(S) /\ Cardinality(S) \in Nat
  BY <1>3, SomeSpots
<1>5. Cardinality(S \cup {<<p, u>>}) = Cardinality(S) + 1
  BY <1>1, <1>4, FS_AddElement
<1>6. CASE s = new
  BY <1>3, <1>5, <1>6
<1>7. CASE s # new
  BY <1>3, <1>4, <1>7
<1>8. QED
  BY <1>6, <1>7

(* One pointer less.                                                       *)
Drop(h, h2, p, u) ==
    h[p][u] \in Slots /\ h2[p][u] = None /\ SameBut(h, h2, p, {u})

LEMMA Dropped ==
    ASSUME NEW h, NEW h2, NEW p \in Procs, NEW u \in Registers, Drop(h, h2, p, u), NEW s \in Slots
    PROVE  Count(h2, s) = Count(h, s) - IF s = h[p][u] THEN 1 ELSE 0
<1> DEFINE S == {q \in Spots : h[q[1]][q[2]] = s}
           T == {q \in Spots : h2[q[1]][q[2]] = s}
<1>1. <<p, u>> \in Spots /\ None # s
  BY InodesAssumption DEF Spots
<1>2. \A q \in Spots : q # <<p, u>> => h2[q[1]][q[2]] = h[q[1]][q[2]]
  BY DEF Spots, Drop, SameBut
<1>3. /\ S \subseteq Spots /\ Count(h, s) = Cardinality(S) /\ Count(h2, s) = Cardinality(T)
      /\ s = h[p][u] => T = S \ {<<p, u>>} /\ <<p, u>> \in S
      /\ s # h[p][u] => T = S
  BY <1>1, <1>2 DEF Count, Drop
<1> HIDE DEF S, T
<1>4. IsFiniteSet(S) /\ Cardinality(S) \in Nat
  BY <1>3, SomeSpots
<1>5. <<p, u>> \in S => Cardinality(S \ {<<p, u>>}) = Cardinality(S) - 1
  BY <1>4, FS_RemoveElement
<1>6. CASE s = h[p][u]
  BY <1>3, <1>5, <1>6
<1>7. CASE s # h[p][u]
  BY <1>3, <1>4, <1>7
<1>8. QED
  BY <1>6, <1>7

-----------------------------------------------------------------------------
(* A step of process p leaves the others where they are, with what they    *)
(* have.                                                                   *)
Still(p) ==
    \A q \in Procs \ {p} :
      pc'[q] = pc[q] /\ after'[q] = after[q] /\ has'[q] = has[q]
      /\ call'[q] = call[q] /\ rest'[q] = rest[q] /\ marked'[q] = marked[q]

LEMMA RegistersStep ==
    ASSUME NEW p \in Procs, Still(p), \A q \in Procs : RegistersOf(q), RegistersOf(p)'
    PROVE  \A q \in Procs : RegistersOf(q)'
<1> SUFFICES ASSUME NEW q \in Procs \ {p} PROVE RegistersOf(q)'
  OBVIOUS
<1>1. /\ RegistersOf(q) /\ pc'[q] = pc[q] /\ after'[q] = after[q] /\ has'[q] = has[q]
      /\ call'[q] = call[q] /\ rest'[q] = rest[q] /\ marked'[q] = marked[q]
  BY DEF Still
<1>2. (Place(q)' = Place(q)) /\ (InIput(q)' <=> InIput(q))
  BY <1>1 DEF Place, InIput, PutPlaces
<1>3. QED
  BY <1>1, <1>2 DEF RegistersOf, WantsParent

(* The locks after a step: those of p are what it is said to hold now, and *)
(* nobody else's.                                                          *)
LEMMA LocksStep ==
    ASSUME InodeInv, NEW p \in Procs, Still(p),
           \A s \in Slots : lock'[s] = IF Holds(p, s)' THEN p
                                       ELSE IF lock[s] = p THEN Nobody ELSE lock[s],
           \A s \in Slots : Holds(p, s)' => lock[s] \in {p, Nobody},
           \A r, t \in Registers : (Locks(p, r) /\ Locks(p, t))' /\ has'[p][r] = has'[p][t] => r = t,
           \A s \in Slots : lock'[s] # Nobody => valid'[s]
    PROVE  LocksAgree'
<1>1. LocksAgree /\ Nobody \notin Procs
  BY InodesAssumption DEF InodeInv
<1>2. ASSUME NEW q \in Procs \ {p}
      PROVE  /\ \A r : Locks(q, r)' <=> Locks(q, r)
             /\ has'[q] = has[q]
             /\ \A s \in Slots : Holds(q, s)' <=> Holds(q, s)
  <2>1. pc'[q] = pc[q] /\ after'[q] = after[q] /\ has'[q] = has[q]
    BY DEF Still
  <2>2. (Place(q)' = Place(q)) /\ \A r : Locks(q, r)' <=> Locks(q, r)
    BY <2>1 DEF Locks, Place, InIput, PutPlaces
  <2>3. QED
    BY <2>1, <2>2 DEF Holds
<1>3. ASSUME NEW s \in Slots, NEW q \in Procs PROVE lock'[s] = q <=> Holds(q, s)'
  <2>1. CASE q = p
    BY <1>1, <2>1
  <2>2. CASE q # p
    <3>1. lock[s] = q <=> Holds(q, s)
      BY <1>1 DEF LocksAgree
    <3>2. Holds(q, s)' <=> Holds(q, s)
      BY <1>2, <2>2
    <3>3. QED
      BY <1>1, <2>2, <3>1, <3>2
  <2>3. QED
    BY <2>1, <2>2
<1>4. ASSUME NEW q \in Procs, NEW r \in Registers, NEW t \in Registers,
             (Locks(q, r) /\ Locks(q, t))', has'[q][r] = has'[q][t]
      PROVE  r = t
  <2>1. CASE q = p
    BY <1>4, <2>1
  <2>2. CASE q # p
    BY <1>1, <1>2, <1>4, <2>2 DEF LocksAgree
  <2>3. QED
    BY <2>1, <2>2
<1>5. QED
  BY <1>3, <1>4 DEF LocksAgree

(* No lock changes hands.                                                  *)
KeepsLocks(p) ==
    /\ lock' = lock
    /\ \A t \in Registers : Locks(p, t)' <=> Locks(p, t)
    /\ \A t \in Registers : Locks(p, t) => has'[p][t] = has[p][t]
    /\ \A s \in Slots : lock'[s] # Nobody => valid'[s]

LEMMA LocksSame ==
    ASSUME InodeInv, NEW p \in Procs, Still(p), KeepsLocks(p)
    PROVE  LocksAgree'
<1>0. /\ lock' = lock
      /\ \A r \in Registers : Locks(p, r)' <=> Locks(p, r)
      /\ \A r \in Registers : Locks(p, r) => has'[p][r] = has[p][r]
      /\ \A s \in Slots : lock'[s] # Nobody => valid'[s]
  BY DEF KeepsLocks
<1>1. LocksAgree /\ Nobody \notin Procs
  BY InodesAssumption DEF InodeInv
<1>2. \A s \in Slots : Holds(p, s)' <=> Holds(p, s)
  BY <1>0 DEF Holds
<1>3. \A s \in Slots : lock[s] = p <=> Holds(p, s)
  BY <1>0, <1>1 DEF LocksAgree
<1>4. \A r, t \in Registers : (Locks(p, r) /\ Locks(p, t))' /\ has'[p][r] = has'[p][t] => r = t
  BY <1>0, <1>1 DEF LocksAgree
<1>5. \A s \in Slots : lock'[s] = IF Holds(p, s)' THEN p ELSE IF lock[s] = p THEN Nobody ELSE lock[s]
  BY <1>0, <1>2, <1>3
<1>6. QED
  BY <1>0, <1>2, <1>3, <1>4, <1>5, LocksStep

(* The lock of the inode in register u is released.                        *)
DropsLock(p, u) ==
    /\ Locks(p, u) /\ has[p][u] \in Slots /\ lock' = [lock EXCEPT ![has[p][u]] = Nobody]
    /\ \A t \in Registers : Locks(p, t)' <=> (Locks(p, t) /\ t # u)
    /\ \A t \in Registers : Locks(p, t) /\ t # u => has'[p][t] = has[p][t]
    /\ \A s \in Slots : lock'[s] # Nobody => valid'[s]

LEMMA LocksLess ==
    ASSUME InodeInv, NEW p \in Procs, Still(p), NEW u \in Registers, DropsLock(p, u)
    PROVE  LocksAgree'
<1>0. /\ Locks(p, u) /\ has[p][u] \in Slots /\ lock' = [lock EXCEPT ![has[p][u]] = Nobody]
      /\ \A r \in Registers : Locks(p, r)' <=> (Locks(p, r) /\ r # u)
      /\ \A r \in Registers : Locks(p, r) /\ r # u => has'[p][r] = has[p][r]
      /\ \A s \in Slots : lock'[s] # Nobody => valid'[s]
  BY DEF DropsLock
<1>1. LocksAgree /\ Nobody \notin Procs /\ lock \in [Slots -> Procs \cup {Nobody}]
  BY InodesAssumption DEF InodeInv, InodeShape
<1>2. \A s \in Slots : lock[s] = p <=> Holds(p, s)
  BY <1>0, <1>1 DEF LocksAgree
<1>3. \A r \in Registers : Locks(p, r) /\ has[p][r] = has[p][u] => r = u
  BY <1>0, <1>1 DEF LocksAgree
<1>4. \A s \in Slots : Holds(p, s)' <=> Holds(p, s) /\ s # has[p][u]
  BY <1>0, <1>3 DEF Holds
<1>5. \A r, t \in Registers : (Locks(p, r) /\ Locks(p, t))' /\ has'[p][r] = has'[p][t] => r = t
  BY <1>0, <1>1 DEF LocksAgree
<1>6. lock[has[p][u]] = p
  BY <1>0, <1>2 DEF Holds
<1>7. \A s \in Slots : lock'[s] = IF Holds(p, s)' THEN p ELSE IF lock[s] = p THEN Nobody ELSE lock[s]
  BY <1>0, <1>1, <1>2, <1>4, <1>6
<1>8. QED
  BY <1>0, <1>2, <1>4, <1>5, <1>7, LocksStep

(* The lock of the inode in register u is taken.                           *)
TakesLock(p, u) ==
    /\ has[p][u] \in Slots
    /\ lock[has[p][u]] = Nobody /\ lock' = [lock EXCEPT ![has[p][u]] = p]
    /\ \A t \in Registers : /\ Locks(p, t)' <=> (Locks(p, t) \/ t = u)
                            /\ has'[p][t] = has[p][t]
    /\ \A s \in Slots : lock'[s] # Nobody => valid'[s]

LEMMA LocksMore ==
    ASSUME InodeInv, NEW p \in Procs, Still(p), NEW u \in Registers, TakesLock(p, u)
    PROVE  LocksAgree'
<1>0. /\ has[p][u] \in Slots
      /\ lock[has[p][u]] = Nobody /\ lock' = [lock EXCEPT ![has[p][u]] = p]
      /\ \A r \in Registers : /\ Locks(p, r)' <=> (Locks(p, r) \/ r = u)
                              /\ has'[p][r] = has[p][r]
      /\ \A s \in Slots : lock'[s] # Nobody => valid'[s]
  BY DEF TakesLock
<1>1. LocksAgree /\ Nobody \notin Procs /\ lock \in [Slots -> Procs \cup {Nobody}]
  BY InodesAssumption DEF InodeInv, InodeShape
<1>2. \A s \in Slots : lock[s] = p <=> Holds(p, s)
  BY <1>0, <1>1 DEF LocksAgree
<1>3. \A r \in Registers : Locks(p, r) => has[p][r] # has[p][u]
  BY <1>0, <1>1, <1>2 DEF Holds
<1>4. \A s \in Slots : Holds(p, s)' <=> Holds(p, s) \/ s = has[p][u]
  BY <1>0 DEF Holds
<1>5. \A r, t \in Registers : (Locks(p, r) /\ Locks(p, t))' /\ has'[p][r] = has'[p][t] => r = t
  BY <1>0, <1>1, <1>3 DEF LocksAgree
<1>6. \A s \in Slots : lock'[s] = IF Holds(p, s)' THEN p ELSE IF lock[s] = p THEN Nobody ELSE lock[s]
  BY <1>0, <1>1, <1>2, <1>4
<1>7. QED
  BY <1>0, <1>1, <1>2, <1>4, <1>5, <1>6, LocksStep

-----------------------------------------------------------------------------
(* What is locked is in use and has been read.                             *)
LEMMA LockedInUse ==
    ASSUME InodeInv, NEW s \in Slots, lock[s] # Nobody
    PROVE  ref[s] > 0 /\ valid[s] /\ inum[s] \in Inums
<1>1. /\ LocksAgree /\ PointersAgree /\ CacheAgrees
      /\ lock \in [Slots -> Procs \cup {Nobody}] /\ ref \in [Slots -> Nat]
  BY DEF InodeInv, InodeShape
<1>2. lock[s] \in Procs /\ valid[s]
  BY <1>1 DEF LocksAgree
<1>3. PICK r \in Registers : has[lock[s]][r] = s
  BY <1>1, <1>2 DEF LocksAgree, Holds
<1>4. ref[s] = Count(has, s)
  BY <1>1 DEF PointersAgree, Pointers, Count, Spots
<1>5. Count(has, s) >= 1
  BY <1>2, <1>3, Counted
<1>6. QED
  BY <1>1, <1>2, <1>4, <1>5 DEF CacheAgrees

(* A pointer a process has, to an entry that is counted.                   *)
LEMMA PointerInUse ==
    ASSUME InodeInv, NEW p \in Procs, NEW r \in Registers, has[p][r] # None
    PROVE  has[p][r] \in Slots /\ ref[has[p][r]] > 0 /\ inum[has[p][r]] \in Inums
<1>1. /\ PointersAgree /\ CacheAgrees /\ has[p][r] \in Slots /\ ref \in [Slots -> Nat]
  BY DEF InodeInv, InodeShape
<1>2. ref[has[p][r]] = Count(has, has[p][r])
  BY <1>1 DEF PointersAgree, Pointers, Count, Spots
<1>3. Count(has, has[p][r]) >= 1
  BY Counted
<1>4. QED
  BY <1>1, <1>2, <1>3 DEF CacheAgrees

(* iget: one reference more, and at most one entry for each inode.         *)
LEMMA IgetFacts ==
    ASSUME InodeInv, NEW i \in Inums, NEW s \in Slots, Iget(i, s)
    PROVE  /\ ref' = [ref EXCEPT ![s] = ref[s] + 1] /\ ref' \in [Slots -> Nat]
           /\ inum' \in [Slots -> Inums \cup {None}] /\ valid' \in [Slots -> BOOLEAN]
           /\ inum'[s] = i /\ core' = core
           /\ \A t \in Slots : t # s \/ ref[s] > 0 => inum'[t] = inum[t] /\ valid'[t] = valid[t]
           /\ ref[s] = 0 => Cached(i) = {} /\ ~valid'[s]
           /\ \A t \in Slots : lock[t] # Nobody => valid'[t]
           /\ OneEntry'
<1>1. /\ ref \in [Slots -> Nat] /\ inum \in [Slots -> Inums \cup {None}]
      /\ valid \in [Slots -> BOOLEAN] /\ OneEntry
  BY DEF InodeInv, InodeShape
<1>2. CASE s \in Cached(i)
  <2>1. /\ ref' = [ref EXCEPT ![s] = ref[s] + 1] /\ UNCHANGED <<inum, valid, core>>
        /\ ref[s] > 0 /\ inum[s] = i
    BY <1>2 DEF Iget, Cached
  <2>2. ref' \in [Slots -> Nat] /\ \A t \in Slots : ref'[t] > 0 <=> ref[t] > 0
    BY <1>1, <2>1
  <2>3. OneEntry'
    BY <1>1, <2>1, <2>2 DEF OneEntry
  <2>4. QED
    BY <1>1, <2>1, <2>2, <2>3, LockedInUse
<1>3. CASE s \notin Cached(i)
  <2>1. /\ ref[s] = 0 /\ Cached(i) = {} /\ inum' = [inum EXCEPT ![s] = i]
        /\ ref' = [ref EXCEPT ![s] = 1] /\ valid' = [valid EXCEPT ![s] = FALSE] /\ core' = core
    BY <1>3 DEF Iget, Empty
  <2>2. /\ ref' \in [Slots -> Nat] /\ inum' \in [Slots -> Inums \cup {None}]
        /\ valid' \in [Slots -> BOOLEAN] /\ inum'[s] = i /\ ~valid'[s] /\ ref'[s] = 1
        /\ \A t \in Slots \ {s} : inum'[t] = inum[t] /\ valid'[t] = valid[t] /\ ref'[t] = ref[t]
    BY <1>1, <2>1
  <2>3. \A t \in Slots \ {s} : ref[t] > 0 => inum[t] # i
    BY <2>1 DEF Cached
  <2>4. OneEntry'
    BY <1>1, <2>2, <2>3 DEF OneEntry
  <2>5. \A t \in Slots : lock[t] # Nobody => valid'[t]
    BY <2>1, <2>2, LockedInUse
  <2>6. ref[s] + 1 = 1
    BY <2>1
  <2>7. QED
    BY <2>1, <2>2, <2>4, <2>5, <2>6
<1>4. QED
  BY <1>2, <1>3

(* Where copies are freed they are about to be invalid.                    *)
LEMMA FreedStays ==
    ASSUME NEW p \in Procs, Still(p), pc[p] # "freed", NEW s,
           \E q \in Procs : pc[q] = "freed" /\ has[q].giving = s
    PROVE  (\E q \in Procs : pc[q] = "freed" /\ has[q].giving = s)'
  BY DEF Still

(* iget, of a name or of what ialloc has marked.                           *)
LEMMA CacheIget ==
    ASSUME InodeInv, NEW p \in Procs, Still(p), pc[p] # "freed",
           NEW i \in Inums, NEW s \in Slots, Iget(i, s),
           \A j \in Inums : dinode[j].type # "free" => dinode'[j] = dinode[j]
    PROVE  CacheAgrees'
<1>1. CacheAgrees /\ ref \in [Slots -> Nat]
  BY DEF InodeInv, InodeShape
<1>2. /\ ref' = [ref EXCEPT ![s] = ref[s] + 1] /\ inum'[s] = i /\ core' = core
      /\ \A t \in Slots : t # s \/ ref[s] > 0 => inum'[t] = inum[t] /\ valid'[t] = valid[t]
      /\ ref[s] = 0 => ~valid'[s]
  BY IgetFacts
<1>3. \A t \in Slots : t # s => ref'[t] = ref[t]
  BY <1>1, <1>2
<1>4. \A t \in Slots : ref'[t] > 0 => inum'[t] \in Inums
  BY <1>1, <1>2, <1>3 DEF CacheAgrees
<1>5. ASSUME NEW t \in Slots, ref'[t] > 0, valid'[t]
      PROVE  \/ core'[t] = dinode'[inum'[t]] /\ core'[t].type # "free"
             \/ (\E q \in Procs : pc[q] = "freed" /\ has[q].giving = t)'
  <2>1. ref[t] > 0 /\ valid[t] /\ inum'[t] = inum[t]
    BY <1>1, <1>2, <1>3, <1>5
  <2>2. CASE core[t] = dinode[inum[t]] /\ core[t].type # "free"
    BY <1>1, <1>2, <2>1, <2>2 DEF CacheAgrees
  <2>3. CASE \E q \in Procs : pc[q] = "freed" /\ has[q].giving = t
    BY <2>3, FreedStays
  <2>4. QED
    BY <1>1, <2>1, <2>2, <2>3 DEF CacheAgrees
<1>6. QED
  BY <1>4, <1>5 DEF CacheAgrees

(* Inodes that the process has locked, in the entries D, written through.  *)
Through(p, D) ==
    /\ D \subseteq Slots /\ inum' = inum /\ valid' = valid
    /\ \A s \in Slots : ref'[s] > 0 => ref[s] > 0
    /\ \A s \in D : ref[s] > 0 /\ core'[s] = dinode'[inum[s]]
    /\ \A s \in D : core'[s].type # "free" \/ (pc'[p] = "freed" /\ has'[p].giving = s)
    /\ \A s \in Slots \ D : core'[s] = core[s]
    /\ \A i \in Inums : i \notin {inum[s] : s \in D} => dinode'[i] = dinode[i]

LEMMA CacheWrites ==
    ASSUME InodeInv, NEW p \in Procs, Still(p), pc[p] # "freed", NEW D, Through(p, D)
    PROVE  OneEntry' /\ CacheAgrees'
<1>0. /\ D \subseteq Slots /\ inum' = inum /\ valid' = valid
      /\ \A s \in Slots : ref'[s] > 0 => ref[s] > 0
      /\ \A s \in D : ref[s] > 0 /\ core'[s] = dinode'[inum[s]]
      /\ \A s \in D : core'[s].type # "free" \/ (pc'[p] = "freed" /\ has'[p].giving = s)
      /\ \A s \in Slots \ D : core'[s] = core[s]
      /\ \A i \in Inums : i \notin {inum[s] : s \in D} => dinode'[i] = dinode[i]
  BY DEF Through
<1>1. CacheAgrees /\ OneEntry
  BY DEF InodeInv
<1>2. OneEntry'
  BY <1>0, <1>1 DEF OneEntry
<1>3. \A s \in Slots : ref'[s] > 0 => inum'[s] \in Inums
  BY <1>0, <1>1 DEF CacheAgrees
<1>4. ASSUME NEW t \in Slots, ref'[t] > 0, valid'[t]
      PROVE  \/ core'[t] = dinode'[inum'[t]] /\ core'[t].type # "free"
             \/ (\E q \in Procs : pc[q] = "freed" /\ has[q].giving = t)'
  <2>1. ref[t] > 0 /\ valid[t] /\ inum[t] \in Inums
    BY <1>0, <1>1, <1>4 DEF CacheAgrees
  <2>2. CASE t \in D
    BY <1>0, <2>1, <2>2
  <2>3. CASE t \notin D
    <3>1. inum[t] \notin {inum[s] : s \in D}
      BY <1>0, <1>1, <2>1, <2>3 DEF OneEntry
    <3>2. core'[t] = core[t] /\ dinode'[inum[t]] = dinode[inum[t]]
      BY <1>0, <2>1, <2>3, <3>1
    <3>3. CASE core[t] = dinode[inum[t]] /\ core[t].type # "free"
      BY <1>0, <3>2, <3>3
    <3>4. CASE \E q \in Procs : pc[q] = "freed" /\ has[q].giving = t
      BY <3>4, FreedStays
    <3>5. QED
      BY <1>1, <2>1, <3>3, <3>4 DEF CacheAgrees
  <2>4. QED
    BY <2>2, <2>3
<1>5. QED
  BY <1>2, <1>3, <1>4 DEF CacheAgrees

(* A step that leaves the cache and the disk's inodes alone.               *)
LEMMA CacheKept ==
    ASSUME InodeInv, NEW p \in Procs, Still(p), pc[p] # "freed",
           UNCHANGED <<dinode, inum, valid, core>>, \A s \in Slots : ref'[s] > 0 => ref[s] > 0
    PROVE  OneEntry' /\ CacheAgrees'
<1>1. Through(p, {})
  BY DEF Through
<1>2. QED
  BY <1>1, CacheWrites

-----------------------------------------------------------------------------
(* What a process has locked it has in a register, and it is in use.       *)
LEMMA LockedIsMine ==
    ASSUME InodeInv, NEW p \in Procs, NEW r \in Registers, Locks(p, r)
    PROVE  /\ has[p][r] \in Slots /\ lock[has[p][r]] = p
           /\ ref[has[p][r]] > 0 /\ valid[has[p][r]] /\ inum[has[p][r]] \in Inums
<1>1. RegistersOf(p) /\ LocksAgree /\ Nobody \notin Procs /\ has[p][r] \in Slots \cup {None}
  BY InodesAssumption DEF InodeInv, InodeShape
<1>2. has[p][r] # None
  <2>1. CASE r = "giving" /\ pc[p] \in {"free", "freed"}
    BY <1>1, <2>1 DEF RegistersOf, InIput, PutPlaces
  <2>2. CASE LockedAt(Place(p), r)
    BY <1>1, <2>2 DEF RegistersOf, LockedAt, UsedAt, LinkPlaces
  <2>3. QED
    BY <2>1, <2>2 DEF Locks
<1>3. has[p][r] \in Slots /\ Holds(p, has[p][r])
  BY <1>1, <1>2 DEF Holds
<1>4. lock[has[p][r]] = p
  BY <1>1, <1>3 DEF LocksAgree
<1>5. QED
  BY <1>1, <1>3, <1>4, LockedInUse

(* iput() from a register, with the right things in hand for the place     *)
(* after it.                                                               *)
Fits(p, r, place) ==
    /\ place \in Places /\ place \notin PutPlaces /\ pc[p] # "marked"
    /\ \A t \in {"ip", "dp"} : UsedAt(place, t) <=> UsedAt(pc[p], t) /\ t # r
    /\ \A t \in Registers : LockedAt(place, t) <=> LockedAt(pc[p], t) /\ t # r
    /\ place \notin OnTheWay \cup {"marked", "new", "fill", "victim", "remove"}
    /\ has[p].old # None /\ r # "old" => place \in LinkPlaces
    /\ place \in LinkPlaces => has[p].old # None /\ r # "old"

GivesBack(p, r, place) ==
    /\ has[p][r] # None /\ ~InIput(p) /\ Fits(p, r, place)
    /\ Put(p, r, place) /\ UNCHANGED <<call, rest, marked>>

UnlocksIt(p, r) == IF LockedAt(pc[p], r) THEN Unlock(has[p][r]) ELSE lock' = lock

LEMMA PutFacts ==
    ASSUME InodeInv, NEW p \in Procs, NEW r \in {"ip", "dp", "old", "file"}, NEW place,
           GivesBack(p, r, place)
    PROVE  /\ pc' \in [Procs -> Places] /\ after' \in [Procs -> Places]
           /\ has' \in [Procs -> [Registers -> Slots \cup {None}]]
           /\ Still(p) /\ pc'[p] = "put" /\ after'[p] = place
           /\ has'[p] = [has[p] EXCEPT !["giving"] = has[p][r], ![r] = None]
           /\ \A q \in Procs : RegistersOf(q)'
           /\ \A s : Count(has', s) = Count(has, s)
<1>0. /\ has[p][r] # None /\ ~InIput(p) /\ Fits(p, r, place)
      /\ Put(p, r, place) /\ call' = call /\ rest' = rest /\ marked' = marked
  BY DEF GivesBack
<1>1. /\ pc \in [Procs -> Places] /\ after \in [Procs -> Places]
      /\ has \in [Procs -> [Registers -> Slots \cup {None}]] /\ \A q \in Procs : RegistersOf(q)
  BY DEF InodeInv, InodeShape
<1>2. /\ has' = [has EXCEPT ![p]["giving"] = has[p][r], ![p][r] = None]
      /\ after' = [after EXCEPT ![p] = place] /\ pc' = [pc EXCEPT ![p] = "put"]
  BY <1>0 DEF Put, Goto
<1>3. r \in Registers /\ "giving" \in Registers /\ r # "giving" /\ "put" \in Places /\ place \in Places
  BY <1>0 DEF Registers, Places, Fits
<1>4. /\ pc' \in [Procs -> Places] /\ after' \in [Procs -> Places]
      /\ pc'[p] = "put" /\ after'[p] = place
      /\ \A q \in Procs \ {p} : pc'[q] = pc[q] /\ after'[q] = after[q]
  BY <1>1, <1>2, <1>3
<1>5. /\ has' \in [Procs -> [Registers -> Slots \cup {None}]]
      /\ has'[p] = [has[p] EXCEPT !["giving"] = has[p][r], ![r] = None]
      /\ \A q \in Procs \ {p} : has'[q] = has[q]
  BY <1>1, <1>2, <1>3
<1>6. Still(p)
  BY <1>0, <1>4, <1>5 DEF Still
<1>7. /\ has'[p]["giving"] = has[p][r] /\ has'[p][r] = None
      /\ \A t \in Registers \ {"giving", r} : has'[p][t] = has[p][t]
  BY <1>1, <1>3, <1>5
<1>8. has[p]["giving"] = None
  BY <1>0, <1>1 DEF RegistersOf
<1>9. ASSUME NEW s PROVE Count(has', s) = Count(has, s)
  <2>1. Exchange(has, has', p, "giving", r)
    BY <1>5, <1>7, <1>8 DEF Exchange, SameBut
  <2>2. QED
    BY <1>3, <2>1, Exchanged
<1>10. RegistersOf(p)'
  <2>1. Place(p) = pc[p] /\ Place(p)' = place /\ InIput(p)'
    BY <1>0, <1>4 DEF Place, InIput, PutPlaces
  <2>2. /\ UsedAt(pc[p], "cwd") /\ UsedAt(place, "cwd") /\ {"ip", "dp", "cwd", "old", "file"} \subseteq Registers
    BY DEF UsedAt, Registers
  <2>3. RegistersOf(p) /\ call' = call /\ rest' = rest /\ marked' = marked
    BY <1>0, <1>1
  <2>4. \A t \in {"ip", "dp", "cwd"} : has'[p][t] # None <=> UsedAt(place, t)
    BY <1>0, <1>7, <2>1, <2>2, <2>3 DEF RegistersOf, Fits
  <2>5. /\ has'[p].old # None => call[p].op = "link" /\ place \in LinkPlaces
        /\ place \in LinkPlaces => has'[p].old # None
        /\ has'[p].file # None => call[p].op \notin {"open", "create"}
        /\ place \notin OnTheWay \cup {"marked", "new", "fill", "victim", "remove"}
        /\ place \notin {"parent", "dir", "marked"} /\ place \notin PutPlaces /\ marked[p] = None
    BY <1>0, <1>7, <2>1, <2>2, <2>3 DEF RegistersOf, Fits, OnTheWay
  <2>6. QED
    BY <1>0, <1>7, <2>1, <2>3, <2>4, <2>5 DEF RegistersOf
<1>11. QED
  BY <1>1, <1>4, <1>5, <1>6, <1>9, <1>10, RegistersStep

(* What is left to show of a step that ends in iunlockput or iput.         *)
LEMMA PutStep ==
    ASSUME InodeInv, NEW p \in Procs, NEW r \in {"ip", "dp", "old", "file"}, NEW place,
           GivesBack(p, r, place), UnlocksIt(p, r),
           UNCHANGED <<inum, ref, valid>>,
           dinode' \in [Inums -> [type : Types, nlink : Int]],
           dir' \in [Inums -> [Entries -> Inums \cup {None}]],
           core' \in [Slots -> [type : Types, nlink : Int]],
           OneEntry' /\ CacheAgrees'
    PROVE  InodeInv'
<1>1. /\ pc' \in [Procs -> Places] /\ after' \in [Procs -> Places]
      /\ has' \in [Procs -> [Registers -> Slots \cup {None}]]
      /\ Still(p) /\ pc'[p] = "put" /\ after'[p] = place
      /\ has'[p] = [has[p] EXCEPT !["giving"] = has[p][r], ![r] = None]
      /\ \A q \in Procs : RegistersOf(q)'
      /\ \A s : Count(has', s) = Count(has, s)
  BY PutFacts
<1>0. has[p][r] # None /\ ~InIput(p) /\ Fits(p, r, place) /\ UNCHANGED <<call, rest, marked>>
  BY DEF GivesBack
<1>2. InodeShape /\ PointersAgree /\ LocksAgree /\ RegistersOf(p) /\ r \in Registers
  BY DEF InodeInv, Registers
<1>3. lock' \in [Slots -> Procs \cup {Nobody}]
  BY <1>2 DEF InodeShape, Unlock, UnlocksIt
<1>4. InodeShape'
  BY <1>0, <1>1, <1>2, <1>3 DEF InodeShape
<1>5. PointersAgree'
  <2>1. \A s \in Slots : ref[s] = Count(has, s)
    BY <1>2 DEF PointersAgree, Pointers, Count, Spots
  <2>2. \A s \in Slots : ref'[s] = Count(has', s)
    BY <1>1, <2>1
  <2>3. QED
    BY <2>2 DEF PointersAgree, Pointers, Count, Spots
<1>6. /\ \A t \in Registers : Locks(p, t) <=> LockedAt(pc[p], t)
      /\ \A t \in Registers : Locks(p, t)' <=> LockedAt(place, t)
      /\ \A t \in Registers : LockedAt(pc[p], t) => t # "giving"
  <2>1. Place(p) = pc[p] /\ Place(p)' = place
    BY <1>0, <1>1 DEF Place, InIput, PutPlaces
  <2>2. QED
    BY <1>0, <1>1, <2>1 DEF Locks, InIput, PutPlaces, LockedAt
<1>7. \A t \in Registers \ {"giving", r} : has'[p][t] = has[p][t]
  BY <1>1, <1>2 DEF InodeShape
<1>8. LocksAgree'
  <2>1. CASE LockedAt(pc[p], r)
    <3>1. has[p][r] \in Slots /\ Locks(p, r) /\ lock' = [lock EXCEPT ![has[p][r]] = Nobody]
      BY <1>0, <1>2, <1>6, <2>1 DEF InodeShape, Unlock, UnlocksIt
    <3>2. /\ \A t \in Registers : Locks(p, t)' <=> (Locks(p, t) /\ t # r)
          /\ \A t \in Registers : Locks(p, t) /\ t # r => has'[p][t] = has[p][t]
      <4>1. \A t \in Registers : LockedAt(place, t) <=> (LockedAt(pc[p], t) /\ t # r)
        BY <1>0 DEF Fits
      <4>2. QED
        BY <1>6, <1>7, <4>1
    <3>3. \A s \in Slots : lock'[s] # Nobody => valid'[s]
      BY <1>2, <3>1 DEF LocksAgree, InodeShape
    <3>4. DropsLock(p, r)
      BY <3>1, <3>2, <3>3 DEF DropsLock
    <3>5. QED
      BY <1>1, <1>2, <3>4, LocksLess
  <2>2. CASE ~LockedAt(pc[p], r)
    <3>1. /\ \A t \in Registers : Locks(p, t)' <=> Locks(p, t)
          /\ \A t \in Registers : Locks(p, t) => has'[p][t] = has[p][t]
      <4>1. \A t \in Registers : LockedAt(place, t) <=> LockedAt(pc[p], t)
        BY <1>0, <2>2 DEF Fits
      <4>2. \A t \in Registers : LockedAt(pc[p], t) => t # r
        BY <2>2
      <4>3. QED
        BY <1>6, <1>7, <4>1, <4>2
    <3>2. \A s \in Slots : lock[s] # Nobody => valid'[s]
      BY <1>2 DEF LocksAgree
    <3>3. KeepsLocks(p)
      BY <2>2, <3>1, <3>2 DEF KeepsLocks, UnlocksIt
    <3>4. QED
      BY <1>1, <3>3, LocksSame
  <2>3. QED
    BY <2>1, <2>2
<1>9. QED
  BY <1>1, <1>4, <1>5, <1>8 DEF InodeInv

(* ... and if that is all there is to it, nothing.                         *)
LEMMA OnlyPut ==
    ASSUME InodeInv, NEW p \in Procs, NEW r \in {"ip", "dp", "old", "file"}, NEW place,
           GivesBack(p, r, place), UnlocksIt(p, r),
           UNCHANGED <<disk, icache>>
    PROVE  InodeInv'
<1>1. UNCHANGED <<dinode, dir, inum, ref, valid, core>> /\ InodeShape /\ pc[p] # "freed"
  BY DEF disk, icache, InodeInv, InIput, PutPlaces, GivesBack
<1>2. Still(p)
  BY PutFacts
<1>3. OneEntry' /\ CacheAgrees'
  BY <1>1, <1>2, CacheKept
<1>4. QED
  BY <1>1, <1>3, PutStep DEF InodeShape

-----------------------------------------------------------------------------
(* Where each call gives an inode back, as it is or with what it has       *)
(* written, and where it is then.                                          *)
Unwritten ==
    {<<"look", "ip", "user">>, <<"look", "ip", "undo">>, <<"made", "ip", "user">>,
     <<"use", "ip", "user">>, <<"exists", "dp", "undo">>, <<"linked", "old", "user">>,
     <<"dir", "dp", "user">>, <<"remove", "ip", "notempty">>, <<"notempty", "dp", "user">>,
     <<"user", "file", "user">>}

Written ==
    {<<"fill", "dp", "made">>, <<"dir", "dp", "linked">>,
     <<"remove", "dp", "removed">>, <<"removed", "ip", "user">>, <<"undone", "old", "user">>}

GivingBack == Unwritten \cup Written

(* link() has its first inode in hand until it gives that one back.        *)
OldStays(p, r, place) ==
    /\ has[p].old # None /\ r # "old" => place \in LinkPlaces
    /\ place \in LinkPlaces => has[p].old # None /\ r # "old"

LEMMA GivenBack ==
    ASSUME InodeInv, NEW p \in Procs, NEW r, NEW place,
           <<pc[p], r, place>> \in GivingBack, OldStays(p, r, place),
           r = "file" => has[p].file # None
    PROVE  /\ r \in {"ip", "dp", "old", "file"} /\ has[p][r] # None
           /\ ~InIput(p) /\ Fits(p, r, place)
<1>1. RegistersOf(p)
  BY DEF InodeInv
<1>2. r \in {"ip", "dp", "old", "file"} /\ ~InIput(p) /\ Place(p) = pc[p] /\ pc[p] \notin PutPlaces
  BY DEF GivingBack, Unwritten, Written, InIput, PutPlaces, Place
<1>3. place \in Places /\ place \notin PutPlaces
  BY DEF GivingBack, Unwritten, Written, Places, ToLock, PutPlaces
<1>4. place \notin OnTheWay \cup {"marked", "new", "fill", "victim", "remove"} /\ pc[p] # "marked"
  BY DEF GivingBack, Unwritten, Written, OnTheWay
<1>5. \A t \in {"ip", "dp"} : UsedAt(place, t) <=> UsedAt(pc[p], t) /\ t # r
  BY DEF GivingBack, Unwritten, Written, UsedAt
<1>6. \A t \in Registers : LockedAt(place, t) <=> LockedAt(pc[p], t) /\ t # r
  BY DEF GivingBack, Unwritten, Written, LockedAt
<1>7. /\ r \in {"ip", "dp"} => UsedAt(pc[p], r)
      /\ r = "old" => pc[p] \in LinkPlaces
  BY DEF GivingBack, Unwritten, Written, UsedAt, LinkPlaces
<1>8. has[p][r] # None
  BY <1>1, <1>2, <1>7 DEF RegistersOf
<1>9. QED
  BY <1>2, <1>3, <1>4, <1>5, <1>6, <1>8 DEF Fits, OldStays

(* Such a step: the lock goes first, if there is one.                      *)
GivingUp(p, r, place) ==
    /\ <<pc[p], r, place>> \in GivingBack /\ OldStays(p, r, place)
    /\ r = "file" => has[p].file # None
    /\ Put(p, r, place) /\ UnlocksIt(p, r) /\ UNCHANGED <<call, rest, marked>>

LEMMA GivenUp ==
    ASSUME InodeInv, NEW p \in Procs, NEW r, NEW place, GivingUp(p, r, place)
    PROVE  r \in {"ip", "dp", "old", "file"} /\ GivesBack(p, r, place) /\ UnlocksIt(p, r)
<1>1. /\ <<pc[p], r, place>> \in GivingBack /\ OldStays(p, r, place)
      /\ r = "file" => has[p].file # None
      /\ Put(p, r, place) /\ UnlocksIt(p, r) /\ UNCHANGED <<call, rest, marked>>
  BY DEF GivingUp
<1>2. /\ r \in {"ip", "dp", "old", "file"} /\ has[p][r] # None
      /\ ~InIput(p) /\ Fits(p, r, place)
  BY <1>1, GivenBack
<1>3. QED
  BY <1>1, <1>2 DEF GivesBack

GivesUp(p) ==
    /\ UNCHANGED <<disk, icache>>
    /\ \E r, place : GivingUp(p, r, place) /\ <<pc[p], r, place>> \in Unwritten

LEMMA GivesUpStep ==
    ASSUME InodeInv, NEW p \in Procs, GivesUp(p)
    PROVE  InodeInv'
<1>1. PICK r, place : GivingUp(p, r, place)
  BY DEF GivesUp
<1>2. UNCHANGED <<disk, icache>>
  BY DEF GivesUp
<1>3. QED
  BY <1>1, <1>2, GivenUp, OnlyPut

(* close().                                                                *)
LEMMA CloseStep ==
    ASSUME InodeInv, NEW p \in Procs, Close(p)
    PROVE  GivesUp(p)
<1>1. /\ pc[p] = "user" /\ has[p].file # None /\ Put(p, "file", "user")
      /\ UNCHANGED <<disk, icache, lock, call, rest, marked>> /\ RegistersOf(p)
  BY DEF Close, At, InodeInv
<1>2. ~LockedAt(pc[p], "file") /\ has[p].old = None
  BY <1>1 DEF LockedAt, RegistersOf, Place, InIput, PutPlaces, OnTheWay, LinkPlaces
<1>3. GivingUp(p, "file", "user")
  BY <1>1, <1>2 DEF GivingUp, GivingBack, Unwritten, OldStays, UnlocksIt, LinkPlaces
<1>4. QED
  BY <1>1, <1>3 DEF GivesUp, Unwritten

(* A look-up that ends at what is no directory, or at no name.             *)
LEMMA LookFails ==
    ASSUME InodeInv, NEW p \in Procs, At(p, "look"), Iunlockput(p, "ip", Failed(p)),
           UNCHANGED <<disk, icache, call, rest, marked>>
    PROVE  GivesUp(p)
<1>1. /\ pc[p] = "look" /\ Put(p, "ip", Failed(p)) /\ Unlock(has[p].ip)
      /\ Failed(p) \in {"undo", "user"} /\ (Failed(p) = "undo" <=> has[p].old # None)
  BY DEF At, Iunlockput, Failed
<1>2. LockedAt(pc[p], "ip")
  BY <1>1 DEF LockedAt
<1>3. GivingUp(p, "ip", Failed(p))
  BY <1>1, <1>2 DEF GivingUp, GivingBack, Unwritten, OldStays, UnlocksIt, LinkPlaces
<1>4. QED
  BY <1>1, <1>3 DEF GivesUp, Unwritten

(* The inode is of no use to the call.                                     *)
LEMMA GiveUpStep ==
    ASSUME InodeInv, NEW p \in Procs, pc[p] \in {"made", "use"}, GiveUp(p), UNCHANGED <<disk, icache, marked>>
    PROVE  GivesUp(p)
<1>1. /\ Put(p, "ip", "user") /\ Unlock(has[p].ip) /\ UNCHANGED <<call, rest, marked>> /\ RegistersOf(p)
  BY DEF GiveUp, Iunlockput, InodeInv
<1>2. LockedAt(pc[p], "ip") /\ has[p].old = None
  BY <1>1 DEF LockedAt, RegistersOf, Place, InIput, PutPlaces, OnTheWay, LinkPlaces
<1>3. GivingUp(p, "ip", "user")
  BY <1>1, <1>2 DEF GivingUp, GivingBack, Unwritten, OldStays, UnlocksIt, LinkPlaces
<1>4. QED
  BY <1>3 DEF GivesUp, Unwritten

(* The end of link(), for better or worse.                                 *)
LEMMA LinkEndsStep ==
    ASSUME InodeInv, NEW p \in Procs, LinkEnds(p)
    PROVE  GivesUp(p)
<1>1. UNCHANGED <<disk, icache, call, rest, marked>> /\ RegistersOf(p)
  BY DEF LinkEnds, InodeInv
<1>2. CASE At(p, "exists") /\ Iunlockput(p, "dp", "undo")
  <2>1. pc[p] = "exists" /\ Put(p, "dp", "undo") /\ Unlock(has[p].dp)
    BY <1>2 DEF At, Iunlockput
  <2>2. LockedAt(pc[p], "dp") /\ has[p].old # None
    BY <1>1, <2>1 DEF LockedAt, RegistersOf, Place, InIput, PutPlaces, LinkPlaces
  <2>3. GivingUp(p, "dp", "undo")
    BY <1>1, <2>1, <2>2 DEF GivingUp, GivingBack, Unwritten, OldStays, UnlocksIt, LinkPlaces
  <2>4. QED
    BY <1>1, <2>1, <2>3 DEF GivesUp, Unwritten
<1>3. CASE At(p, "linked") /\ Put(p, "old", "user") /\ UNCHANGED lock
  <2>1. pc[p] = "linked" /\ ~LockedAt(pc[p], "old")
    BY <1>3 DEF At, LockedAt
  <2>2. GivingUp(p, "old", "user")
    BY <1>1, <1>3, <2>1 DEF GivingUp, GivingBack, Unwritten, OldStays, UnlocksIt, LinkPlaces
  <2>3. QED
    BY <1>1, <2>1, <2>2 DEF GivesUp, Unwritten
<1>4. QED
  BY <1>2, <1>3 DEF LinkEnds

(* unlink() of a name that is not there, or "." or "..", ...               *)
LEMMA UnlinkRefusedStep ==
    ASSUME InodeInv, NEW p \in Procs, UnlinkRefused(p)
    PROVE  GivesUp(p)
<1>1. /\ pc[p] = "dir" /\ call[p].op = "unlink" /\ Put(p, "dp", "user") /\ Unlock(has[p].dp)
      /\ UNCHANGED <<disk, icache, call, rest, marked>> /\ RegistersOf(p)
  BY DEF UnlinkRefused, At, Iunlockput, InodeInv
<1>2. LockedAt(pc[p], "dp") /\ has[p].old = None
  BY <1>1 DEF LockedAt, RegistersOf
<1>3. GivingUp(p, "dp", "user")
  BY <1>1, <1>2 DEF GivingUp, GivingBack, Unwritten, OldStays, UnlocksIt, LinkPlaces
<1>4. QED
  BY <1>1, <1>3 DEF GivesUp, Unwritten

(* ... or of a directory with names in it.                                 *)
LEMMA RemoveFailsStep ==
    ASSUME InodeInv, NEW p \in Procs,
           \/ RemoveFails(p) /\ ~(core[has[p].ip].nlink < 1)
           \/ NotEmpty(p)
    PROVE  GivesUp(p)
<1>1. RegistersOf(p)
  BY DEF InodeInv
<1>2. CASE RemoveFails(p) /\ ~(core[has[p].ip].nlink < 1)
  <2>2. pc[p] = "remove" /\ Put(p, "ip", "notempty") /\ Unlock(has[p].ip)
        /\ UNCHANGED <<disk, icache, call, rest, marked>>
    BY <1>2 DEF RemoveFails, At, Iunlockput
  <2>3. LockedAt(pc[p], "ip") /\ has[p].old = None
    BY <1>1, <2>2 DEF LockedAt, RegistersOf, Place, InIput, PutPlaces, OnTheWay, LinkPlaces
  <2>4. GivingUp(p, "ip", "notempty")
    BY <2>2, <2>3 DEF GivingUp, GivingBack, Unwritten, OldStays, UnlocksIt, LinkPlaces
  <2>5. QED
    BY <2>2, <2>4 DEF GivesUp, Unwritten
<1>3. CASE NotEmpty(p)
  <2>1. pc[p] = "notempty" /\ Put(p, "dp", "user") /\ Unlock(has[p].dp)
        /\ UNCHANGED <<disk, icache, call, rest, marked>>
    BY <1>3 DEF NotEmpty, At, Iunlockput
  <2>2. LockedAt(pc[p], "dp") /\ has[p].old = None
    BY <1>1, <2>1 DEF LockedAt, RegistersOf, Place, InIput, PutPlaces, OnTheWay, LinkPlaces
  <2>3. GivingUp(p, "dp", "user")
    BY <2>1, <2>2 DEF GivingUp, GivingBack, Unwritten, OldStays, UnlocksIt, LinkPlaces
  <2>4. QED
    BY <2>1, <2>3 DEF GivesUp, Unwritten
<1>4. QED
  BY <1>2, <1>3

-----------------------------------------------------------------------------
(* Inodes written on the way: what goes to the disk is what is in the      *)
(* cache.  D has the entries that are written.                             *)
Writes(p, D) ==
    /\ D \subseteq Slots
    /\ \A s \in D : ref[s] > 0 /\ core'[s] = dinode'[inum[s]] /\ core'[s].type # "free"
    /\ \A s \in Slots \ D : core'[s] = core[s]
    /\ \A i \in Inums : i \notin {inum[s] : s \in D} => dinode'[i] = dinode[i]
    /\ UNCHANGED <<inum, ref, valid>>
    /\ dinode' \in [Inums -> [type : Types, nlink : Int]]
    /\ dir' \in [Inums -> [Entries -> Inums \cup {None}]]
    /\ core' \in [Slots -> [type : Types, nlink : Int]]

LEMMA WritesAndGivesUp ==
    ASSUME InodeInv, NEW p \in Procs, NEW r, NEW place, GivingUp(p, r, place),
           NEW D, Writes(p, D)
    PROVE  InodeInv'
<1>1. /\ D \in SUBSET Slots
      /\ \A s \in D : ref[s] > 0 
      /\ \A s \in D : core'[s] = dinode'[inum[s]] /\ core'[s].type # "free"
      /\ \A s \in Slots \ D : core'[s] = core[s]
      /\ \A i \in Inums : i \notin {inum[s] : s \in D} => dinode'[i] = dinode[i]
      /\ UNCHANGED <<inum, ref, valid>>
      /\ dinode' \in [Inums -> [type : Types, nlink : Int]]
      /\ dir' \in [Inums -> [Entries -> Inums \cup {None}]]
      /\ core' \in [Slots -> [type : Types, nlink : Int]]
  BY DEF Writes
<1>2. r \in {"ip", "dp", "old", "file"} /\ GivesBack(p, r, place) /\ UnlocksIt(p, r)
  BY GivenUp
<1>3. Still(p)
  BY <1>2, PutFacts
<1>4. pc[p] # "freed"
  BY <1>2 DEF GivesBack, InIput, PutPlaces
<1>5. \A s \in Slots : ref'[s] > 0 => ref[s] > 0
  BY <1>1
<1>6. Through(p, D)
  BY <1>1, <1>5 DEF Through
<1>7. OneEntry' /\ CacheAgrees'
  BY <1>3, <1>4, <1>6, CacheWrites
<1>8. QED
  BY <1>1, <1>2, <1>7, PutStep

(* What is locked and not being freed is as it is on the disk.             *)
LEMMA LockedAgrees ==
    ASSUME InodeInv, NEW p \in Procs, NEW r \in Registers, Locks(p, r), pc[p] # "freed"
    PROVE  /\ core[has[p][r]] = dinode[inum[has[p][r]]]
           /\ core[has[p][r]].type # "free"
<1> DEFINE s == has[p][r]
<1>1. s \in Slots /\ ref[s] > 0 /\ valid[s] /\ lock[s] = p
  BY LockedIsMine
<1>2. CacheAgrees
  BY DEF InodeInv
<1>3. ~ \E q \in Procs : pc[q] = "freed" /\ has[q].giving = s
  <2>1. SUFFICES ASSUME NEW q \in Procs, pc[q] = "freed", has[q].giving = s PROVE FALSE
    OBVIOUS
  <2>2. Locks(q, "giving") /\ "giving" \in Registers
    BY <2>1 DEF Locks, Registers
  <2>3. lock[s] = q
    BY <2>1, <2>2, LockedIsMine
  <2>4. QED
    BY <1>1, <2>1, <2>3
<1>4. QED
  BY <1>1, <1>2, <1>3 DEF CacheAgrees

(* nlink of one inode goes up or down.                                     *)
LEMMA Relinked ==
    ASSUME InodeInv, NEW p \in Procs, NEW r \in Registers, Locks(p, r), pc[p] # "freed",
           NEW n \in Int, Relink(has[p][r], n), UNCHANGED <<inum, ref, valid>>,
           dir' \in [Inums -> [Entries -> Inums \cup {None}]]
    PROVE  Writes(p, {has[p][r]})
<1> DEFINE s == has[p][r]
<1>1. /\ s \in Slots /\ ref[s] > 0 /\ valid[s] /\ inum[s] \in Inums /\ lock[s] = p
  BY LockedIsMine
<1>2. /\ core \in [Slots -> [type : Types, nlink : Int]]
      /\ dinode \in [Inums -> [type : Types, nlink : Int]] /\ CacheAgrees
  BY DEF InodeInv, InodeShape
<1>3. core[s].type # "free"
  BY LockedAgrees
<1> DEFINE node == [core[s] EXCEPT !.nlink = @ + n]
<1>4. node \in [type : Types, nlink : Int] /\ node.type # "free"
  BY <1>1, <1>2, <1>3
<1>5. core' = [core EXCEPT ![s] = node] /\ dinode' = [dinode EXCEPT ![inum[s]] = node]
  BY DEF Relink, Iupdate
<1> HIDE DEF node, s
<1>6. /\ core' \in [Slots -> [type : Types, nlink : Int]]
      /\ dinode' \in [Inums -> [type : Types, nlink : Int]]
      /\ core'[s] = node /\ dinode'[inum[s]] = node
      /\ \A t \in Slots \ {s} : core'[t] = core[t]
      /\ \A i \in Inums \ {inum[s]} : dinode'[i] = dinode[i]
  BY <1>1, <1>2, <1>4, <1>5
<1>7. QED
  BY <1>1, <1>4, <1>6 DEF Writes, s

(* unlink() lowers nlink when the directory is given back already, ...     *)
LEMMA RemovedStep ==
    ASSUME InodeInv, NEW p \in Procs, Removed(p)
    PROVE  InodeInv'
<1>1. /\ pc[p] = "removed" /\ Relink(has[p].ip, -1) /\ Put(p, "ip", "user") /\ Unlock(has[p].ip)
      /\ UNCHANGED <<dir, inum, ref, valid, call, rest, marked>>
      /\ dir \in [Inums -> [Entries -> Inums \cup {None}]] /\ RegistersOf(p)
  BY DEF Removed, At, Iunlockput, InodeInv, InodeShape
<1>2. LockedAt(pc[p], "ip") /\ Locks(p, "ip") /\ has[p].old = None
  BY <1>1 DEF LockedAt, Locks, RegistersOf, Place, InIput, PutPlaces, OnTheWay, LinkPlaces
<1>3. GivingUp(p, "ip", "user")
  BY <1>1, <1>2 DEF GivingUp, GivingBack, Unwritten, Written, OldStays, UnlocksIt, LinkPlaces
<1>4. -1 \in Int /\ "ip" \in Registers /\ pc[p] # "freed"
  BY <1>1 DEF Registers
<1>5. Writes(p, {has[p].ip})
  BY <1>1, <1>2, <1>4, Relinked
<1>6. QED
  BY <1>3, <1>5, WritesAndGivesUp

(* ... and link() when the new name cannot be had.                         *)
LEMMA LinkUndoneStep ==
    ASSUME InodeInv, NEW p \in Procs, LinkUndone(p)
    PROVE  InodeInv'
<1>1. /\ pc[p] = "undone" /\ Relink(has[p].old, -1) /\ Put(p, "old", "user") /\ Unlock(has[p].old)
      /\ UNCHANGED <<dir, inum, ref, valid, call, rest, marked>>
      /\ dir \in [Inums -> [Entries -> Inums \cup {None}]]
  BY DEF LinkUndone, At, Iunlockput, InodeInv, InodeShape
<1>2. LockedAt(pc[p], "old") /\ Locks(p, "old")
  BY <1>1 DEF LockedAt, Locks, Place, InIput, PutPlaces
<1>3. GivingUp(p, "old", "user")
  BY <1>1, <1>2 DEF GivingUp, GivingBack, Unwritten, Written, OldStays, UnlocksIt, LinkPlaces
<1>4. -1 \in Int /\ "old" \in Registers /\ pc[p] # "freed"
  BY <1>1 DEF Registers
<1>5. Writes(p, {has[p].old})
  BY <1>1, <1>2, <1>4, Relinked
<1>6. QED
  BY <1>3, <1>5, WritesAndGivesUp

(* A name goes into a locked directory or out of it.                       *)
LEMMA EntrySet ==
    ASSUME InodeInv, NEW p \in Procs, pc[p] \in {"dir", "fill", "remove"},
           NEW to \in Inums \cup {None}, NEW d0,
           d0 \in [Inums -> [Entries -> Inums \cup {None}]]
    PROVE  /\ has[p].dp \in Slots /\ inum[has[p].dp] \in Inums /\ ref[has[p].dp] > 0
           /\ [d0 EXCEPT ![inum[has[p].dp]][Head(rest[p])] = to]
                \in [Inums -> [Entries -> Inums \cup {None}]]
<1>1. Locks(p, "dp") /\ "dp" \in Registers
  BY DEF Locks, LockedAt, Place, InIput, PutPlaces, Registers
<1>2. has[p].dp \in Slots /\ inum[has[p].dp] \in Inums /\ ref[has[p].dp] > 0
  BY <1>1, LockedIsMine
<1> DEFINE d == inum[has[p].dp]
           n == Head(rest[p])
<1>3. [d0[d] EXCEPT ![n] = to] \in [Entries -> Inums \cup {None}]
  BY <1>2
<1>4. [d0 EXCEPT ![d] = [d0[d] EXCEPT ![n] = to]] \in [Inums -> [Entries -> Inums \cup {None}]]
  BY <1>2, <1>3
<1>5. QED
  BY <1>2, <1>4

(* link(): the new name.                                                   *)
LEMMA LinkStep ==
    ASSUME InodeInv, NEW p \in Procs, Link(p)
    PROVE  InodeInv'
<1>1. /\ pc[p] = "dir" /\ call[p].op = "link" /\ Put(p, "dp", "linked") /\ Unlock(has[p].dp)
      /\ dir' = [dir EXCEPT ![inum[has[p].dp]][Head(rest[p])] = inum[has[p].old]]
      /\ UNCHANGED <<dinode, icache, call, rest, marked>>
  BY DEF Link, At, Iunlockput
<1>2. /\ RegistersOf(p) /\ dir \in [Inums -> [Entries -> Inums \cup {None}]]
      /\ dinode \in [Inums -> [type : Types, nlink : Int]]
      /\ core \in [Slots -> [type : Types, nlink : Int]]
      /\ inum \in [Slots -> Inums \cup {None}] /\ has[p].old \in Slots \cup {None}
  BY DEF InodeInv, InodeShape, Registers
<1>3. LockedAt(pc[p], "dp")
  BY <1>1 DEF LockedAt
<1>4. Locks(p, "dp") /\ Place(p) = "dir" /\ has[p].old # None
  BY <1>1, <1>2, <1>3 DEF Locks, Place, InIput, PutPlaces, RegistersOf, WantsParent
<1>5. inum[has[p].old] \in Inums \cup {None}
  BY <1>2, <1>4
<1>6. dir' \in [Inums -> [Entries -> Inums \cup {None}]]
  BY <1>1, <1>2, <1>5, EntrySet
<1>7. GivingUp(p, "dp", "linked")
  BY <1>1, <1>3, <1>4 DEF GivingUp, GivingBack, Unwritten, Written, OldStays, UnlocksIt, LinkPlaces
<1>8. Writes(p, {})
  BY <1>1, <1>2, <1>6 DEF Writes, icache
<1>9. QED
  BY <1>7, <1>8, WritesAndGivesUp

(* unlink(): the entry goes, and if it was a directory its ".." too.       *)
LEMMA RemoveStep ==
    ASSUME InodeInv, NEW p \in Procs, Remove(p)
    PROVE  InodeInv'
<1>1. /\ pc[p] = "remove" /\ Put(p, "dp", "removed") /\ Unlock(has[p].dp)
      /\ dir' = [dir EXCEPT ![inum[has[p].dp]][Head(rest[p])] = None]
      /\ IF core[has[p].ip].type = "dir" THEN Relink(has[p].dp, -1) ELSE UNCHANGED <<core, dinode>>
      /\ UNCHANGED <<inum, ref, valid, call, rest, marked>>
  BY DEF Remove, At, Iunlockput
<1>2. /\ RegistersOf(p) /\ dir \in [Inums -> [Entries -> Inums \cup {None}]]
      /\ dinode \in [Inums -> [type : Types, nlink : Int]]
      /\ core \in [Slots -> [type : Types, nlink : Int]]
  BY DEF InodeInv, InodeShape
<1>3. LockedAt(pc[p], "dp") /\ Locks(p, "dp") /\ has[p].old = None
  BY <1>1, <1>2 DEF LockedAt, Locks, RegistersOf, Place, InIput, PutPlaces, OnTheWay, LinkPlaces
<1>4. -1 \in Int /\ "dp" \in Registers /\ pc[p] # "freed" /\ None \in Inums \cup {None}
  BY <1>1 DEF Registers
<1>5. dir' \in [Inums -> [Entries -> Inums \cup {None}]]
  BY <1>1, <1>2, <1>4, EntrySet
<1>6. GivingUp(p, "dp", "removed")
  BY <1>1, <1>3 DEF GivingUp, GivingBack, Unwritten, Written, OldStays, UnlocksIt, LinkPlaces
<1>7. CASE core[has[p].ip].type = "dir"
  <2>1. Relink(has[p].dp, -1)
    BY <1>1, <1>7
  <2>2. Writes(p, {has[p].dp})
    BY <1>1, <1>3, <1>4, <1>5, <2>1, Relinked
  <2>3. QED
    BY <1>6, <2>2, WritesAndGivesUp
<1>8. CASE core[has[p].ip].type # "dir"
  <2>1. Writes(p, {})
    BY <1>1, <1>2, <1>5, <1>8 DEF Writes
  <2>2. QED
    BY <1>6, <2>1, WritesAndGivesUp
<1>9. QED
  BY <1>7, <1>8

(* create(): the new inode and its directory are written.                  *)
LEMMA FillStep ==
    ASSUME InodeInv, NEW p \in Procs, Fill(p)
    PROVE  InodeInv'
<1> DEFINE s == has[p].ip
           d == has[p].dp
           more == IF Type(p) = "dir" THEN 1 ELSE 0
           dots == Dots(p, s, d)
<1>1. /\ pc[p] = "fill" /\ Put(p, "dp", "made") /\ Unlock(d)
      /\ core' = [core EXCEPT ![s].nlink = 1, ![d].nlink = @ + more]
      /\ dinode' = [dinode EXCEPT ![inum[s]] = core'[s], ![inum[d]] = core'[d]]
      /\ dir' = [dots EXCEPT ![inum[d]][Head(rest[p])] = inum[s]]
      /\ UNCHANGED <<inum, ref, valid, call, rest, marked>>
  BY DEF Fill, Named, At, Iunlockput
<1>2. /\ RegistersOf(p) /\ dir \in [Inums -> [Entries -> Inums \cup {None}]]
      /\ dinode \in [Inums -> [type : Types, nlink : Int]]
      /\ core \in [Slots -> [type : Types, nlink : Int]] /\ LocksAgree /\ OneEntry
  BY DEF InodeInv, InodeShape
<1>3. /\ LockedAt(pc[p], "dp") /\ Locks(p, "dp") /\ Locks(p, "ip") /\ has[p].old = None
      /\ pc[p] # "freed" /\ "dp" \in Registers /\ "ip" \in Registers
  BY <1>1, <1>2 DEF LockedAt, Locks, RegistersOf, Place, InIput, PutPlaces, OnTheWay, LinkPlaces, Registers
<1>4. /\ s \in Slots /\ ref[s] > 0 /\ inum[s] \in Inums /\ core[s].type # "free"
      /\ d \in Slots /\ ref[d] > 0 /\ inum[d] \in Inums /\ core[d].type # "free"
  BY <1>3, LockedIsMine, LockedAgrees
<1>5. s # d /\ inum[s] # inum[d]
  <2>1. s # d
    BY <1>2, <1>3 DEF LocksAgree
  <2>2. QED
    BY <1>2, <1>4, <2>1 DEF OneEntry
<1>6. dots \in [Inums -> [Entries -> Inums \cup {None}]]
  <2>1. [dir[inum[s]] EXCEPT !["."] = inum[s], ![".."] = inum[d]] \in [Entries -> Inums \cup {None}]
    BY <1>2, <1>4
  <2>2. QED
    BY <1>2, <1>4, <2>1 DEF Dots
<1>7. dir' \in [Inums -> [Entries -> Inums \cup {None}]]
  <2>1. inum[s] \in Inums \cup {None}
    BY <1>4
  <2> HIDE DEF dots
  <2>2. QED
    BY <1>1, <1>6, <2>1, EntrySet
<1>8. more \in Int
  OBVIOUS
<1> HIDE DEF s, d, more, dots
<1>9. PICK a, b : a = [core[s] EXCEPT !.nlink = 1] /\ b = [core[d] EXCEPT !.nlink = @ + more]
  OBVIOUS
<1>10. /\ a \in [type : Types, nlink : Int] /\ b \in [type : Types, nlink : Int]
       /\ a.type # "free" /\ b.type # "free"
  BY <1>2, <1>4, <1>8, <1>9
<1>11. core' = [core EXCEPT ![s] = a, ![d] = b]
  BY <1>1, <1>2, <1>4, <1>5, <1>9
<1>12. core'[s] = a /\ core'[d] = b /\ core' \in [Slots -> [type : Types, nlink : Int]]
       /\ \A t \in Slots \ {s, d} : core'[t] = core[t]
  BY <1>2, <1>4, <1>5, <1>10, <1>11
<1>13. /\ dinode'[inum[s]] = a /\ dinode'[inum[d]] = b
       /\ dinode' \in [Inums -> [type : Types, nlink : Int]]
       /\ \A i \in Inums \ {inum[s], inum[d]} : dinode'[i] = dinode[i]
  BY <1>1, <1>2, <1>4, <1>5, <1>10, <1>12
<1>14. Writes(p, {s, d})
  BY <1>1, <1>4, <1>7, <1>10, <1>12, <1>13 DEF Writes
<1>15. GivingUp(p, "dp", "made")
  BY <1>1, <1>3 DEF GivingUp, GivingBack, Unwritten, Written, OldStays, UnlocksIt, LinkPlaces, d
<1>16. QED
  BY <1>14, <1>15, WritesAndGivesUp

-----------------------------------------------------------------------------
(* The call goes on, or is over.                                           *)
LEMMA CallsTyped ==
    ASSUME InodeInv, NEW p \in Procs, UNCHANGED <<call, rest>> \/ Return(p)
    PROVE  /\ rest' \in [Procs -> Seq(Entries)]
           /\ call' \in [Procs -> AnyCall]
           /\ \A q \in Procs \ {p} : call'[q] = call[q] /\ rest'[q] = rest[q]
<1>1. /\ rest \in [Procs -> Seq(Entries)]
      /\ call \in [Procs -> AnyCall]
  BY DEF InodeInv, InodeShape
<1>2. /\ <<>> \in Seq(Entries)
      /\ NoCall \in AnyCall
  <2>1. <<>> \in Seq(Entries)
    OBVIOUS
  <2>2. NoCall \in AnyCall
    BY DEF AnyCall
  <2>3. QED
    BY <2>1, <2>2
<1>3. CASE UNCHANGED <<call, rest>>
  BY <1>1, <1>3
<1>4. CASE Return(p)
  <2>1. call' = [call EXCEPT ![p] = NoCall] /\ rest' = [rest EXCEPT ![p] = <<>>]
    BY <1>4 DEF Return
  <2>2. rest' \in [Procs -> Seq(Entries)] /\ \A q \in Procs \ {p} : rest'[q] = rest[q]
    BY <1>1, <1>2, <2>1
  <2>3. /\ call' \in [Procs -> AnyCall]
        /\ \A q \in Procs \ {p} : call'[q] = call[q]
    BY <1>1, <1>2, <2>1
  <2>4. QED
    BY <2>2, <2>3
<1>5. QED
  BY <1>3, <1>4

(* A pointer to an inode that is released goes from a register to another. *)
Moves(p, u, v, to) ==
    /\ ~InIput(p) /\ to \in Places /\ to \notin PutPlaces
    /\ has[p][v] = None /\ has' = [has EXCEPT ![p][v] = has[p][u], ![p][u] = None]
    /\ Goto(p, to) /\ after' = after
    /\ LockedAt(pc[p], u) /\ Unlock(has[p][u])
    /\ \A t \in Registers : LockedAt(to, t) <=> LockedAt(pc[p], t) /\ t # u
    /\ UNCHANGED <<call, rest>> \/ Return(p)
    /\ marked' = marked

LEMMA MovesStep ==
    ASSUME InodeInv, NEW p \in Procs, NEW u \in Registers \ {"giving"},
           NEW v \in Registers \ {"giving", u}, NEW to,
           Moves(p, u, v, to), NEW D, Writes(p, D), RegistersOf(p)'
    PROVE  InodeInv'
<1>1. /\ ~InIput(p) /\ to \in Places /\ to \notin PutPlaces
      /\ has[p][v] = None /\ has' = [has EXCEPT ![p][v] = has[p][u], ![p][u] = None]
      /\ pc' = [pc EXCEPT ![p] = to] /\ after' = after
      /\ LockedAt(pc[p], u) /\ lock' = [lock EXCEPT ![has[p][u]] = Nobody]
      /\ \A t \in Registers : LockedAt(to, t) <=> LockedAt(pc[p], t) /\ t # u
      /\ UNCHANGED <<call, rest>> \/ Return(p)
      /\ marked' = marked
  BY DEF Moves, Goto, Unlock
<1>2. /\ D \subseteq Slots
      /\ \A s \in D : ref[s] > 0 /\ core'[s] = dinode'[inum[s]] /\ core'[s].type # "free"
      /\ \A s \in Slots \ D : core'[s] = core[s]
      /\ \A i \in Inums : i \notin {inum[s] : s \in D} => dinode'[i] = dinode[i]
      /\ UNCHANGED <<inum, ref, valid>>
      /\ dinode' \in [Inums -> [type : Types, nlink : Int]]
      /\ dir' \in [Inums -> [Entries -> Inums \cup {None}]]
      /\ core' \in [Slots -> [type : Types, nlink : Int]]
  BY DEF Writes
<1>3. /\ InodeShape /\ LocksAgree /\ PointersAgree /\ \A q \in Procs : RegistersOf(q)
  BY DEF InodeInv
<1>4. /\ has \in [Procs -> [Registers -> Slots \cup {None}]] /\ pc \in [Procs -> Places]
      /\ lock \in [Slots -> Procs \cup {Nobody}]
  BY <1>3 DEF InodeShape
<1>5. /\ rest' \in [Procs -> Seq(Entries)]
      /\ call' \in [Procs -> AnyCall]
      /\ \A q \in Procs \ {p} : call'[q] = call[q] /\ rest'[q] = rest[q]
  BY <1>1, CallsTyped
<1>6. /\ has' \in [Procs -> [Registers -> Slots \cup {None}]] /\ pc' \in [Procs -> Places]
      /\ pc'[p] = to /\ has'[p][v] = has[p][u] /\ has'[p][u] = None
      /\ \A t \in Registers \ {u, v} : has'[p][t] = has[p][t]
      /\ \A q \in Procs \ {p} : has'[q] = has[q] /\ pc'[q] = pc[q]
  BY <1>1, <1>4
<1>7. Still(p)
  BY <1>1, <1>5, <1>6 DEF Still
<1>8. \A q \in Procs : RegistersOf(q)'
  BY <1>3, <1>7, RegistersStep
<1>9. lock' \in [Slots -> Procs \cup {Nobody}]
  BY <1>1, <1>4
<1>10. InodeShape'
  BY <1>1, <1>2, <1>3, <1>5, <1>6, <1>9 DEF InodeShape
<1>11. PointersAgree'
  <2>1. Exchange(has, has', p, v, u)
    BY <1>1, <1>6 DEF Exchange, SameBut
  <2>2. \A s \in Slots : Count(has', s) = Count(has, s)
    BY <2>1, Exchanged
  <2>3. \A s \in Slots : ref[s] = Count(has, s)
    BY <1>3 DEF PointersAgree, Pointers, Count, Spots
  <2>4. \A s \in Slots : ref'[s] = Count(has', s)
    BY <1>2, <2>2, <2>3
  <2>5. QED
    BY <2>4 DEF PointersAgree, Pointers, Count, Spots
<1>12. LocksAgree'
  <2>1. /\ \A t \in Registers : Locks(p, t) <=> LockedAt(pc[p], t)
        /\ \A t \in Registers : Locks(p, t)' <=> LockedAt(to, t)
    BY <1>1, <1>6 DEF Locks, Place, InIput, PutPlaces
  <2>2. Locks(p, u) /\ has[p][u] \in Slots
    BY <1>1, <2>1, LockedIsMine
  <2>3. \A t \in Registers : Locks(p, t)' <=> (Locks(p, t) /\ t # u)
    BY <1>1, <2>1
  <2>4. ~Locks(p, v)
    BY <1>1, <1>4, LockedIsMine, InodesAssumption
  <2>5. \A t \in Registers : Locks(p, t) /\ t # u => has'[p][t] = has[p][t]
    BY <1>6, <2>4
  <2>6. \A s \in Slots : lock'[s] # Nobody => valid'[s]
    BY <1>1, <1>2, <1>3, <1>4, <2>2 DEF LocksAgree
  <2>7. DropsLock(p, u)
    BY <1>1, <2>2, <2>3, <2>5, <2>6 DEF DropsLock
  <2>8. QED
    BY <1>7, <2>7, LocksLess
<1>13. OneEntry' /\ CacheAgrees'
  <2>1. Through(p, D)
    BY <1>2 DEF Through
  <2>2. pc[p] # "freed"
    BY <1>1 DEF InIput, PutPlaces
  <2>3. QED
    BY <1>7, <2>1, <2>2, CacheWrites
<1>14. QED
  BY <1>8, <1>10, <1>11, <1>12, <1>13 DEF InodeInv

(* The look-up has found the directory of its last name.                   *)
LEMMA LookParent ==
    ASSUME InodeInv, NEW p \in Procs, At(p, "look"), WantsParent(p), rest[p] # <<>>,
           Unlock(has[p].ip), Goto(p, "parent"),
           has' = [has EXCEPT ![p]["dp"] = has[p].ip, ![p]["ip"] = None],
           UNCHANGED <<disk, icache, call, rest, after, marked>>
    PROVE  InodeInv'
<1>1. /\ pc[p] = "look" /\ pc' = [pc EXCEPT ![p] = "parent"] /\ RegistersOf(p)
      /\ pc \in [Procs -> Places] /\ has \in [Procs -> [Registers -> Slots \cup {None}]]
  BY DEF At, Goto, InodeInv, InodeShape
<1>2. has[p].dp = None /\ has[p].ip # None
  BY <1>1 DEF RegistersOf, Place, InIput, PutPlaces, UsedAt
<1>3. "ip" \in Registers \ {"giving"} /\ "dp" \in Registers \ {"giving", "ip"}
  BY DEF Registers
<1>4. "parent" \in Places /\ ~InIput(p)
  BY <1>1 DEF Places, ToLock, InIput, PutPlaces
<1>5. LockedAt(pc[p], "ip") /\ \A t \in Registers : LockedAt("parent", t) <=> LockedAt(pc[p], t) /\ t # "ip"
  BY <1>1 DEF LockedAt
<1>6. Moves(p, "ip", "dp", "parent")
  BY <1>2, <1>4, <1>5 DEF Moves, PutPlaces
<1>7. RegistersOf(p)'
  <2>1. Place(p) = "look" /\ Place(p)' = "parent" /\ ~InIput(p)' /\ ~InIput(p)
    BY <1>1 DEF Place, InIput, PutPlaces
  <2>2. /\ has'[p].dp = has[p].ip /\ has'[p].ip = None /\ has'[p].cwd = has[p].cwd
        /\ has'[p].giving = has[p].giving /\ has'[p].old = has[p].old /\ has'[p].file = has[p].file
    BY <1>1 DEF Registers
  <2>3. WantsParent(p)'
    BY <2>2 DEF WantsParent
  <2>4. QED
    BY <1>1, <1>2, <2>1, <2>2, <2>3 DEF RegistersOf, UsedAt, OnTheWay, LinkPlaces, PutPlaces
<1>8. Writes(p, {})
  BY DEF InodeInv, InodeShape, Writes, disk, icache
<1>9. QED
  BY <1>3, <1>6, <1>7, <1>8, MovesStep

(* open() or create() has a descriptor for the inode.                      *)
LEMMA OpenFileStep ==
    ASSUME InodeInv, NEW p \in Procs, pc[p] \in {"made", "use"}, call[p].op \in {"open", "create"},
           OpenFile(p), UNCHANGED <<disk, icache, marked>>
    PROVE  InodeInv'
<1>1. /\ Unlock(has[p].ip) /\ Goto(p, "user") /\ Return(p) /\ after' = after
      /\ has' = [has EXCEPT ![p]["file"] = has[p].ip, ![p]["ip"] = None]
      /\ pc' = [pc EXCEPT ![p] = "user"] /\ RegistersOf(p)
      /\ pc \in [Procs -> Places] /\ has \in [Procs -> [Registers -> Slots \cup {None}]]
      /\ call' = [call EXCEPT ![p] = NoCall]
      /\ call \in [Procs -> AnyCall]
  BY DEF OpenFile, Goto, Return, InodeInv, InodeShape
<1>2. has[p].file = None /\ has[p].old = None
  BY <1>1 DEF RegistersOf
<1>3. "ip" \in Registers \ {"giving"} /\ "file" \in Registers \ {"giving", "ip"}
  BY DEF Registers
<1>4. "user" \in Places /\ ~InIput(p)
  BY DEF Places, InIput, PutPlaces
<1>5. LockedAt(pc[p], "ip") /\ \A t \in Registers : LockedAt("user", t) <=> LockedAt(pc[p], t) /\ t # "ip"
  BY DEF LockedAt
<1>6. Moves(p, "ip", "file", "user")
  BY <1>1, <1>2, <1>4, <1>5 DEF Moves, PutPlaces
<1>7. RegistersOf(p)'
  <2>1. Place(p) = pc[p] /\ Place(p)' = "user" /\ ~InIput(p)' /\ ~InIput(p)
    BY <1>1 DEF Place, InIput, PutPlaces
  <2>2. /\ has'[p].dp = has[p].dp /\ has'[p].ip = None /\ has'[p].cwd = has[p].cwd
        /\ has'[p].giving = has[p].giving /\ has'[p].old = has[p].old
    BY <1>1 DEF Registers
  <2>3. call'[p].op = "none"
    BY <1>1 DEF NoCall
  <2>4. QED
    BY <1>1, <1>2, <2>1, <2>2, <2>3 DEF RegistersOf, UsedAt, OnTheWay, LinkPlaces, PutPlaces
<1>8. Writes(p, {})
  BY DEF InodeInv, InodeShape, Writes, disk, icache
<1>9. QED
  BY <1>3, <1>6, <1>7, <1>8, MovesStep

(* link() has counted the link to come.                                    *)
LEMMA LinkOldStep ==
    ASSUME InodeInv, NEW p \in Procs, LinkOld(p)
    PROVE  InodeInv'
<1>1. /\ pc[p] = "use" /\ call[p].op = "link" /\ Relink(has[p].ip, 1)
      /\ Unlock(has[p].ip) /\ Goto(p, "second") /\ after' = after
      /\ has' = [has EXCEPT ![p]["old"] = has[p].ip, ![p]["ip"] = None]
      /\ pc' = [pc EXCEPT ![p] = "second"] /\ RegistersOf(p)
      /\ UNCHANGED <<dir, inum, ref, valid, call, rest, marked>>
      /\ pc \in [Procs -> Places] /\ has \in [Procs -> [Registers -> Slots \cup {None}]]
      /\ dir \in [Inums -> [Entries -> Inums \cup {None}]]
  BY DEF LinkOld, OneMoreLink, At, Goto, InodeInv, InodeShape
<1>2. has[p].old = None /\ has[p].ip # None
  BY <1>1 DEF RegistersOf, Place, InIput, PutPlaces, UsedAt, OnTheWay, LinkPlaces
<1>3. "ip" \in Registers \ {"giving"} /\ "old" \in Registers \ {"giving", "ip"}
  BY DEF Registers
<1>4. "second" \in Places /\ ~InIput(p) /\ pc[p] # "freed" /\ 1 \in Int
  BY <1>1 DEF Places, InIput, PutPlaces
<1>5. LockedAt(pc[p], "ip") /\ \A t \in Registers : LockedAt("second", t) <=> LockedAt(pc[p], t) /\ t # "ip"
  BY <1>1 DEF LockedAt
<1>6. Moves(p, "ip", "old", "second")
  BY <1>1, <1>2, <1>4, <1>5 DEF Moves, PutPlaces
<1>7. RegistersOf(p)'
  <2>1. Place(p) = "use" /\ Place(p)' = "second" /\ ~InIput(p)' /\ ~InIput(p)
    BY <1>1 DEF Place, InIput, PutPlaces
  <2>2. /\ has'[p].dp = has[p].dp /\ has'[p].ip = None /\ has'[p].cwd = has[p].cwd
        /\ has'[p].giving = has[p].giving /\ has'[p].old = has[p].ip /\ has'[p].file = has[p].file
    BY <1>1 DEF Registers
  <2>3. QED
    BY <1>1, <1>2, <2>1, <2>2 DEF RegistersOf, UsedAt, OnTheWay, LinkPlaces, PutPlaces
<1>8. Locks(p, "ip")
  BY <1>4, <1>5 DEF Locks, Place
<1>9. Writes(p, {has[p].ip})
  BY <1>1, <1>3, <1>4, <1>8, Relinked
<1>10. QED
  BY <1>3, <1>6, <1>7, <1>9, MovesStep

-----------------------------------------------------------------------------
(* A step of p that ends with one more pointer, to what iget returned.     *)
TypedStep ==
    /\ dinode' \in [Inums -> [type : Types, nlink : Int]]
    /\ dir' \in [Inums -> [Entries -> Inums \cup {None}]]
    /\ lock' \in [Slots -> Procs \cup {Nobody}]
    /\ pc' \in [Procs -> Places] /\ after' \in [Procs -> Places]
    /\ has' \in [Procs -> [Registers -> Slots \cup {None}]]
    /\ rest' \in [Procs -> Seq(Entries)] /\ call' \in [Procs -> AnyCall]
    /\ marked' \in [Procs -> Inums \cup {None}]

Gets(p, i, s) ==
    /\ Iget(i, s) /\ TypedStep /\ Still(p) /\ pc[p] # "freed" /\ RegistersOf(p)'
    /\ \A t \in Slots : Count(has', t) = Count(has, t) + IF t = s THEN 1 ELSE 0
    /\ \A j \in Inums : dinode[j].type # "free" => dinode'[j] = dinode[j]

LEMMA GetsStep ==
    ASSUME InodeInv, NEW p \in Procs, NEW i \in Inums, NEW s \in Slots, Gets(p, i, s), LocksAgree'
    PROVE  InodeInv'
<1>1. /\ Iget(i, s) /\ TypedStep /\ Still(p) /\ pc[p] # "freed" /\ RegistersOf(p)'
      /\ \A t \in Slots : Count(has', t) = Count(has, t) + IF t = s THEN 1 ELSE 0
      /\ \A j \in Inums : dinode[j].type # "free" => dinode'[j] = dinode[j]
  BY DEF Gets
<1>2. /\ ref' = [ref EXCEPT ![s] = ref[s] + 1] /\ ref' \in [Slots -> Nat]
      /\ inum' \in [Slots -> Inums \cup {None}] /\ valid' \in [Slots -> BOOLEAN]
      /\ core' = core /\ OneEntry'
  BY <1>1, IgetFacts
<1>3. InodeShape /\ PointersAgree /\ \A q \in Procs : RegistersOf(q)
  BY DEF InodeInv
<1>4. InodeShape'
  BY <1>1, <1>2, <1>3 DEF InodeShape, TypedStep
<1>5. \A q \in Procs : RegistersOf(q)'
  BY <1>1, <1>3, RegistersStep
<1>6. PointersAgree'
  <2>1. \A t \in Slots : ref[t] = Count(has, t)
    BY <1>3 DEF PointersAgree, Pointers, Count, Spots
  <2>2. ref \in [Slots -> Nat]
    BY <1>3 DEF InodeShape
  <2>3. \A t \in Slots : ref'[t] = ref[t] + IF t = s THEN 1 ELSE 0
    BY <1>2, <2>2
  <2>4. \A t \in Slots : ref'[t] = Count(has', t)
    BY <1>1, <2>1, <2>3
  <2>5. QED
    BY <2>4 DEF PointersAgree, Pointers, Count, Spots
<1>7. CacheAgrees'
  BY <1>1, CacheIget
<1>8. QED
  BY <1>2, <1>4, <1>5, <1>6, <1>7 DEF InodeInv

(* The pointer goes into a register that had none, and no lock is touched. *)
GetsInto(p, u, i, s) ==
    /\ has[p][u] = None /\ has' = [has EXCEPT ![p][u] = s] /\ lock' = lock
    /\ Iget(i, s) /\ TypedStep /\ Still(p) /\ ~InIput(p) /\ RegistersOf(p)'
    /\ \A j \in Inums : dinode[j].type # "free" => dinode'[j] = dinode[j]
    /\ \A t \in Registers : Locks(p, t)' <=> Locks(p, t)

LEMMA GetsIntoStep ==
    ASSUME InodeInv, NEW p \in Procs, NEW i \in Inums, NEW s \in Slots, NEW u \in Registers,
           GetsInto(p, u, i, s)
    PROVE  InodeInv'
<1>0. /\ has[p][u] = None /\ has' = [has EXCEPT ![p][u] = s] /\ lock' = lock
      /\ Iget(i, s) /\ TypedStep /\ Still(p) /\ ~InIput(p) /\ RegistersOf(p)'
      /\ \A j \in Inums : dinode[j].type # "free" => dinode'[j] = dinode[j]
      /\ \A t \in Registers : Locks(p, t)' <=> Locks(p, t)
  BY DEF GetsInto
<1>1. has \in [Procs -> [Registers -> Slots \cup {None}]]
  BY DEF InodeInv, InodeShape
<1>2. /\ has'[p][u] = s /\ \A t \in Registers \ {u} : has'[p][t] = has[p][t]
      /\ \A q \in Procs \ {p} : has'[q] = has[q]
  BY <1>0, <1>1
<1>3. \A t \in Slots : Count(has', t) = Count(has, t) + IF t = s THEN 1 ELSE 0
  <2>1. Add(has, has', p, u, s)
    BY <1>0, <1>2 DEF Add, SameBut
  <2>2. QED
    BY <2>1, Added
<1>4. LocksAgree'
  <2>1. ~Locks(p, u)
    BY <1>0, LockedIsMine, InodesAssumption
  <2>2. \A t \in Registers : Locks(p, t) => has'[p][t] = has[p][t]
    BY <1>2, <2>1
  <2>3. \A t \in Slots : lock'[t] # Nobody => valid'[t]
    BY <1>0, IgetFacts
  <2>4. KeepsLocks(p)
    BY <1>0, <2>2, <2>3 DEF KeepsLocks
  <2>5. QED
    BY <1>0, <2>4, LocksSame
<1>5. Gets(p, i, s)
  BY <1>0, <1>3 DEF Gets, InIput, PutPlaces
<1>6. QED
  BY <1>4, <1>5, GetsStep

(* The shape of what such a step does not touch.                           *)
LEMMA Shape ==
    ASSUME InodeInv
    PROVE  /\ dinode \in [Inums -> [type : Types, nlink : Int]]
           /\ dir \in [Inums -> [Entries -> Inums \cup {None}]]
           /\ inum \in [Slots -> Inums \cup {None}]
           /\ lock \in [Slots -> Procs \cup {Nobody}]
           /\ pc \in [Procs -> Places] /\ after \in [Procs -> Places]
           /\ has \in [Procs -> [Registers -> Slots \cup {None}]]
           /\ rest \in [Procs -> Seq(Entries)] /\ call \in [Procs -> AnyCall]
           /\ marked \in [Procs -> Inums \cup {None}]
           /\ \A p \in Procs : RegistersOf(p)
  BY DEF InodeInv, InodeShape

(* create() of a name that is not there: ialloc marks a free inode, which  *)
(* no valid copy is of, ...                                                *)
LEMMA MarkStep ==
    ASSUME InodeInv, NEW p \in Procs, Mark(p), FreeInums # {}
    PROVE  InodeInv'
<1>1. PICK i \in FreeInums :
          /\ dinode' = [dinode EXCEPT ![i] = Node(Type(p), 0)]
          /\ marked' = [marked EXCEPT ![p] = i]
          /\ Goto(p, "marked")
          /\ UNCHANGED <<dir, icache, lock, after, has, call, rest, panicked>>
  BY DEF Mark
<1>2. /\ pc[p] = "dir" /\ pc' = [pc EXCEPT ![p] = "marked"]
      /\ call[p].op \in {"create", "mkdir"}
      /\ i \in Inums /\ dinode[i].type = "free" /\ "marked" \in Places
      /\ UNCHANGED <<inum, ref, valid, core>>
  BY <1>1 DEF Mark, At, Goto, Makes, FreeInums, Places, icache
<1>3. /\ pc' \in [Procs -> Places] /\ pc'[p] = "marked"
      /\ marked' \in [Procs -> Inums \cup {None}] /\ marked'[p] = i
      /\ \A q \in Procs \ {p} : pc'[q] = pc[q] /\ marked'[q] = marked[q]
  BY <1>1, <1>2, Shape
<1>4. /\ dinode' \in [Inums -> [type : Types, nlink : Int]]
      /\ \A j \in Inums : dinode[j].type # "free" => dinode'[j] = dinode[j]
  <2>1. Node(Type(p), 0) \in [type : Types, nlink : Int]
    BY DEF Node, Type, Types
  <2>2. QED
    BY <1>1, <1>2, <2>1, Shape
<1>5. InodeShape' /\ Still(p)
  BY <1>1, <1>2, <1>3, <1>4 DEF InodeInv, InodeShape, Still
<1>6. Place(p) = "dir" /\ Place(p)' = "marked" /\ ~InIput(p)' /\ ~InIput(p)
  BY <1>2, <1>3 DEF Place, InIput, PutPlaces
<1>7. RegistersOf(p)'
  <2>1. RegistersOf(p) /\ has'[p] = has[p] /\ i # None
    BY <1>1, <1>2, Shape, InodesAssumption
  <2>2. has[p].ip = None /\ has[p].old = None /\ has[p].dp # None /\ has[p].cwd # None /\ rest[p] # <<>>
    BY <1>2, <1>6, <2>1 DEF RegistersOf, UsedAt, OnTheWay
  <2>3. QED
    BY <1>1, <1>3, <1>6, <2>1, <2>2 DEF RegistersOf, UsedAt, OnTheWay, LinkPlaces, PutPlaces
<1>8. KeepsLocks(p)
  <2>1. \A t \in Registers : Locks(p, t)' <=> Locks(p, t)
    BY <1>2, <1>3, <1>6 DEF Locks, LockedAt
  <2>2. \A s \in Slots : lock'[s] # Nobody => valid'[s]
    BY <1>1, <1>2 DEF InodeInv, LocksAgree
  <2>3. QED
    BY <1>1, <2>1, <2>2 DEF KeepsLocks
<1>9. LocksAgree'
  BY <1>5, <1>8, LocksSame
<1>10. PointersAgree' /\ OneEntry'
  BY <1>1, <1>2 DEF InodeInv, PointersAgree, Pointers, OneEntry
<1>11. CacheAgrees'
  <2>1. CacheAgrees
    BY DEF InodeInv
  <2>2. ASSUME NEW s \in Slots, ref[s] > 0, valid[s]
        PROVE  \/ core[s] = dinode'[inum[s]] /\ core[s].type # "free"
               \/ (\E q \in Procs : pc[q] = "freed" /\ has[q].giving = s)'
    <3>1. CASE core[s] = dinode[inum[s]] /\ core[s].type # "free"
      BY <1>4, <2>1, <2>2, <3>1 DEF CacheAgrees
    <3>2. CASE \E q \in Procs : pc[q] = "freed" /\ has[q].giving = s
      BY <1>2, <1>5, <3>2, FreedStays
    <3>3. QED
      BY <2>1, <2>2, <3>1, <3>2 DEF CacheAgrees
  <2>3. QED
    BY <1>2, <2>1, <2>2 DEF CacheAgrees
<1>12. \A q \in Procs : RegistersOf(q)'
  BY <1>5, <1>7, Shape, RegistersStep
<1>13. QED
  BY <1>5, <1>9, <1>10, <1>11, <1>12 DEF InodeInv

(* ... and iget makes a pointer to it.                                     *)
LEMMA CreateStep ==
    ASSUME InodeInv, NEW p \in Procs, NEW s \in Slots, Create(p, s)
    PROVE  InodeInv'
<1>1. /\ pc[p] = "marked" /\ Iget(marked[p], s) /\ has' = [has EXCEPT ![p]["ip"] = s]
      /\ marked' = [marked EXCEPT ![p] = None] /\ pc' = [pc EXCEPT ![p] = "new"]
      /\ UNCHANGED <<disk, lock, after, call, rest, panicked>>
      /\ "ip" \in Registers /\ "new" \in Places
  BY DEF Create, At, Goto, Registers, Places, ToLock
<1>2. Place(p) = "marked" /\ ~InIput(p)
  BY <1>1 DEF Place, InIput, PutPlaces
<1>3. /\ pc' \in [Procs -> Places] /\ pc'[p] = "new" /\ has' \in [Procs -> [Registers -> Slots \cup {None}]]
      /\ has'[p].ip = s /\ \A t \in Registers \ {"ip"} : has'[p][t] = has[p][t]
      /\ marked' \in [Procs -> Inums \cup {None}] /\ marked'[p] = None
      /\ \A q \in Procs \ {p} : pc'[q] = pc[q] /\ has'[q] = has[q] /\ marked'[q] = marked[q]
  BY <1>1, Shape
<1>4. RegistersOf(p) /\ s # None /\ marked[p] \in Inums
  <2>1. RegistersOf(p) /\ s # None /\ marked[p] \in Inums \cup {None}
    BY Shape, InodesAssumption
  <2>2. QED
    BY <1>2, <2>1 DEF RegistersOf
<1>5. TypedStep /\ Still(p)
  BY <1>1, <1>3, Shape DEF TypedStep, Still, disk
<1>6. Place(p)' = "new" /\ ~InIput(p)'
  BY <1>3 DEF Place, InIput, PutPlaces
<1>7. has[p].ip = None /\ RegistersOf(p)'
  <2>1. /\ has'[p].dp = has[p].dp /\ has'[p].cwd = has[p].cwd /\ has'[p].giving = has[p].giving
        /\ has'[p].old = has[p].old /\ has'[p].file = has[p].file
    BY <1>3 DEF Registers
  <2>2. has[p].ip = None /\ has[p].old = None /\ has[p].dp # None /\ has[p].cwd # None /\ rest[p] # <<>>
    BY <1>2, <1>4 DEF RegistersOf, UsedAt, OnTheWay, LinkPlaces
  <2>3. QED
    BY <1>1, <1>2, <1>3, <1>4, <1>6, <2>1, <2>2 DEF RegistersOf, UsedAt, OnTheWay, LinkPlaces, PutPlaces
<1>8. \A t \in Registers : Locks(p, t)' <=> Locks(p, t)
  BY <1>1, <1>2, <1>3, <1>6 DEF Locks, LockedAt
<1>9. GetsInto(p, "ip", marked[p], s)
  BY <1>1, <1>2, <1>5, <1>7, <1>8 DEF GetsInto, disk
<1>10. QED
  BY <1>1, <1>4, <1>9, GetsIntoStep

(* An entry's inode, and what to do with it.                               *)
LEMMA EntryInum ==
    ASSUME InodeInv, NEW p \in Procs, NEW r \in Registers, Locks(p, r), rest[p] # <<>>,
           Entry(p, r) # None
    PROVE  Entry(p, r) \in Inums
<1>1. inum[has[p][r]] \in Inums
  BY LockedIsMine
<1>2. Head(rest[p]) \in Entries
  BY Shape
<1>3. QED
  BY <1>1, <1>2, Shape DEF Entry

(* unlink() has the inode of the name.                                     *)
LEMMA UnlinkFindsStep ==
    ASSUME InodeInv, NEW p \in Procs, NEW s \in Slots, UnlinkFinds(p, s)
    PROVE  InodeInv'
<1>1. /\ pc[p] = "dir" /\ call[p].op = "unlink" /\ Entry(p, "dp") # None
      /\ Iget(Entry(p, "dp"), s) /\ has' = [has EXCEPT ![p]["ip"] = s]
      /\ pc' = [pc EXCEPT ![p] = "victim"] /\ UNCHANGED <<disk, lock, after, call, rest, marked, panicked>>
      /\ "ip" \in Registers /\ "dp" \in Registers /\ "victim" \in Places
  BY DEF UnlinkFinds, At, Goto, Registers, Places, ToLock
<1>2. RegistersOf(p) /\ s # None
  BY Shape, InodesAssumption
<1>3. /\ pc' \in [Procs -> Places] /\ pc'[p] = "victim" /\ has' \in [Procs -> [Registers -> Slots \cup {None}]]
      /\ has'[p].ip = s /\ \A t \in Registers \ {"ip"} : has'[p][t] = has[p][t]
      /\ \A q \in Procs \ {p} : pc'[q] = pc[q] /\ has'[q] = has[q]
  BY <1>1, Shape
<1>4. TypedStep /\ Still(p)
  BY <1>1, <1>3, Shape DEF TypedStep, Still, disk
<1>5. Place(p) = "dir" /\ Place(p)' = "victim" /\ ~InIput(p)' /\ ~InIput(p)
  BY <1>1, <1>3 DEF Place, InIput, PutPlaces
<1>6. /\ has[p].ip = None /\ has[p].old = None /\ has[p].dp # None /\ has[p].cwd # None /\ rest[p] # <<>>
  BY <1>1, <1>2, <1>5 DEF RegistersOf, UsedAt, OnTheWay
<1>7. RegistersOf(p)'
  <2>1. /\ has'[p].dp = has[p].dp /\ has'[p].cwd = has[p].cwd /\ has'[p].giving = has[p].giving
        /\ has'[p].old = has[p].old /\ has'[p].file = has[p].file
    BY <1>3 DEF Registers
  <2>2. QED
    BY <1>1, <1>2, <1>3, <1>5, <1>6, <2>1 DEF RegistersOf, UsedAt, OnTheWay, LinkPlaces, PutPlaces
<1>8. \A t \in Registers : Locks(p, t)' <=> Locks(p, t)
  BY <1>1, <1>3, <1>5 DEF Locks, LockedAt
<1>9. Entry(p, "dp") \in Inums
  <2>1. Locks(p, "dp")
    BY <1>1, <1>5 DEF Locks, LockedAt
  <2>2. QED
    BY <1>1, <1>6, <2>1, EntryInum
<1>10. GetsInto(p, "ip", Entry(p, "dp"), s)
  BY <1>1, <1>4, <1>5, <1>6, <1>7, <1>8 DEF GetsInto, disk
<1>11. QED
  BY <1>1, <1>9, <1>10, GetsIntoStep

(* link() has, and will give back, the inode of the name there is already. *)
LEMMA LinkExistsStep ==
    ASSUME InodeInv, NEW p \in Procs, NEW s \in Slots, LinkExists(p, s)
    PROVE  InodeInv'
<1>1. /\ pc[p] = "dir" /\ call[p].op = "link" /\ Entry(p, "dp") # None
      /\ Iget(Entry(p, "dp"), s) /\ has' = [has EXCEPT ![p]["giving"] = s]
      /\ pc' = [pc EXCEPT ![p] = "put"] /\ after' = [after EXCEPT ![p] = "exists"]
      /\ UNCHANGED <<disk, lock, call, rest, marked, panicked>>
      /\ "giving" \in Registers /\ "dp" \in Registers /\ {"put", "exists"} \subseteq Places
  BY DEF LinkExists, At, Goto, Registers, Places, ToLock
<1>2. RegistersOf(p) /\ s # None
  BY Shape, InodesAssumption
<1>3. /\ pc' \in [Procs -> Places] /\ pc'[p] = "put" /\ has' \in [Procs -> [Registers -> Slots \cup {None}]]
      /\ after' \in [Procs -> Places] /\ after'[p] = "exists"
      /\ has'[p].giving = s /\ \A t \in Registers \ {"giving"} : has'[p][t] = has[p][t]
      /\ \A q \in Procs \ {p} : pc'[q] = pc[q] /\ after'[q] = after[q] /\ has'[q] = has[q]
  BY <1>1, Shape
<1>4. TypedStep /\ Still(p)
  BY <1>1, <1>3, Shape DEF TypedStep, Still, disk
<1>5. Place(p) = "dir" /\ Place(p)' = "exists" /\ InIput(p)' /\ ~InIput(p)
  BY <1>1, <1>3 DEF Place, InIput, PutPlaces
<1>6. /\ has[p].ip = None /\ has[p].giving = None /\ has[p].old # None
      /\ has[p].dp # None /\ has[p].cwd # None
  BY <1>1, <1>2, <1>5 DEF RegistersOf, UsedAt, OnTheWay, WantsParent
<1>7. RegistersOf(p)'
  <2>1. /\ has'[p].dp = has[p].dp /\ has'[p].cwd = has[p].cwd /\ has'[p].ip = has[p].ip
        /\ has'[p].old = has[p].old /\ has'[p].file = has[p].file
    BY <1>3 DEF Registers
  <2>2. QED
    BY <1>1, <1>2, <1>3, <1>5, <1>6, <2>1 DEF RegistersOf, UsedAt, OnTheWay, LinkPlaces, PutPlaces
<1>8. \A t \in Registers : Locks(p, t)' <=> Locks(p, t)
  BY <1>1, <1>3, <1>5 DEF Locks, LockedAt
<1>9. Entry(p, "dp") \in Inums
  <2>1. Locks(p, "dp") /\ rest[p] # <<>>
    BY <1>1, <1>2, <1>5 DEF Locks, LockedAt, RegistersOf, OnTheWay
  <2>2. QED
    BY <1>1, <2>1, EntryInum
<1>10. GetsInto(p, "giving", Entry(p, "dp"), s)
  BY <1>1, <1>4, <1>5, <1>6, <1>7, <1>8 DEF GetsInto, disk
<1>11. QED
  BY <1>1, <1>9, <1>10, GetsIntoStep

(* The beginning of a look-up: what is left of the path is names.          *)
LEMMA NamesLeft ==
    ASSUME NEW path \in Seq(Entries \cup {"/"}), path # <<>> => Tail(path) \in Seq(Entries)
    PROVE  (IF Absolute(path) THEN Tail(path) ELSE path) \in Seq(Entries)
<1> USE DEF Absolute
<1>1. CASE path = <<>>
  <2>1. <<>> \in Seq(Entries)
    OBVIOUS
  <2>2. QED
    BY <1>1, <2>1
<1>2. CASE path # <<>> /\ Head(path) = "/"
  BY <1>2
<1>3. CASE path # <<>> /\ Head(path) # "/"
  <2>1. /\ path = [k \in 1..Len(path) |-> path[k]] /\ Len(path) \in Nat /\ Len(path) > 0
        /\ path[1] = Head(path) /\ \A k \in 1..Len(path) : path[k] \in Entries \cup {"/"}
    BY <1>3
  <2>2. Len(Tail(path)) = Len(path) - 1 /\ \A k \in 1..(Len(path) - 1) : Tail(path)[k] = path[k + 1]
    BY <1>3
  <2>3. \A k \in 1..(Len(path) - 1) : Tail(path)[k] \in Entries
    BY <1>3, <2>2
  <2>4. \A k \in 1..Len(path) : path[k] \in Entries
    <3>1. SUFFICES ASSUME NEW k \in 1..Len(path) PROVE path[k] \in Entries
      OBVIOUS
    <3>2. CASE k = 1
      BY <1>3, <2>1, <3>2
    <3>3. CASE k # 1
      <4>1. k - 1 \in 1..(Len(path) - 1) /\ (k - 1) + 1 = k
        BY <2>1, <3>3
      <4>2. QED
        BY <2>2, <2>3, <4>1
    <3>4. QED
      BY <3>2, <3>3
  <2>5. QED
    BY <1>3, <2>1, <2>4
<1>4. QED
  BY <1>1, <1>2, <1>3

(* The beginning of a call, or of link()'s second half.                    *)
Starts(p, path, parent) ==
    /\ pc[p] \in {"user", "second"} /\ Namex(p, path, parent)
    /\ path \in Seq(Entries \cup {"/"})
    /\ path # <<>> => Tail(path) \in Seq(Entries)
    /\ has[p].old # None => call'[p].op = "link" /\ parent
    /\ has[p].file # None => call'[p].op \notin {"open", "create"}
    /\ call' \in [Procs -> AnyCall] /\ \A q \in Procs \ {p} : call'[q] = call[q]

LEMMA NamexStep ==
    ASSUME InodeInv, NEW p \in Procs, NEW path, NEW parent, Starts(p, path, parent)
    PROVE  InodeInv'
<1> DEFINE absolute == Absolute(path)
           names == IF absolute THEN Tail(path) ELSE path
           giving == names = <<>> /\ parent
<1>1. /\ pc[p] \in {"user", "second"} /\ Namex(p, path, parent) /\ names \in Seq(Entries)
      /\ has[p].old # None => call'[p].op = "link" /\ parent
      /\ has[p].file # None => call'[p].op \notin {"open", "create"}
      /\ call' \in [Procs -> AnyCall] /\ \A q \in Procs \ {p} : call'[q] = call[q]
  BY NamesLeft DEF Starts
<1>2. PICK s \in Slots :
        /\ IF absolute THEN Iget(ROOTINO, s)
           ELSE s = has[p].cwd /\ ref' = [ref EXCEPT ![s] = @ + 1] /\ UNCHANGED <<inum, valid, core>>
        /\ rest' = [rest EXCEPT ![p] = names]
        /\ IF giving
           THEN /\ has' = [has EXCEPT ![p]["giving"] = s]
                /\ after' = [after EXCEPT ![p] = Failed(p)]
                /\ Goto(p, "put")
           ELSE /\ has' = [has EXCEPT ![p]["ip"] = s]
                /\ Goto(p, IF names = <<>> THEN "got" ELSE "walk")
                /\ UNCHANGED after
        /\ UNCHANGED <<disk, lock, marked, panicked>>
  BY <1>1 DEF Namex
<1> HIDE DEF absolute, names, giving
<1>3. PICK i \in Inums : Iget(i, s)
  <2>1. CASE absolute
    BY <1>2, <2>1, InodesAssumption
  <2>2. CASE ~absolute
    <3>1. has[p].cwd # None /\ "cwd" \in Registers
      BY <1>2, <2>2, InodesAssumption DEF Registers
    <3>2. ref[s] > 0 /\ inum[s] \in Inums
      BY <1>2, <2>2, <3>1, PointerInUse
    <3>3. Iget(inum[s], s)
      BY <1>2, <2>2, <3>2 DEF Iget, Cached
    <3>4. QED
      BY <3>2, <3>3
  <2>3. QED
    BY <2>1, <2>2
<1>4. /\ Place(p) = pc[p] /\ ~InIput(p) /\ RegistersOf(p) /\ s # None
      /\ "ip" \in Registers /\ "giving" \in Registers
      /\ {"put", "got", "walk", "user", "undo"} \subseteq Places
  BY <1>1, Shape, InodesAssumption DEF Place, InIput, PutPlaces, Registers, Places, ToLock
<1>5. /\ has[p].ip = None /\ has[p].dp = None /\ has[p].giving = None /\ has[p].cwd # None
      /\ pc[p] = "second" <=> has[p].old # None
  BY <1>1, <1>4 DEF RegistersOf, UsedAt, OnTheWay, LinkPlaces, PutPlaces
<1>6. /\ rest' \in [Procs -> Seq(Entries)] /\ rest'[p] = names
      /\ \A q \in Procs \ {p} : rest'[q] = rest[q]
  BY <1>1, <1>2, Shape
<1>7. \A j \in Inums : dinode[j].type # "free" => dinode'[j] = dinode[j]
  BY <1>2 DEF disk
<1>8. CASE giving
  <2>1. /\ has' = [has EXCEPT ![p]["giving"] = s] /\ after' = [after EXCEPT ![p] = Failed(p)]
        /\ pc' = [pc EXCEPT ![p] = "put"] /\ UNCHANGED <<disk, lock, marked, panicked>>
    BY <1>2, <1>8 DEF Goto
  <2>2. Failed(p) \in {"user", "undo"} /\ (Failed(p) = "undo" <=> has[p].old # None)
    BY DEF Failed
  <2>3. /\ pc' \in [Procs -> Places] /\ pc'[p] = "put" /\ has' \in [Procs -> [Registers -> Slots \cup {None}]]
        /\ after' \in [Procs -> Places] /\ after'[p] = Failed(p)
        /\ has'[p].giving = s /\ \A t \in Registers \ {"giving"} : has'[p][t] = has[p][t]
        /\ \A q \in Procs \ {p} : pc'[q] = pc[q] /\ after'[q] = after[q] /\ has'[q] = has[q]
    BY <1>4, <2>1, <2>2, Shape
  <2>4. TypedStep /\ Still(p)
    BY <1>1, <1>6, <2>1, <2>3, Shape DEF TypedStep, Still, disk
  <2>5. Place(p)' = Failed(p) /\ InIput(p)'
    BY <2>3 DEF Place, InIput, PutPlaces
  <2>6. RegistersOf(p)'
    <3>1. /\ has'[p].dp = has[p].dp /\ has'[p].cwd = has[p].cwd /\ has'[p].ip = has[p].ip
          /\ has'[p].old = has[p].old /\ has'[p].file = has[p].file
      BY <2>3 DEF Registers
    <3>2. QED
      BY <1>1, <1>4, <1>5, <2>1, <2>2, <2>3, <2>5, <3>1 DEF RegistersOf, UsedAt, OnTheWay, LinkPlaces, PutPlaces
  <2>7. \A t \in Registers : Locks(p, t)' <=> Locks(p, t)
    BY <1>1, <1>4, <2>2, <2>3, <2>5 DEF Locks, LockedAt
  <2>8. GetsInto(p, "giving", i, s)
    BY <1>3, <1>4, <1>5, <1>7, <2>1, <2>4, <2>6, <2>7 DEF GetsInto
  <2>9. QED
    BY <1>4, <2>8, GetsIntoStep
<1>9. CASE ~giving
  <2>1. PICK to : to = IF names = <<>> THEN "got" ELSE "walk"
    OBVIOUS
  <2>2. /\ has' = [has EXCEPT ![p]["ip"] = s] /\ after' = after
        /\ pc' = [pc EXCEPT ![p] = to] /\ UNCHANGED <<disk, lock, marked, panicked>>
    BY <1>2, <1>9, <2>1 DEF Goto
  <2>3. /\ to \in {"got", "walk"}
        /\ to = "got" => ~parent
        /\ to = "walk" => names # <<>>
    BY <1>9, <2>1 DEF giving
  <2>4. /\ pc' \in [Procs -> Places] /\ pc'[p] = to /\ has' \in [Procs -> [Registers -> Slots \cup {None}]]
        /\ has'[p].ip = s /\ \A t \in Registers \ {"ip"} : has'[p][t] = has[p][t]
        /\ \A q \in Procs \ {p} : pc'[q] = pc[q] /\ has'[q] = has[q]
    BY <1>4, <2>2, <2>3, Shape
  <2>5. TypedStep /\ Still(p)
    BY <1>1, <1>6, <2>2, <2>4, Shape DEF TypedStep, Still, disk
  <2>6. Place(p)' = to /\ ~InIput(p)'
    BY <2>3, <2>4 DEF Place, InIput, PutPlaces
  <2>7. RegistersOf(p)'
    <3>1. /\ has'[p].dp = has[p].dp /\ has'[p].cwd = has[p].cwd /\ has'[p].giving = has[p].giving
          /\ has'[p].old = has[p].old /\ has'[p].file = has[p].file
      BY <2>4 DEF Registers
    <3>2. QED
      BY <1>1, <1>4, <1>5, <1>6, <2>2, <2>3, <2>4, <2>6, <3>1 DEF RegistersOf, UsedAt, OnTheWay, LinkPlaces, PutPlaces
  <2>8. \A t \in Registers : Locks(p, t)' <=> Locks(p, t)
    BY <1>1, <1>4, <2>3, <2>4, <2>6 DEF Locks, LockedAt
  <2>9. GetsInto(p, "ip", i, s)
    BY <1>3, <1>4, <1>5, <1>7, <2>2, <2>5, <2>7, <2>8 DEF GetsInto
  <2>10. QED
    BY <1>4, <2>9, GetsIntoStep
<1>10. QED
  BY <1>8, <1>9

(* A system call with a path.                                              *)
LEMMA CallStep ==
    ASSUME InodeInv, NEW p \in Procs, NEW c \in Calls[p], Call(p, c)
    PROVE  InodeInv'
<1>1. /\ pc[p] = "user" /\ call' = [call EXCEPT ![p] = c] /\ RegistersOf(p)
      /\ c.op \in {"open", "create"} => has[p].file = None
      /\ Namex(p, c.path, c.op \in {"create", "mkdir", "unlink"})
  BY Shape DEF Call, Callable, At
<1>2. /\ c.path \in Seq(Entries \cup {"/"})
      /\ c.path # <<>> => Tail(c.path) \in Seq(Entries)
  BY InodesAssumption
<1>3. call' \in [Procs -> AnyCall] /\ call'[p] = c /\ \A q \in Procs \ {p} : call'[q] = call[q]
  <2>1. c \in AnyCall
    BY DEF AnyCall
  <2>2. QED
    BY <1>1, <2>1, Shape
<1>4. has[p].old = None
  BY <1>1 DEF RegistersOf, Place, InIput, PutPlaces, OnTheWay, LinkPlaces
<1>5. Starts(p, c.path, c.op \in {"create", "mkdir", "unlink"})
  BY <1>1, <1>2, <1>3, <1>4 DEF Starts
<1>6. QED
  BY <1>5, NamexStep

(* link() looks up the second path.                                        *)
LEMMA LinkNewStep ==
    ASSUME InodeInv, NEW p \in Procs, LinkNew(p)
    PROVE  InodeInv'
<1>1. /\ pc[p] = "second" /\ call' = call /\ RegistersOf(p) /\ Namex(p, call[p].second, TRUE)
      /\ call \in [Procs -> AnyCall]
  BY Shape DEF LinkNew, At
<1>2. /\ call[p].second \in Seq(Entries \cup {"/"})
      /\ call[p].second # <<>> => Tail(call[p].second) \in Seq(Entries)
  <2>1. CASE call[p] = NoCall
    <3>1. call[p].second = <<>> /\ <<>> \in Seq(Entries \cup {"/"})
      BY <2>1 DEF NoCall
    <3>2. QED
      BY <3>1
  <2>2. CASE call[p] # NoCall
    <3>1. PICK q \in Procs : call[p] \in Calls[q]
      BY <1>1, <2>2 DEF AnyCall
    <3>2. QED
      BY <3>1, InodesAssumption
  <2>3. QED
    BY <2>1, <2>2
<1>3. /\ has[p].old # None => call'[p].op = "link"
      /\ has[p].file # None => call'[p].op \notin {"open", "create"}
  BY <1>1 DEF RegistersOf
<1>4. Starts(p, call[p].second, TRUE)
  BY <1>1, <1>2, <1>3 DEF Starts
<1>5. QED
  BY <1>4, NamexStep

(* A directory is given back for the inode of one of its names.            *)
HandsOver(p, u, i, s, to) ==
    /\ LockedAt(pc[p], u) /\ ~InIput(p) /\ has[p].giving = None
    /\ u = "ip" \/ has[p].ip = None
    /\ has'[p].giving = has[p][u] /\ has'[p].ip = s
    /\ u = "ip" \/ has'[p][u] = None
    /\ SameBut(has, has', p, {"giving", "ip", u})
    /\ pc'[p] = "put" /\ after'[p] = to /\ \A t \in Registers : ~LockedAt(to, t)
    /\ \A t \in Registers : LockedAt(pc[p], t) => t = u
    /\ Iget(i, s) /\ Unlock(has[p][u]) /\ dinode' = dinode
    /\ TypedStep /\ Still(p) /\ RegistersOf(p)'

LEMMA HandsOverStep ==
    ASSUME InodeInv, NEW p \in Procs, NEW u \in {"ip", "dp"}, NEW i \in Inums, NEW s \in Slots,
           NEW to, HandsOver(p, u, i, s, to)
    PROVE  InodeInv'
<1>1. /\ LockedAt(pc[p], u) /\ ~InIput(p) /\ has[p].giving = None
      /\ u = "ip" \/ has[p].ip = None
      /\ has'[p].giving = has[p][u] /\ has'[p].ip = s
      /\ u = "ip" \/ has'[p][u] = None
      /\ \A t \in Registers \ {"giving", "ip", u} : has'[p][t] = has[p][t]
      /\ \A q \in Procs \ {p} : has'[q] = has[q]
      /\ pc'[p] = "put" /\ after'[p] = to /\ \A t \in Registers : ~LockedAt(to, t)
      /\ \A t \in Registers : LockedAt(pc[p], t) => t = u
      /\ Iget(i, s) /\ lock' = [lock EXCEPT ![has[p][u]] = Nobody] /\ dinode' = dinode
      /\ TypedStep /\ Still(p) /\ RegistersOf(p)'
  BY DEF HandsOver, SameBut, Unlock
<1>2. u \in Registers /\ "giving" \in Registers /\ "ip" \in Registers /\ u # "giving"
  BY DEF Registers
<1>3. \A t \in Slots : Count(has', t) = Count(has, t) + IF t = s THEN 1 ELSE 0
  <2>1. PICK h : h = [has EXCEPT ![p]["giving"] = has[p][u], ![p][u] = None]
    OBVIOUS
  <2>2. /\ h[p].giving = has[p][u] /\ h[p][u] = None
        /\ \A t \in Registers \ {"giving", u} : h[p][t] = has[p][t]
        /\ \A q \in Procs \ {p} : h[q] = has[q]
    BY <1>2, <2>1, Shape
  <2>3. Exchange(has, h, p, "giving", u)
    BY <1>1, <2>2 DEF Exchange, SameBut
  <2>4. h[p].ip = None
    BY <1>1, <1>2, <2>2
  <2>5. Add(h, has', p, "ip", s)
    BY <1>1, <1>2, <2>2, <2>4 DEF Add, SameBut
  <2>6. \A t \in Slots : Count(h, t) = Count(has, t)
    BY <1>2, <2>3, Exchanged
  <2>7. \A t \in Slots : Count(has', t) = Count(h, t) + IF t = s THEN 1 ELSE 0
    BY <1>2, <2>5, Added
  <2>8. QED
    BY <2>6, <2>7
<1>4. LocksAgree'
  <2>1. /\ \A t \in Registers : Locks(p, t) <=> t = u
        /\ \A t \in Registers : Locks(p, t)' <=> FALSE
    BY <1>1 DEF Locks, Place, InIput, PutPlaces
  <2>2. Locks(p, u) /\ has[p][u] \in Slots
    BY <1>2, <2>1, LockedIsMine
  <2>3. /\ \A t \in Registers : Locks(p, t)' <=> (Locks(p, t) /\ t # u)
        /\ \A t \in Registers : Locks(p, t) /\ t # u => has'[p][t] = has[p][t]
    BY <2>1
  <2>4. \A t \in Slots : lock'[t] # Nobody => valid'[t]
    <3>1. \A t \in Slots : lock[t] # Nobody => valid'[t]
      BY <1>1, IgetFacts
    <3>2. QED
      BY <1>1, <3>1, Shape
  <2>5. DropsLock(p, u)
    BY <1>1, <2>2, <2>3, <2>4 DEF DropsLock
  <2>6. QED
    BY <1>1, <1>2, <2>5, LocksLess
<1>5. Gets(p, i, s)
  BY <1>1, <1>3 DEF Gets, InIput, PutPlaces
<1>6. QED
  BY <1>4, <1>5, GetsStep

(* What is left after the first name.                                      *)
LEMMA TailLeft ==
    ASSUME NEW path \in Seq(Entries), path # <<>>
    PROVE  Tail(path) \in Seq(Entries) /\ (Len(path) # 1 => Tail(path) # <<>>)
<1>1. Tail(path) \in Seq(Entries) /\ Len(Tail(path)) = Len(path) - 1 /\ Len(path) \in Nat
  OBVIOUS
<1>2. Len(<<>>) = 0
  OBVIOUS
<1>3. Len(path) # 1 => Len(path) - 1 # 0
  BY <1>1
<1>4. QED
  BY <1>1, <1>2, <1>3

(* A step of a look-up.                                                    *)
LEMMA LookFindsStep ==
    ASSUME InodeInv, NEW p \in Procs, NEW s \in Slots, LookFinds(p, s)
    PROVE  InodeInv'
<1>1. PICK to : to = IF Len(rest[p]) = 1 THEN "got" ELSE "walk"
  OBVIOUS
<1>2. /\ pc[p] = "look" /\ ~(WantsParent(p) /\ Len(rest[p]) = 1)
      /\ Entry(p, "ip") # None /\ Iget(Entry(p, "ip"), s)
      /\ has' = [has EXCEPT ![p]["giving"] = has[p].ip, ![p]["ip"] = s]
      /\ Unlock(has[p].ip) /\ rest' = [rest EXCEPT ![p] = Tail(rest[p])]
      /\ after' = [after EXCEPT ![p] = to] /\ pc' = [pc EXCEPT ![p] = "put"]
      /\ UNCHANGED <<disk, call, marked>>
  BY <1>1 DEF LookFinds, At, AtParent, Goto
<1>3. /\ RegistersOf(p) /\ s # None /\ Place(p) = "look" /\ ~InIput(p)
      /\ "ip" \in Registers /\ "giving" \in Registers /\ {"put", "got", "walk"} \subseteq Places
  BY <1>2, Shape, InodesAssumption DEF Place, InIput, PutPlaces, Registers, Places, ToLock
<1>4. /\ has[p].ip # None /\ has[p].dp = None /\ has[p].giving = None /\ has[p].cwd # None
      /\ rest[p] # <<>> /\ (has[p].old # None => call[p].op = "link")
  BY <1>3 DEF RegistersOf, UsedAt, OnTheWay
<1>5. /\ to \in {"got", "walk"}
      /\ to = "walk" => Tail(rest[p]) # <<>>
      /\ to = "got" => has[p].old = None
      /\ Tail(rest[p]) \in Seq(Entries)
  <2>1. rest[p] \in Seq(Entries)
    BY Shape
  <2>2. Tail(rest[p]) \in Seq(Entries) /\ (Len(rest[p]) # 1 => Tail(rest[p]) # <<>>)
    BY <1>4, <2>1, TailLeft
  <2>3. QED
    BY <1>1, <1>2, <1>4, <2>2 DEF WantsParent
<1>6. /\ pc' \in [Procs -> Places] /\ pc'[p] = "put" /\ has' \in [Procs -> [Registers -> Slots \cup {None}]]
      /\ after' \in [Procs -> Places] /\ after'[p] = to
      /\ has'[p].giving = has[p].ip /\ has'[p].ip = s
      /\ \A t \in Registers \ {"giving", "ip"} : has'[p][t] = has[p][t]
      /\ \A q \in Procs \ {p} : pc'[q] = pc[q] /\ after'[q] = after[q] /\ has'[q] = has[q]
  BY <1>2, <1>3, <1>5, Shape
<1>7. /\ rest' \in [Procs -> Seq(Entries)] /\ rest'[p] = Tail(rest[p])
      /\ \A q \in Procs \ {p} : rest'[q] = rest[q]
  BY <1>2, <1>5, Shape
<1>8. lock' \in [Slots -> Procs \cup {Nobody}]
  BY <1>2, Shape DEF Unlock
<1>9. TypedStep /\ Still(p)
  BY <1>2, <1>6, <1>7, <1>8, Shape DEF TypedStep, Still, disk
<1>10. Place(p)' = to /\ InIput(p)'
  BY <1>6 DEF Place, InIput, PutPlaces
<1>11. RegistersOf(p)'
  <2>1. /\ has'[p].dp = has[p].dp /\ has'[p].cwd = has[p].cwd
        /\ has'[p].old = has[p].old /\ has'[p].file = has[p].file
    BY <1>6 DEF Registers
  <2>2. QED
    BY <1>2, <1>3, <1>4, <1>5, <1>6, <1>7, <1>10, <2>1 DEF RegistersOf, UsedAt, OnTheWay, LinkPlaces, PutPlaces
<1>12. /\ LockedAt(pc[p], "ip") /\ \A t \in Registers : ~LockedAt(to, t)
       /\ \A t \in Registers : LockedAt(pc[p], t) => t = "ip"
  BY <1>2, <1>5 DEF LockedAt
<1>13. Entry(p, "ip") \in Inums
  <2>1. Locks(p, "ip")
    BY <1>3, <1>2, <1>12 DEF Locks
  <2>2. QED
    BY <1>2, <1>3, <1>4, <2>1, EntryInum
<1>14. HandsOver(p, "ip", Entry(p, "ip"), s, to)
  BY <1>2, <1>3, <1>4, <1>6, <1>9, <1>11, <1>12 DEF HandsOver, SameBut, disk
<1>15. QED
  BY <1>13, <1>14, HandsOverStep

(* create() of a name that is there.                                       *)
LEMMA CreateExistsStep ==
    ASSUME InodeInv, NEW p \in Procs, NEW s \in Slots, CreateExists(p, s)
    PROVE  InodeInv'
<1>1. /\ pc[p] = "dir" /\ call[p].op \in {"create", "mkdir"}
      /\ Entry(p, "dp") # None /\ Iget(Entry(p, "dp"), s) /\ Unlock(has[p].dp)
      /\ has' = [has EXCEPT ![p]["giving"] = has[p].dp, ![p]["ip"] = s, ![p]["dp"] = None]
      /\ after' = [after EXCEPT ![p] = "got"] /\ pc' = [pc EXCEPT ![p] = "put"]
      /\ UNCHANGED <<disk, call, rest, marked>>
  BY DEF CreateExists, Makes, At, Goto
<1>2. /\ RegistersOf(p) /\ s # None /\ Place(p) = "dir" /\ ~InIput(p)
      /\ {"ip", "dp", "giving"} \subseteq Registers /\ {"put", "got"} \subseteq Places
  BY <1>1, Shape, InodesAssumption DEF Place, InIput, PutPlaces, Registers, Places, ToLock
<1>3. /\ has[p].ip = None /\ has[p].dp # None /\ has[p].giving = None /\ has[p].cwd # None
      /\ rest[p] # <<>> /\ has[p].old = None
  BY <1>1, <1>2 DEF RegistersOf, UsedAt, OnTheWay
<1>4. /\ pc' \in [Procs -> Places] /\ pc'[p] = "put" /\ has' \in [Procs -> [Registers -> Slots \cup {None}]]
      /\ after' \in [Procs -> Places] /\ after'[p] = "got"
      /\ has'[p].giving = has[p].dp /\ has'[p].ip = s /\ has'[p].dp = None
      /\ \A t \in Registers \ {"giving", "ip", "dp"} : has'[p][t] = has[p][t]
      /\ \A q \in Procs \ {p} : pc'[q] = pc[q] /\ after'[q] = after[q] /\ has'[q] = has[q]
  <2>1. PICK mine : mine = [has[p] EXCEPT !["giving"] = has[p].dp, !["ip"] = s, !["dp"] = None]
    OBVIOUS
  <2>2. has[p] \in [Registers -> Slots \cup {None}]
    BY Shape
  <2>3. /\ mine \in [Registers -> Slots \cup {None}]
        /\ mine.giving = has[p].dp /\ mine.ip = s /\ mine.dp = None
        /\ \A t \in Registers \ {"giving", "ip", "dp"} : mine[t] = has[p][t]
    BY <1>2, <2>1, <2>2
  <2>4. has' = [has EXCEPT ![p] = mine]
    BY <1>1, <2>1, Shape
  <2>5. /\ pc' \in [Procs -> Places] /\ pc'[p] = "put"
        /\ after' \in [Procs -> Places] /\ after'[p] = "got"
        /\ \A q \in Procs \ {p} : pc'[q] = pc[q] /\ after'[q] = after[q]
    BY <1>1, <1>2, Shape
  <2>6. /\ has' \in [Procs -> [Registers -> Slots \cup {None}]] /\ has'[p] = mine
        /\ \A q \in Procs \ {p} : has'[q] = has[q]
    BY <2>3, <2>4, Shape
  <2>7. QED
    BY <2>3, <2>5, <2>6
<1>5. lock' \in [Slots -> Procs \cup {Nobody}]
  BY <1>1, Shape DEF Unlock
<1>6. TypedStep /\ Still(p)
  BY <1>1, <1>4, <1>5, Shape DEF TypedStep, Still, disk
<1>7. Place(p)' = "got" /\ InIput(p)'
  BY <1>4 DEF Place, InIput, PutPlaces
<1>8. RegistersOf(p)'
  <2>1. has'[p].cwd = has[p].cwd /\ has'[p].old = has[p].old /\ has'[p].file = has[p].file
    BY <1>4 DEF Registers
  <2>2. QED
    BY <1>1, <1>2, <1>3, <1>4, <1>7, <2>1 DEF RegistersOf, UsedAt, OnTheWay, LinkPlaces, PutPlaces
<1>9. /\ LockedAt(pc[p], "dp") /\ \A t \in Registers : ~LockedAt("got", t)
      /\ \A t \in Registers : LockedAt(pc[p], t) => t = "dp"
  BY <1>1 DEF LockedAt
<1>10. Entry(p, "dp") \in Inums
  <2>1. Locks(p, "dp")
    BY <1>1, <1>2, <1>9 DEF Locks
  <2>2. QED
    BY <1>1, <1>2, <1>3, <2>1, EntryInum
<1>11. HandsOver(p, "dp", Entry(p, "dp"), s, "got")
  BY <1>1, <1>2, <1>3, <1>4, <1>6, <1>8, <1>9 DEF HandsOver, SameBut, disk
<1>12. QED
  BY <1>10, <1>11, HandsOverStep

-----------------------------------------------------------------------------
(* A step that leaves the cache alone, and the pointers as many.           *)
KeepsCache(p) ==
    /\ UNCHANGED <<disk, icache>> /\ TypedStep /\ Still(p) /\ RegistersOf(p)' /\ pc[p] # "freed"
    /\ \A s \in Slots : Count(has', s) = Count(has, s)

LEMMA KeepsCacheStep ==
    ASSUME InodeInv, NEW p \in Procs, KeepsCache(p), LocksAgree'
    PROVE  InodeInv'
<1>1. /\ UNCHANGED <<dinode, dir, inum, ref, valid, core>>
      /\ TypedStep /\ Still(p) /\ RegistersOf(p)' /\ pc[p] # "freed"
      /\ \A s \in Slots : Count(has', s) = Count(has, s)
  BY DEF KeepsCache, disk, icache
<1>2. InodeShape /\ PointersAgree /\ \A q \in Procs : RegistersOf(q)
  BY DEF InodeInv
<1>3. InodeShape'
  BY <1>1, <1>2 DEF InodeShape, TypedStep
<1>4. \A q \in Procs : RegistersOf(q)'
  BY <1>1, <1>2, RegistersStep
<1>5. PointersAgree'
  <2>1. \A s \in Slots : ref[s] = Count(has, s)
    BY <1>2 DEF PointersAgree, Pointers, Count, Spots
  <2>2. \A s \in Slots : ref'[s] = Count(has', s)
    BY <1>1, <2>1
  <2>3. QED
    BY <2>2 DEF PointersAgree, Pointers, Count, Spots
<1>6. OneEntry' /\ CacheAgrees'
  BY <1>1, CacheKept
<1>7. QED
  BY <1>3, <1>4, <1>5, <1>6 DEF InodeInv

(* chdir(): the old directory is given back, and the new one kept.         *)
LEMMA ChdirStep ==
    ASSUME InodeInv, NEW p \in Procs, pc[p] = "use", call[p].op = "chdir", Chdir(p),
           UNCHANGED <<disk, icache, marked>>
    PROVE  InodeInv'
<1>1. /\ lock' = [lock EXCEPT ![has[p].ip] = Nobody]
      /\ has' = [has EXCEPT ![p]["giving"] = has[p].cwd, ![p]["cwd"] = has[p].ip, ![p]["ip"] = None]
      /\ after' = [after EXCEPT ![p] = "user"] /\ pc' = [pc EXCEPT ![p] = "put"]
      /\ UNCHANGED <<call, rest, marked>>
  BY DEF Chdir, Unlock, Goto
<1>2. /\ RegistersOf(p) /\ Place(p) = "use" /\ ~InIput(p)
      /\ {"ip", "dp", "cwd", "giving"} \subseteq Registers /\ {"put", "user"} \subseteq Places
  BY Shape DEF Place, InIput, PutPlaces, Registers, Places
<1>3. /\ has[p].ip # None /\ has[p].dp = None /\ has[p].giving = None /\ has[p].cwd # None
      /\ has[p].old = None
  BY <1>2 DEF RegistersOf, UsedAt
<1>4. /\ pc' \in [Procs -> Places] /\ pc'[p] = "put"
      /\ after' \in [Procs -> Places] /\ after'[p] = "user"
      /\ \A q \in Procs \ {p} : pc'[q] = pc[q] /\ after'[q] = after[q]
  BY <1>1, <1>2, Shape
<1>5. /\ has' \in [Procs -> [Registers -> Slots \cup {None}]]
      /\ has'[p].giving = has[p].cwd /\ has'[p].cwd = has[p].ip /\ has'[p].ip = None
      /\ \A t \in Registers \ {"giving", "cwd", "ip"} : has'[p][t] = has[p][t]
      /\ \A q \in Procs \ {p} : has'[q] = has[q]
  <2>1. PICK mine : mine = [has[p] EXCEPT !["giving"] = has[p].cwd, !["cwd"] = has[p].ip, !["ip"] = None]
    OBVIOUS
  <2>2. has[p] \in [Registers -> Slots \cup {None}]
    BY Shape
  <2>3. /\ mine \in [Registers -> Slots \cup {None}]
        /\ mine.giving = has[p].cwd /\ mine.cwd = has[p].ip /\ mine.ip = None
        /\ \A t \in Registers \ {"giving", "cwd", "ip"} : mine[t] = has[p][t]
    BY <1>2, <2>1, <2>2
  <2>4. has' = [has EXCEPT ![p] = mine]
    BY <1>1, <2>1, Shape
  <2>5. /\ has' \in [Procs -> [Registers -> Slots \cup {None}]] /\ has'[p] = mine
        /\ \A q \in Procs \ {p} : has'[q] = has[q]
    BY <2>3, <2>4, Shape
  <2>6. QED
    BY <2>3, <2>5
<1>6. lock' \in [Slots -> Procs \cup {Nobody}]
  BY <1>1, Shape
<1>7. TypedStep /\ Still(p)
  BY <1>1, <1>4, <1>5, <1>6, Shape DEF TypedStep, Still, disk
<1>8. Place(p)' = "user" /\ InIput(p)'
  BY <1>4 DEF Place, InIput, PutPlaces
<1>9. RegistersOf(p)'
  <2>1. has'[p].dp = has[p].dp /\ has'[p].old = has[p].old /\ has'[p].file = has[p].file
    BY <1>5 DEF Registers
  <2>2. QED
    BY <1>1, <1>2, <1>3, <1>5, <1>8, <2>1 DEF RegistersOf, UsedAt, OnTheWay, LinkPlaces, PutPlaces
<1>10. \A s \in Slots : Count(has', s) = Count(has, s)
  <2>1. PICK h : h = [has EXCEPT ![p]["giving"] = has[p].cwd, ![p]["cwd"] = None]
    OBVIOUS
  <2>2. /\ h[p].giving = has[p].cwd /\ h[p].cwd = None
        /\ \A t \in Registers \ {"giving", "cwd"} : h[p][t] = has[p][t]
        /\ \A q \in Procs \ {p} : h[q] = has[q]
    BY <1>2, <2>1, Shape
  <2>3. Exchange(has, h, p, "giving", "cwd")
    BY <1>3, <2>2 DEF Exchange, SameBut
  <2>4. Exchange(h, has', p, "cwd", "ip")
    BY <1>2, <1>5, <2>2 DEF Exchange, SameBut
  <2>5. \A s \in Slots : Count(h, s) = Count(has, s)
    BY <1>2, <2>3, Exchanged
  <2>6. \A s \in Slots : Count(has', s) = Count(h, s)
    BY <1>2, <2>4, Exchanged
  <2>7. QED
    BY <2>5, <2>6
<1>11. LocksAgree'
  <2>1. /\ \A t \in Registers : Locks(p, t) <=> t = "ip"
        /\ \A t \in Registers : Locks(p, t)' <=> FALSE
    BY <1>2, <1>4, <1>8 DEF Locks, LockedAt
  <2>2. Locks(p, "ip") /\ has[p].ip \in Slots
    BY <1>2, <2>1, LockedIsMine
  <2>3. /\ \A t \in Registers : Locks(p, t)' <=> (Locks(p, t) /\ t # "ip")
        /\ \A t \in Registers : Locks(p, t) /\ t # "ip" => has'[p][t] = has[p][t]
    BY <2>1
  <2>4. \A s \in Slots : lock'[s] # Nobody => valid'[s]
    <3>1. \A s \in Slots : lock[s] # Nobody => valid[s]
      BY LockedInUse
    <3>2. valid' = valid
      BY DEF icache
    <3>3. QED
      BY <1>1, <3>1, <3>2, Shape
  <2>5. DropsLock(p, "ip")
    BY <1>1, <2>2, <2>3, <2>4 DEF DropsLock
  <2>6. QED
    BY <1>2, <1>7, <2>5, LocksLess
<1>12. KeepsCache(p)
  BY <1>2, <1>7, <1>9, <1>10 DEF KeepsCache, InIput, PutPlaces
<1>13. QED
  BY <1>11, <1>12, KeepsCacheStep

-----------------------------------------------------------------------------
(* The inode to be locked is in hand, and what is in hand stays.           *)
Locking ==
    {<<"walk", "ip", "look">>, <<"got", "ip", "use">>, <<"parent", "dp", "dir">>,
     <<"new", "ip", "fill">>, <<"victim", "ip", "remove">>, <<"undo", "old", "undone">>}

LEMMA LockingFacts ==
    ASSUME InodeInv, NEW p \in Procs, NEW u, NEW to, <<pc[p], u, to>> \in Locking
    PROVE  /\ u \in Registers /\ has[p][u] # None /\ to \in Places /\ ~InIput(p)
           /\ to \notin PutPlaces
           /\ \A t \in Registers : LockedAt(to, t) <=> LockedAt(pc[p], t) \/ t = u
           /\ \A t \in Registers : UsedAt(to, t) <=> UsedAt(pc[p], t)
           /\ to \in LinkPlaces <=> pc[p] \in LinkPlaces
           /\ to \in OnTheWay <=> pc[p] \in OnTheWay
           /\ to \in {"new", "fill", "victim", "remove"} => pc[p] \in {"new", "victim"}
           /\ to = "dir" => pc[p] = "parent"
           /\ to \notin {"parent", "marked"} /\ pc[p] # "marked"
<1>1. u \in {"ip", "dp", "old"} /\ u \in Registers /\ to \in Places
  BY DEF Locking, Registers, Places, ToLock
<1>2. ~InIput(p) /\ Place(p) = pc[p] /\ RegistersOf(p) /\ to \notin PutPlaces
  BY Shape DEF Locking, InIput, PutPlaces, Place
<1>3. /\ u \in {"ip", "dp"} => UsedAt(pc[p], u)
      /\ u = "old" => pc[p] \in LinkPlaces
  BY DEF Locking, UsedAt, LinkPlaces
<1>4. has[p][u] # None
  BY <1>1, <1>2, <1>3 DEF RegistersOf
<1>5. /\ \A t \in Registers : LockedAt(to, t) <=> LockedAt(pc[p], t) \/ t = u
      /\ \A t \in Registers : UsedAt(to, t) <=> UsedAt(pc[p], t)
  BY DEF Locking, LockedAt, UsedAt
<1>6. /\ to \in LinkPlaces <=> pc[p] \in LinkPlaces
      /\ to \in OnTheWay <=> pc[p] \in OnTheWay
      /\ to \in {"new", "fill", "victim", "remove"} => pc[p] \in {"new", "victim"}
      /\ to = "dir" => pc[p] = "parent"
      /\ to \notin {"parent", "marked"} /\ pc[p] # "marked"
  BY DEF Locking, LinkPlaces, OnTheWay
<1>7. QED
  BY <1>1, <1>2, <1>4, <1>5, <1>6

(* ilock(), of an inode that is allocated.                                 *)
LEMMA IlockStep ==
    ASSUME InodeInv, NEW p \in Procs, Ilock(p), panicked' = "no"
    PROVE  InodeInv'
<1>1. PICK u, to : u = ToLock[pc[p]].inode /\ to = ToLock[pc[p]].then
  OBVIOUS
<1>2. <<pc[p], u, to>> \in Locking
  <2>1. pc[p] \in {"walk", "got", "parent", "new", "victim", "undo"}
    BY DEF Ilock, ToLock
  <2>2. CASE pc[p] = "walk"
    BY <1>1, <2>2 DEF ToLock, Locking
  <2>3. CASE pc[p] = "got"
    BY <1>1, <2>3 DEF ToLock, Locking
  <2>4. CASE pc[p] = "parent"
    BY <1>1, <2>4 DEF ToLock, Locking
  <2>5. CASE pc[p] = "new"
    BY <1>1, <2>5 DEF ToLock, Locking
  <2>6. CASE pc[p] = "victim"
    BY <1>1, <2>6 DEF ToLock, Locking
  <2>7. CASE pc[p] = "undo"
    BY <1>1, <2>7 DEF ToLock, Locking
  <2>8. QED
    BY <2>1, <2>2, <2>3, <2>4, <2>5, <2>6, <2>7
<1> DEFINE s == has[p][u]
<1>3. /\ lock[s] = Nobody /\ ~(~valid[s] /\ dinode[inum[s]].type = "free")
      /\ lock' = [lock EXCEPT ![s] = p]
      /\ core' = [core EXCEPT ![s] = IF valid[s] THEN core[s] ELSE dinode[inum[s]]]
      /\ valid' = [valid EXCEPT ![s] = TRUE] /\ pc' = [pc EXCEPT ![p] = to]
      /\ UNCHANGED <<dinode, dir, inum, ref, after, has, call, rest, marked>>
  BY <1>1 DEF Ilock, Panic, Goto, disk
<1>4. /\ u \in Registers /\ has[p][u] # None /\ to \in Places /\ ~InIput(p)
      /\ to \notin PutPlaces
      /\ \A t \in Registers : LockedAt(to, t) <=> LockedAt(pc[p], t) \/ t = u
      /\ \A t \in Registers : UsedAt(to, t) <=> UsedAt(pc[p], t)
      /\ to \in LinkPlaces <=> pc[p] \in LinkPlaces
      /\ to \in OnTheWay <=> pc[p] \in OnTheWay
      /\ to \in {"new", "fill", "victim", "remove"} => pc[p] \in {"new", "victim"}
      /\ to = "dir" => pc[p] = "parent"
      /\ to \notin {"parent", "marked"} /\ pc[p] # "marked"
  BY <1>2, LockingFacts
<1>5. s \in Slots /\ ref[s] > 0 /\ inum[s] \in Inums
  BY <1>4, PointerInUse
<1> HIDE DEF s
<1>6. /\ InodeShape /\ PointersAgree /\ LocksAgree /\ OneEntry /\ CacheAgrees
      /\ \A q \in Procs : RegistersOf(q)
  BY DEF InodeInv
<1>7. /\ valid \in [Slots -> BOOLEAN] /\ core \in [Slots -> [type : Types, nlink : Int]]
      /\ dinode \in [Inums -> [type : Types, nlink : Int]]
      /\ lock \in [Slots -> Procs \cup {Nobody}] /\ pc \in [Procs -> Places]
  BY <1>6 DEF InodeShape
<1>8. /\ pc' \in [Procs -> Places] /\ pc'[p] = to /\ \A q \in Procs \ {p} : pc'[q] = pc[q]
      /\ lock' \in [Slots -> Procs \cup {Nobody}]
  BY <1>3, <1>4, <1>7
<1>9. /\ valid' \in [Slots -> BOOLEAN] /\ valid'[s] /\ \A t \in Slots \ {s} : valid'[t] = valid[t]
  BY <1>3, <1>5, <1>7
<1>10. /\ core' \in [Slots -> [type : Types, nlink : Int]]
       /\ valid[s] => core'[s] = core[s]
       /\ ~valid[s] => core'[s] = dinode[inum[s]]
       /\ \A t \in Slots \ {s} : core'[t] = core[t]
  <2>1. PICK c : c = IF valid[s] THEN core[s] ELSE dinode[inum[s]]
    OBVIOUS
  <2>2. c \in [type : Types, nlink : Int]
    BY <1>5, <1>7, <2>1
  <2>3. core' = [core EXCEPT ![s] = c]
    BY <1>3, <2>1
  <2>4. QED
    BY <1>5, <1>7, <2>1, <2>2, <2>3
<1>11. InodeShape'
  BY <1>3, <1>6, <1>8, <1>9, <1>10 DEF InodeShape
<1>12. Still(p)
  BY <1>3, <1>8 DEF Still
<1>13. Place(p) = pc[p] /\ Place(p)' = to /\ ~InIput(p)'
  BY <1>4, <1>8 DEF Place, InIput, PutPlaces
<1>14. \A q \in Procs : RegistersOf(q)'
  <2>1. RegistersOf(p)'
    <3>1. "ip" \in Registers /\ "dp" \in Registers /\ "cwd" \in Registers /\ WantsParent(p)' = WantsParent(p)
      BY <1>3 DEF Registers, WantsParent
    <3>2. \A t \in {"ip", "dp", "cwd"} : UsedAt(to, t) <=> UsedAt(pc[p], t)
      BY <1>4, <3>1
    <3>3. QED
      BY <1>3, <1>4, <1>6, <1>13, <3>1, <3>2 DEF RegistersOf
  <2>2. QED
    BY <1>6, <1>12, <2>1, RegistersStep
<1>15. LocksAgree'
  <2>1. \A t \in Registers : Locks(p, t)' <=> (Locks(p, t) \/ t = u)
    BY <1>4, <1>8, <1>13 DEF Locks, InIput, PutPlaces
  <2>2. \A t \in Slots : lock'[t] # Nobody => valid'[t]
    BY <1>3, <1>6, <1>7, <1>9 DEF LocksAgree
  <2>3. TakesLock(p, u)
    BY <1>3, <1>5, <2>1, <2>2 DEF TakesLock, s
  <2>4. QED
    BY <1>4, <1>12, <2>3, LocksMore
<1>16. PointersAgree' /\ OneEntry'
  BY <1>3, <1>6 DEF PointersAgree, Pointers, OneEntry
<1>17. CacheAgrees'
  <2>1. \A t \in Slots : ref'[t] > 0 => inum'[t] \in Inums
    BY <1>3, <1>6 DEF CacheAgrees
  <2>2. ASSUME NEW t \in Slots, ref'[t] > 0, valid'[t]
        PROVE  \/ core'[t] = dinode'[inum'[t]] /\ core'[t].type # "free"
               \/ (\E q \in Procs : pc[q] = "freed" /\ has[q].giving = t)'
    <3>1. CASE t = s /\ ~valid[s]
      BY <1>3, <1>10, <3>1
    <3>2. CASE t # s \/ valid[s]
      <4>1. ref[t] > 0 /\ valid[t] /\ core'[t] = core[t]
        BY <1>3, <1>9, <1>10, <2>2, <3>2
      <4>2. CASE core[t] = dinode[inum[t]] /\ core[t].type # "free"
        BY <1>3, <4>1, <4>2
      <4>3. CASE \E q \in Procs : pc[q] = "freed" /\ has[q].giving = t
        <5>1. pc[p] # "freed"
          BY <1>4 DEF InIput, PutPlaces
        <5>2. QED
          BY <1>12, <4>3, <5>1, FreedStays
      <4>4. QED
        BY <1>6, <4>1, <4>2, <4>3 DEF CacheAgrees
    <3>3. QED
      BY <3>1, <3>2
  <2>3. QED
    BY <2>1, <2>2 DEF CacheAgrees
<1>18. QED
  BY <1>11, <1>14, <1>15, <1>16, <1>17 DEF InodeInv

-----------------------------------------------------------------------------
(* iput(): where the process was, and is to return, stays as it is, ...    *)
LEMMA IputPlace ==
    ASSUME InodeInv, NEW p \in Procs, InIput(p), pc'[p] \in PutPlaces,
           \A r \in Registers : has'[p][r] = has[p][r], UNCHANGED <<after, call, rest, marked>>
    PROVE  /\ RegistersOf(p)'
           /\ \A r \in Registers \ {"giving"} : Locks(p, r)' <=> Locks(p, r)
           /\ Locks(p, "giving") <=> pc[p] \in {"free", "freed"}
           /\ Locks(p, "giving")' <=> pc'[p] \in {"free", "freed"}
<1>1. RegistersOf(p) /\ InIput(p)' /\ Place(p) = after[p] /\ Place(p)' = after[p]
  BY Shape DEF InIput, Place
<1>2. /\ {"ip", "dp", "cwd", "giving", "old", "file"} \subseteq Registers
      /\ WantsParent(p)' = WantsParent(p)
  BY DEF Registers, WantsParent
<1>3. RegistersOf(p)'
  BY <1>1, <1>2 DEF RegistersOf
<1>4. \A place : ~LockedAt(place, "giving")
  BY DEF LockedAt
<1>5. QED
  BY <1>1, <1>3, <1>4 DEF Locks

(* ... what is given back being in hand.                                   *)
LEMMA GivingInHand ==
    ASSUME InodeInv, NEW p \in Procs, InIput(p)
    PROVE  /\ "giving" \in Registers /\ has[p].giving # None
           /\ has[p].giving \in Slots /\ ref[has[p].giving] > 0 /\ inum[has[p].giving] \in Inums
<1>1. "giving" \in Registers /\ has[p].giving # None
  BY Shape DEF RegistersOf, Registers
<1>2. QED
  BY <1>1, PointerInUse

(* The test of the last reference to an inode without a name.              *)
LEMMA IputTestStep ==
    ASSUME InodeInv, NEW p \in Procs, IputTest(p)
    PROVE  InodeInv'
<1> DEFINE s == has[p].giving
<1>1. /\ pc[p] = "put" /\ lock[s] = Nobody
      /\ IF Unlinked(s) /\ LastRef(s)
         THEN lock' = [lock EXCEPT ![s] = p] /\ Goto(p, "free")
         ELSE Goto(p, "drop") /\ UNCHANGED lock
      /\ UNCHANGED <<disk, icache, after, has, call, rest, marked>>
  BY DEF IputTest, At
<1>2. PICK to : to = IF Unlinked(s) /\ LastRef(s) THEN "free" ELSE "drop"
  OBVIOUS
<1>3. /\ InIput(p) /\ to \in {"free", "drop"} /\ pc' = [pc EXCEPT ![p] = to]
      /\ to = "free" => Unlinked(s) /\ lock' = [lock EXCEPT ![s] = p]
      /\ to = "drop" => lock' = lock
      /\ to \in Places /\ to \in PutPlaces
  BY <1>1, <1>2 DEF InIput, PutPlaces, Goto, Places
<1>4. "giving" \in Registers /\ s \in Slots /\ ref[s] > 0
  BY <1>3, GivingInHand
<1>5. /\ pc' \in [Procs -> Places] /\ pc'[p] = to /\ \A q \in Procs \ {p} : pc'[q] = pc[q]
  BY <1>3, Shape
<1>6. lock' \in [Slots -> Procs \cup {Nobody}]
  BY <1>3, <1>4, Shape
<1>7. TypedStep /\ Still(p)
  BY <1>1, <1>5, <1>6, Shape DEF TypedStep, Still, disk
<1>8. /\ RegistersOf(p)'
      /\ \A r \in Registers \ {"giving"} : Locks(p, r)' <=> Locks(p, r)
      /\ Locks(p, "giving") <=> pc[p] \in {"free", "freed"}
      /\ Locks(p, "giving")' <=> pc'[p] \in {"free", "freed"}
  BY <1>1, <1>3, <1>5, IputPlace
<1>9. \A t \in Slots : lock[t] # Nobody => valid[t]
  BY LockedInUse
<1>10. valid' = valid /\ has' = has
  BY <1>1 DEF icache
<1>11. LocksAgree'
  <2>1. CASE to = "free"
    <3>1. \A t \in Slots : lock'[t] # Nobody => valid'[t]
      BY <1>3, <1>4, <1>9, <1>10, <2>1, Shape DEF Unlinked
    <3>2. \A r \in Registers : Locks(p, r)' <=> (Locks(p, r) \/ r = "giving")
      BY <1>5, <1>8, <2>1
    <3>3. TakesLock(p, "giving")
      BY <1>1, <1>3, <1>4, <1>10, <2>1, <3>1, <3>2 DEF TakesLock
    <3>4. QED
      BY <1>4, <1>7, <3>3, LocksMore
  <2>2. CASE to = "drop"
    <3>1. \A t \in Slots : lock'[t] # Nobody => valid'[t]
      BY <1>3, <1>9, <1>10, <2>2
    <3>2. \A r \in Registers : Locks(p, r)' <=> Locks(p, r)
      BY <1>1, <1>5, <1>8, <2>2
    <3>3. KeepsLocks(p)
      BY <1>3, <1>10, <2>2, <3>1, <3>2 DEF KeepsLocks
    <3>4. QED
      BY <1>7, <3>3, LocksSame
  <2>3. QED
    BY <1>3, <2>1, <2>2
<1>12. \A t \in Slots : Count(has', t) = Count(has, t)
  BY <1>10
<1>13. KeepsCache(p)
  BY <1>1, <1>7, <1>8, <1>12 DEF KeepsCache
<1>14. QED
  BY <1>11, <1>13, KeepsCacheStep

(* The inode is freed: its copy is not to be believed any more.            *)
LEMMA IputFreeStep ==
    ASSUME InodeInv, NEW p \in Procs, IputFree(p)
    PROVE  InodeInv'
<1> DEFINE s == has[p].giving
           node == Node("free", 0)
<1>1. /\ pc[p] = "free" /\ core' = [core EXCEPT ![s] = node]
      /\ dinode' = [dinode EXCEPT ![inum[s]] = node]
      /\ dir' = [dir EXCEPT ![inum[s]] = NoEntries]
      /\ pc' = [pc EXCEPT ![p] = "freed"]
      /\ UNCHANGED <<inum, ref, valid, lock, after, has, call, rest, marked>>
  BY DEF IputFree, At, Goto, Iupdate
<1>2. InIput(p) /\ "freed" \in Places /\ "freed" \in PutPlaces
  BY <1>1 DEF InIput, PutPlaces, Places
<1>3. "giving" \in Registers /\ s \in Slots /\ ref[s] > 0 /\ inum[s] \in Inums
  BY <1>2, GivingInHand
<1>4. node \in [type : Types, nlink : Int] /\ NoEntries \in [Entries -> Inums \cup {None}]
  BY DEF Node, Types, NoEntries
<1>5. /\ InodeShape /\ PointersAgree /\ core \in [Slots -> [type : Types, nlink : Int]]
      /\ LocksAgree /\ \A q \in Procs : RegistersOf(q)
  BY DEF InodeInv, InodeShape
<1> HIDE DEF s, node
<1>6. /\ pc' \in [Procs -> Places] /\ pc'[p] = "freed" /\ \A q \in Procs \ {p} : pc'[q] = pc[q]
  BY <1>1, <1>2, Shape
<1>7. /\ core' \in [Slots -> [type : Types, nlink : Int]] /\ core'[s] = node
      /\ \A t \in Slots \ {s} : core'[t] = core[t]
  BY <1>1, <1>3, <1>4, <1>5
<1>8. /\ dinode' \in [Inums -> [type : Types, nlink : Int]] /\ dinode'[inum[s]] = node
      /\ \A i \in Inums \ {inum[s]} : dinode'[i] = dinode[i]
  BY <1>1, <1>3, <1>4, Shape
<1>9. dir' \in [Inums -> [Entries -> Inums \cup {None}]]
  BY <1>1, <1>3, <1>4, Shape
<1>10. InodeShape' /\ Still(p)
  BY <1>1, <1>5, <1>6, <1>7, <1>8, <1>9 DEF InodeShape, Still
<1>11. /\ RegistersOf(p)'
       /\ \A r \in Registers \ {"giving"} : Locks(p, r)' <=> Locks(p, r)
       /\ Locks(p, "giving") <=> pc[p] \in {"free", "freed"}
       /\ Locks(p, "giving")' <=> pc'[p] \in {"free", "freed"}
  BY <1>1, <1>2, <1>6, IputPlace
<1>12. \A q \in Procs : RegistersOf(q)'
  BY <1>5, <1>10, <1>11, RegistersStep
<1>13. LocksAgree'
  <2>1. \A r \in Registers : Locks(p, r)' <=> Locks(p, r)
    BY <1>1, <1>6, <1>11
  <2>2. KeepsLocks(p)
    BY <1>1, <1>5, <2>1 DEF KeepsLocks, LocksAgree
  <2>3. QED
    BY <1>10, <2>2, LocksSame
<1>14. PointersAgree'
  BY <1>1, <1>5 DEF PointersAgree, Pointers
<1>15. OneEntry' /\ CacheAgrees'
  <2>1. Through(p, {s})
    BY <1>1, <1>3, <1>6, <1>7, <1>8 DEF Through, s
  <2>2. pc[p] # "freed"
    BY <1>1
  <2>3. QED
    BY <1>10, <2>1, <2>2, CacheWrites
<1>16. QED
  BY <1>10, <1>12, <1>13, <1>14, <1>15 DEF InodeInv

(* It is let go of, and no longer valid.                                   *)
LEMMA IputReleaseStep ==
    ASSUME InodeInv, NEW p \in Procs, IputRelease(p)
    PROVE  InodeInv'
<1> DEFINE s == has[p].giving
<1>1. /\ pc[p] = "freed" /\ valid' = [valid EXCEPT ![s] = FALSE]
      /\ lock' = [lock EXCEPT ![s] = Nobody] /\ pc' = [pc EXCEPT ![p] = "drop"]
      /\ UNCHANGED <<dinode, dir, inum, ref, core, after, has, call, rest, marked>>
  BY DEF IputRelease, At, Goto, Invalid, Unlock, disk
<1>2. InIput(p) /\ "drop" \in Places /\ "drop" \in PutPlaces
  BY <1>1 DEF InIput, PutPlaces, Places
<1>3. "giving" \in Registers /\ s \in Slots
  BY <1>2, GivingInHand
<1>4. /\ InodeShape /\ PointersAgree /\ OneEntry /\ CacheAgrees /\ valid \in [Slots -> BOOLEAN]
      /\ \A q \in Procs : RegistersOf(q)
  BY DEF InodeInv, InodeShape
<1> HIDE DEF s
<1>5. /\ pc' \in [Procs -> Places] /\ pc'[p] = "drop" /\ \A q \in Procs \ {p} : pc'[q] = pc[q]
  BY <1>1, <1>2, Shape
<1>6. /\ valid' \in [Slots -> BOOLEAN] /\ ~valid'[s] /\ \A t \in Slots \ {s} : valid'[t] = valid[t]
  BY <1>1, <1>3, <1>4
<1>7. /\ lock' \in [Slots -> Procs \cup {Nobody}] /\ lock'[s] = Nobody
      /\ \A t \in Slots \ {s} : lock'[t] = lock[t]
  BY <1>1, <1>3, Shape
<1>8. InodeShape' /\ Still(p)
  BY <1>1, <1>4, <1>5, <1>6, <1>7 DEF InodeShape, Still
<1>9. /\ RegistersOf(p)'
      /\ \A r \in Registers \ {"giving"} : Locks(p, r)' <=> Locks(p, r)
      /\ Locks(p, "giving") <=> pc[p] \in {"free", "freed"}
      /\ Locks(p, "giving")' <=> pc'[p] \in {"free", "freed"}
  BY <1>1, <1>2, <1>5, IputPlace
<1>10. \A q \in Procs : RegistersOf(q)'
  BY <1>4, <1>8, <1>9, RegistersStep
<1>11. LocksAgree'
  <2>1. /\ \A r \in Registers : Locks(p, r)' <=> (Locks(p, r) /\ r # "giving")
        /\ \A r \in Registers : Locks(p, r) /\ r # "giving" => has'[p][r] = has[p][r]
    BY <1>1, <1>5, <1>9
  <2>2. \A t \in Slots : lock'[t] # Nobody => valid'[t]
    BY <1>6, <1>7, LockedInUse
  <2>3. DropsLock(p, "giving")
    BY <1>1, <1>3, <1>9, <2>1, <2>2 DEF DropsLock, s
  <2>4. QED
    BY <1>3, <1>8, <2>3, LocksLess
<1>12. PointersAgree' /\ OneEntry'
  BY <1>1, <1>4 DEF PointersAgree, Pointers, OneEntry
<1>13. CacheAgrees'
  <2>1. \A t \in Slots : ref'[t] > 0 => inum'[t] \in Inums
    BY <1>1, <1>4 DEF CacheAgrees
  <2>2. ASSUME NEW t \in Slots, ref'[t] > 0, valid'[t]
        PROVE  \/ core'[t] = dinode'[inum'[t]] /\ core'[t].type # "free"
               \/ (\E q \in Procs : pc[q] = "freed" /\ has[q].giving = t)'
    <3>1. t # s /\ ref[t] > 0 /\ valid[t]
      BY <1>1, <1>6, <2>2
    <3>2. CASE core[t] = dinode[inum[t]] /\ core[t].type # "free"
      BY <1>1, <3>2
    <3>3. CASE \E q \in Procs : pc[q] = "freed" /\ has[q].giving = t
      <4>1. PICK q \in Procs : pc[q] = "freed" /\ has[q].giving = t
        BY <3>3
      <4>2. q # p
        BY <3>1, <4>1 DEF s
      <4>3. pc'[q] = "freed" /\ has'[q].giving = t
        BY <1>1, <1>5, <4>1, <4>2
      <4>4. QED
        BY <4>3
    <3>4. QED
      BY <1>4, <3>1, <3>2, <3>3 DEF CacheAgrees
  <2>3. QED
    BY <2>1, <2>2 DEF CacheAgrees
<1>14. QED
  BY <1>8, <1>10, <1>11, <1>12, <1>13 DEF InodeInv

(* The reference is dropped, and the call goes on where it was to.         *)
LEMMA IputDropStep ==
    ASSUME InodeInv, NEW p \in Procs, IputDrop(p)
    PROVE  InodeInv'
<1> DEFINE s == has[p].giving
<1>1. /\ pc[p] = "drop" /\ ref' = [ref EXCEPT ![s] = ref[s] - 1]
      /\ has' = [has EXCEPT ![p]["giving"] = None] /\ pc' = [pc EXCEPT ![p] = after[p]]
      /\ after' = [after EXCEPT ![p] = "user"]
      /\ IF after[p] = "user" THEN Return(p) ELSE UNCHANGED <<call, rest>>
      /\ marked' = marked
      /\ UNCHANGED <<dinode, dir, inum, valid, core, lock>>
  BY DEF IputDrop, At, Goto, disk
<1>2. InIput(p) /\ "user" \in Places /\ "user" \notin PutPlaces
  BY <1>1 DEF InIput, PutPlaces, Places
<1>3. "giving" \in Registers /\ s \in Slots /\ ref[s] > 0
  BY <1>2, GivingInHand
<1>4. /\ InodeShape /\ PointersAgree /\ OneEntry /\ CacheAgrees /\ ref \in [Slots -> Nat]
      /\ LocksAgree /\ \A q \in Procs : RegistersOf(q)
  BY DEF InodeInv, InodeShape
<1> HIDE DEF s
<1>5. /\ pc' \in [Procs -> Places] /\ pc'[p] = after[p]
      /\ after' \in [Procs -> Places] /\ after'[p] = "user"
      /\ \A q \in Procs \ {p} : pc'[q] = pc[q] /\ after'[q] = after[q]
  BY <1>1, <1>2, Shape
<1>6. /\ has' \in [Procs -> [Registers -> Slots \cup {None}]] /\ has'[p].giving = None
      /\ \A r \in Registers \ {"giving"} : has'[p][r] = has[p][r]
      /\ \A q \in Procs \ {p} : has'[q] = has[q]
  BY <1>1, <1>3, Shape
<1>7. /\ ref' \in [Slots -> Nat] /\ ref'[s] = ref[s] - 1
      /\ \A t \in Slots \ {s} : ref'[t] = ref[t]
      /\ \A t \in Slots : ref'[t] > 0 => ref[t] > 0
  BY <1>1, <1>3, <1>4
<1>8. /\ rest' \in [Procs -> Seq(Entries)] /\ call' \in [Procs -> AnyCall]
      /\ \A q \in Procs \ {p} : call'[q] = call[q] /\ rest'[q] = rest[q]
  <2>1. UNCHANGED <<call, rest>> \/ Return(p)
    BY <1>1
  <2>2. QED
    BY <2>1, CallsTyped
<1>9. InodeShape' /\ Still(p)
  BY <1>1, <1>4, <1>5, <1>6, <1>7, <1>8 DEF InodeShape, Still
<1>10. Place(p) = after[p] /\ after[p] \notin PutPlaces /\ Place(p)' = after[p] /\ ~InIput(p)'
  BY <1>2, <1>4, <1>5 DEF RegistersOf, Place, InIput
<1>11. RegistersOf(p)'
  <2>1. /\ has'[p].ip = has[p].ip /\ has'[p].dp = has[p].dp /\ has'[p].cwd = has[p].cwd
        /\ has'[p].old = has[p].old /\ has'[p].file = has[p].file
    BY <1>6 DEF Registers
  <2>2. \A r \in {"ip", "dp", "cwd"} : has'[p][r] # None <=> UsedAt(after[p], r)
    BY <1>4, <1>10, <2>1 DEF RegistersOf
  <2>3. CASE after[p] = "user"
    <3>1. call'[p].op = "none"
      BY <1>1, <2>3, Shape DEF Return, NoCall
    <3>2. has[p].old = None
      BY <1>4, <1>10, <2>3 DEF RegistersOf, OnTheWay, LinkPlaces
    <3>3. QED
      BY <1>1, <1>4, <1>6, <1>10, <2>1, <2>2, <2>3, <3>1, <3>2 DEF RegistersOf, OnTheWay, LinkPlaces
  <2>4. CASE after[p] # "user"
    <3>1. call' = call /\ rest' = rest
      BY <1>1, <2>4
    <3>2. WantsParent(p)' = WantsParent(p)
      BY <2>1, <3>1 DEF WantsParent
    <3>3. QED
      BY <1>1, <1>4, <1>6, <1>10, <2>1, <2>2, <3>1, <3>2 DEF RegistersOf
  <2>5. QED
    BY <2>3, <2>4
<1>12. \A q \in Procs : RegistersOf(q)'
  BY <1>4, <1>9, <1>11, RegistersStep
<1>13. LocksAgree'
  <2>1. \A place : ~LockedAt(place, "giving")
    BY DEF LockedAt
  <2>2. \A r \in Registers : Locks(p, r)' <=> Locks(p, r)
    BY <1>1, <1>5, <1>10 DEF Locks, PutPlaces
  <2>3. \A r \in Registers : Locks(p, r) => has'[p][r] = has[p][r]
    BY <1>1, <1>6, <2>1 DEF Locks
  <2>4. KeepsLocks(p)
    BY <1>1, <1>4, <2>2, <2>3 DEF KeepsLocks, LocksAgree
  <2>5. QED
    BY <1>9, <2>4, LocksSame
<1>14. PointersAgree'
  <2>1. Drop(has, has', p, "giving")
    BY <1>3, <1>6 DEF Drop, SameBut, s
  <2>2. \A t \in Slots : Count(has', t) = Count(has, t) - IF t = s THEN 1 ELSE 0
    BY <1>3, <2>1, Dropped DEF s
  <2>3. \A t \in Slots : ref[t] = Count(has, t)
    BY <1>4 DEF PointersAgree, Pointers, Count, Spots
  <2>4. \A t \in Slots : ref'[t] = Count(has', t)
    <3>1. SUFFICES ASSUME NEW t \in Slots PROVE ref'[t] = Count(has', t)
      OBVIOUS
    <3>2. CASE t = s
      BY <1>7, <2>2, <2>3, <3>2
    <3>3. CASE t # s
      BY <1>4, <1>7, <2>2, <2>3, <3>3
    <3>4. QED
      BY <3>2, <3>3
  <2>5. QED
    BY <2>4 DEF PointersAgree, Pointers, Count, Spots
<1>15. OneEntry' /\ CacheAgrees'
  <2>1. pc[p] # "freed"
    BY <1>1
  <2>2. QED
    BY <1>1, <1>7, <1>9, <2>1, CacheKept
<1>16. QED
  BY <1>9, <1>12, <1>13, <1>14, <1>15 DEF InodeInv

-----------------------------------------------------------------------------
(* Nothing happens, or nothing but a panic.                                *)
LEMMA NothingStep ==
    ASSUME InodeInv, UNCHANGED <<disk, icache, lock, proc>>
    PROVE  InodeInv'
<1>1. /\ InodeShape /\ LocksAgree /\ PointersAgree /\ OneEntry /\ CacheAgrees
      /\ \A p \in Procs : RegistersOf(p)
      /\ UNCHANGED <<dinode, dir, inum, ref, valid, core, lock, pc, after, has, call, rest, marked>>
  BY DEF InodeInv, disk, icache, proc
<1>2. /\ \A p \in Procs : Place(p)' = Place(p) /\ (InIput(p)' <=> InIput(p)) /\ WantsParent(p)' = WantsParent(p)
      /\ \A p \in Procs : \A r : Locks(p, r)' <=> Locks(p, r)
  BY <1>1 DEF Place, InIput, WantsParent, Locks
<1>3. \A p \in Procs : RegistersOf(p)'
  BY <1>1, <1>2 DEF RegistersOf
<1>4. LocksAgree'
  BY <1>1, <1>2 DEF LocksAgree, Holds
<1>5. InodeShape' /\ PointersAgree' /\ OneEntry' /\ CacheAgrees'
  BY <1>1 DEF InodeShape, PointersAgree, Pointers, OneEntry, CacheAgrees
<1>6. QED
  BY <1>3, <1>4, <1>5 DEF InodeInv

(* The look-up's steps.                                                    *)
LEMMA LookupStep ==
    ASSUME InodeInv, NEW p \in Procs, Lookup(p)
    PROVE  InodeInv'
<1>1. CASE LookStops(p)
  <2>1. At(p, "look") /\ UNCHANGED <<disk, icache, call, rest, marked>> /\ RegistersOf(p) /\ rest[p] # <<>>
    BY <1>1, Shape DEF LookStops, At, RegistersOf, Place, InIput, PutPlaces, OnTheWay
  <2>2. CASE Iunlockput(p, "ip", Failed(p))
    BY <2>1, <2>2, LookFails, GivesUpStep
  <2>3. CASE ~Iunlockput(p, "ip", Failed(p))
    <3>1. /\ WantsParent(p) /\ Unlock(has[p].ip) /\ Goto(p, "parent") /\ after' = after
          /\ has' = [has EXCEPT ![p]["dp"] = has[p].ip, ![p]["ip"] = None]
      BY <1>1, <2>3 DEF LookStops, AtParent
    <3>2. QED
      BY <2>1, <3>1, LookParent
  <2>4. QED
    BY <2>2, <2>3
<1>2. CASE \E s \in Slots : LookFinds(p, s)
  BY <1>2, LookFindsStep
<1>3. QED
  BY <1>1, <1>2 DEF Lookup

(* The inode of the path is put to use.                                    *)
LEMMA UseStep ==
    ASSUME InodeInv, NEW p \in Procs, Use(p) \/ Made(p)
    PROVE  InodeInv'
<1>1. CASE Made(p)
  <2>1. pc[p] \in {"made", "use"} /\ UNCHANGED <<disk, icache, marked>>
    BY <1>1 DEF Made, At
  <2>2. CASE OpenFile(p) /\ call[p].op = "create"
    BY <2>1, <2>2, OpenFileStep
  <2>3. CASE GiveUp(p)
    BY <2>1, <2>3, GiveUpStep, GivesUpStep
  <2>4. QED
    BY <1>1, <2>2, <2>3 DEF Made
<1>2. CASE Use(p)
  <2>1. pc[p] = "use" /\ UNCHANGED <<disk, icache, marked>>
    BY <1>2 DEF Use, At
  <2>2. CASE OpenFile(p) /\ call[p].op \in {"open", "create"}
    BY <2>1, <2>2, OpenFileStep
  <2>3. CASE Chdir(p) /\ call[p].op = "chdir"
    BY <2>1, <2>3, ChdirStep
  <2>4. CASE GiveUp(p)
    BY <2>1, <2>4, GiveUpStep, GivesUpStep
  <2>5. QED
    BY <1>2, <2>2, <2>3, <2>4 DEF Use
<1>3. QED
  BY <1>1, <1>2

(* create() and mkdir(), ...                                               *)
LEMMA MakingStep ==
    ASSUME InodeInv, NEW p \in Procs, Making(p)
    PROVE  InodeInv'
<1>1. CASE Mark(p)
  <2>1. CASE FreeInums = {}
    <3>1. UNCHANGED <<disk, icache, lock, proc>>
      BY <1>1, <2>1 DEF Mark, Panic
    <3>2. QED
      BY <3>1, NothingStep
  <2>2. CASE FreeInums # {}
    BY <1>1, <2>2, MarkStep
  <2>3. QED
    BY <2>1, <2>2
<1>2. CASE Fill(p) \/ Made(p)
  BY <1>2, FillStep, UseStep
<1>3. CASE \E s \in Slots : CreateExists(p, s) \/ Create(p, s)
  BY <1>3, CreateExistsStep, CreateStep
<1>4. QED
  BY <1>1, <1>2, <1>3 DEF Making

(* ... link() ...                                                          *)
LEMMA LinkingStep ==
    ASSUME InodeInv, NEW p \in Procs, Linking(p)
    PROVE  InodeInv'
  BY LinkOldStep, LinkNewStep, LinkStep, LinkEndsStep, GivesUpStep, LinkUndoneStep, LinkExistsStep DEF Linking

(* ... and unlink().                                                       *)
LEMMA UnlinkingStep ==
    ASSUME InodeInv, NEW p \in Procs, Unlinking(p)
    PROVE  InodeInv'
<1>1. CASE RemoveFails(p)
  <2>1. CASE core[has[p].ip].nlink < 1
    <3>1. UNCHANGED <<disk, icache, lock, proc>>
      BY <1>1, <2>1 DEF RemoveFails, Panic
    <3>2. QED
      BY <3>1, NothingStep
  <2>2. CASE ~(core[has[p].ip].nlink < 1)
    BY <1>1, <2>2, RemoveFailsStep, GivesUpStep
  <2>3. QED
    BY <2>1, <2>2
<1>2. CASE NotEmpty(p)
  BY <1>2, RemoveFailsStep, GivesUpStep
<1>3. CASE UnlinkRefused(p) \/ Remove(p) \/ Removed(p) \/ \E s \in Slots : UnlinkFinds(p, s)
  BY <1>3, UnlinkRefusedStep, GivesUpStep, RemoveStep, RemovedStep, UnlinkFindsStep
<1>4. QED
  BY <1>1, <1>2, <1>3 DEF Unlinking

(* ilock(), with its panic.                                                *)
LEMMA IlockAny ==
    ASSUME InodeInv, NEW p \in Procs, Ilock(p)
    PROVE  InodeInv'
<1>1. CASE panicked' = "no"
  BY <1>1, IlockStep
<1>2. CASE panicked' # "no"
  <2>1. UNCHANGED <<disk, icache, lock, proc>>
    BY <1>2 DEF Ilock, Panic
  <2>2. QED
    BY <2>1, NothingStep
<1>3. QED
  BY <1>1, <1>2

(* Every step.                                                             *)
LEMMA InodeInvNext ==
    ASSUME InodeInv, [Next]_vars
    PROVE  InodeInv'
<1>1. CASE UNCHANGED vars
  <2>1. UNCHANGED <<disk, icache, lock, proc>>
    BY <1>1 DEF vars
  <2>2. QED
    BY <2>1, NothingStep
<1>2. ASSUME NEW p \in Procs,
             \/ SystemCall(p) \/ IgetPanics(p) \/ Ilock(p) \/ Iput(p)
             \/ Lookup(p) \/ Use(p) \/ Making(p) \/ Linking(p) \/ Unlinking(p)
      PROVE  InodeInv'
  <2>1. CASE SystemCall(p)
    BY <2>1, CallStep, CloseStep, GivesUpStep DEF SystemCall
  <2>2. CASE Iput(p)
    BY <2>2, IputTestStep, IputFreeStep, IputReleaseStep, IputDropStep DEF Iput
  <2>3. CASE Ilock(p) \/ Lookup(p) \/ Use(p)
    BY <2>3, IlockAny, LookupStep, UseStep
  <2>4. CASE Making(p) \/ Linking(p) \/ Unlinking(p)
    BY <2>4, MakingStep, LinkingStep, UnlinkingStep
  <2>5. CASE IgetPanics(p)
    <3>1. UNCHANGED <<disk, icache, lock, proc>>
      BY <2>5 DEF IgetPanics, Panic
    <3>2. QED
      BY <3>1, NothingStep
  <2>6. QED
    BY <1>2, <2>1, <2>2, <2>3, <2>4, <2>5
<1>3. QED
  BY <1>1, <1>2 DEF Next

-----------------------------------------------------------------------------
(* The file system as mkfs leaves it.                                      *)
LEMMA InodeInvInit ==
    ASSUME Init
    PROVE  InodeInv
<1>1. PICK root \in Slots : Begin(root)
  BY DEF Init
<1>2. /\ dinode = [i \in Inums |-> IF i = ROOTINO THEN Node("dir", 1) ELSE Node("free", 0)]
      /\ dir = [i \in Inums |-> IF i = ROOTINO
                                THEN [NoEntries EXCEPT !["."] = ROOTINO, ![".."] = ROOTINO]
                                ELSE NoEntries]
      /\ inum = [s \in Slots |-> IF s = root THEN ROOTINO ELSE None]
      /\ ref = [s \in Slots |-> IF s = root THEN Cardinality(Procs) ELSE 0]
      /\ valid = [s \in Slots |-> FALSE]
      /\ core = [s \in Slots |-> Node("free", 0)]
      /\ lock = [s \in Slots |-> Nobody]
      /\ pc = [p \in Procs |-> "user"] /\ after = [p \in Procs |-> "user"]
      /\ has = [p \in Procs |-> [r \in Registers |-> IF r = "cwd" THEN root ELSE None]]
      /\ call = [p \in Procs |-> NoCall] /\ rest = [p \in Procs |-> <<>>]
      /\ marked = [p \in Procs |-> None]
  BY <1>1 DEF Begin
<1>3. ROOTINO \in Inums /\ root # None /\ Nobody \notin Procs
  BY InodesAssumption
<1>4. \A t \in {"dir", "free"}, n \in {0, 1} : Node(t, n) \in [type : Types, nlink : Int]
  BY DEF Node, Types
<1>5. IsFiniteSet(Procs) /\ Cardinality(Procs) \in Nat
  BY InodesAssumption, FS_CardinalityType
<1>6. InodeShape
  <2>1. /\ dinode \in [Inums -> [type : Types, nlink : Int]]
        /\ core \in [Slots -> [type : Types, nlink : Int]]
    BY <1>2, <1>4
  <2>2. dir \in [Inums -> [Entries -> Inums \cup {None}]]
    <3>1. NoEntries \in [Entries -> Inums \cup {None}]
      BY DEF NoEntries
    <3>2. [NoEntries EXCEPT !["."] = ROOTINO, ![".."] = ROOTINO] \in [Entries -> Inums \cup {None}]
      BY <1>3, <3>1
    <3>3. QED
      BY <1>2, <3>1, <3>2
  <2>3. /\ inum \in [Slots -> Inums \cup {None}] /\ ref \in [Slots -> Nat]
        /\ valid \in [Slots -> BOOLEAN] /\ lock \in [Slots -> Procs \cup {Nobody}]
    BY <1>2, <1>3, <1>5
  <2>4. "user" \in Places /\ NoCall \in AnyCall
    BY DEF Places, AnyCall
  <2>5. pc \in [Procs -> Places] /\ after \in [Procs -> Places] /\ call \in [Procs -> AnyCall]
    BY <1>2, <2>4
  <2>6. has \in [Procs -> [Registers -> Slots \cup {None}]]
    BY <1>2
  <2>7. <<>> \in Seq(Entries)
    OBVIOUS
  <2>8. rest \in [Procs -> Seq(Entries)]
    BY <1>2, <2>7
  <2>9. marked \in [Procs -> Inums \cup {None}]
    BY <1>2
  <2>10. QED
    BY <2>1, <2>2, <2>3, <2>5, <2>6, <2>8, <2>9 DEF InodeShape
<1>7. \A p \in Procs : Place(p) = "user" /\ ~InIput(p)
  BY <1>2 DEF Place, InIput, PutPlaces
<1>8. \A p \in Procs : RegistersOf(p)
  BY <1>2, <1>3, <1>7 DEF RegistersOf, UsedAt, OnTheWay, LinkPlaces, PutPlaces, Registers
<1>9. LocksAgree
  <2>1. \A p \in Procs : \A r \in Registers : ~Locks(p, r)
    BY <1>2, <1>7 DEF Locks, LockedAt
  <2>2. QED
    BY <1>2, <1>3, <2>1 DEF LocksAgree, Holds
<1>10. PointersAgree
  <2>1. \A q \in Procs \X Registers : has[q[1]][q[2]] = IF q[2] = "cwd" THEN root ELSE None
    BY <1>2
  <2>2. Pointers(root) = Procs \X {"cwd"}
    BY <1>3, <2>1 DEF Pointers, Registers
  <2>3. Cardinality(Pointers(root)) = Cardinality(Procs)
    <3>1. IsFiniteSet({"cwd"}) /\ Cardinality({"cwd"}) = 1
      BY FS_Singleton
    <3>2. Cardinality(Procs \X {"cwd"}) = Cardinality(Procs) * Cardinality({"cwd"})
      BY <1>5, <3>1, FS_Product
    <3>3. QED
      BY <1>5, <2>2, <3>1, <3>2
  <2>4. ASSUME NEW s \in Slots, s # root PROVE ref[s] = Cardinality(Pointers(s))
    <3>1. Pointers(s) = {}
      BY <2>1, <2>4, InodesAssumption DEF Pointers
    <3>2. Cardinality({}) = 0
      BY FS_EmptySet
    <3>3. QED
      BY <1>2, <2>4, <3>1, <3>2
  <2>5. QED
    BY <1>2, <2>3, <2>4 DEF PointersAgree
<1>11. OneEntry /\ CacheAgrees
  <2>1. \A s \in Slots : ref[s] > 0 => s = root
    BY <1>2
  <2>2. \A s \in Slots : ~valid[s]
    BY <1>2
  <2>3. inum[root] \in Inums
    BY <1>2, <1>3
  <2>4. QED
    BY <2>1, <2>2, <2>3 DEF OneEntry, CacheAgrees
<1>12. QED
  BY <1>6, <1>8, <1>9, <1>10, <1>11 DEF InodeInv

(***************************************************************************)
(* THEOREM: whatever the processes call, what each has in hand, locked or  *)
(* not, is as its place in the call says, and the cache agrees with it     *)
(* (fs.c: iget, ilock, iput, and sysfile.c).                               *)
(***************************************************************************)
THEOREM InodeInvariant == Spec => []InodeInv
<1>1. Init => InodeInv
  BY InodeInvInit
<1>2. InodeInv /\ [Next]_vars => InodeInv'
  BY InodeInvNext
<1>3. QED
  BY <1>1, <1>2, PTL DEF Spec

(***************************************************************************)
(* THEOREM: ref counts the pointers there are: none is left when iput()    *)
(* lets the last go, and an entry is not given to another inode before     *)
(* (fs.c: iget, idup, iput).                                               *)
(***************************************************************************)
THEOREM PointersCounted == Spec => []PointersAgree
<1>1. InodeInv => PointersAgree
  BY DEF InodeInv
<1>2. QED
  BY <1>1, InodeInvariant, PTL

(***************************************************************************)
(* THEOREM: two processes that use an inode use the same entry, and so the *)
(* same lock (fs.c: iget).                                                 *)
(***************************************************************************)
THEOREM InodeHasOneLock == Spec => []OneEntry
<1>1. InodeInv => OneEntry
  BY DEF InodeInv
<1>2. QED
  BY <1>1, InodeInvariant, PTL

(***************************************************************************)
(* THEOREM: what is valid in the cache is what the disk has, unless it is  *)
(* freed and about to be invalid (fs.c: ilock, iupdate, iput).             *)
(***************************************************************************)
THEOREM CacheIsTheDisk == Spec => []CoreAgrees
<1>1. InodeInv => CoreAgrees
  BY DEF InodeInv, CacheAgrees, CoreAgrees
<1>2. QED
  BY <1>1, InodeInvariant, PTL
-----------------------------------------------------------------------------
(* Names and link counts.  How much a finite set has changed: by an        *)
(* element more, an element less, or not in size.                          *)
Within(T, S, k) ==
    \/ k = 0 /\ T \subseteq S
    \/ k = 1 /\ \E x : T \subseteq S \cup {x}
    \/ k = -1 /\ \E x \in S : T \subseteq S \ {x}

LEMMA WithinSize ==
    ASSUME NEW S, IsFiniteSet(S), NEW T, NEW k \in {-1, 0, 1}, Within(T, S, k)
    PROVE  /\ Cardinality(T) \in Nat /\ Cardinality(S) \in Nat
           /\ Cardinality(T) <= Cardinality(S) + k
<1>1. Cardinality(S) \in Nat
  BY FS_CardinalityType
<1>2. CASE k = 0
  <2>1. T \subseteq S
    BY <1>2 DEF Within
  <2>2. QED
    BY <1>1, <1>2, <2>1, FS_Subset, FS_CardinalityType
<1>3. CASE k = 1
  <2>1. PICK x : T \subseteq S \cup {x}
    BY <1>3 DEF Within
  <2>2. /\ IsFiniteSet(S \cup {x})
        /\ Cardinality(S \cup {x}) = IF x \in S THEN Cardinality(S) ELSE Cardinality(S) + 1
    BY FS_AddElement
  <2>3. Cardinality(T) <= Cardinality(S \cup {x}) /\ Cardinality(T) \in Nat
    BY <2>1, <2>2, FS_Subset, FS_CardinalityType
  <2>4. QED
    BY <1>1, <1>3, <2>2, <2>3
<1>4. CASE k = -1
  <2>1. PICK x \in S : T \subseteq S \ {x}
    BY <1>4 DEF Within
  <2>2. IsFiniteSet(S \ {x}) /\ Cardinality(S \ {x}) = Cardinality(S) - 1
    BY <2>1, FS_RemoveElement
  <2>3. Cardinality(T) <= Cardinality(S \ {x}) /\ Cardinality(T) \in Nat
    BY <2>1, <2>2, FS_Subset, FS_CardinalityType
  <2>4. QED
    BY <1>1, <1>4, <2>2, <2>3
<1>5. QED
  BY <1>2, <1>3, <1>4

(* What the links of an inode are counted from is finite, ...              *)
LEMMA LinksFinite ==
    \A i : IsFiniteSet(NamesOf(i)) /\ IsFiniteSet(Inside(i)) /\ IsFiniteSet(Owing(i))
<1> SUFFICES ASSUME NEW i
             PROVE  IsFiniteSet(NamesOf(i)) /\ IsFiniteSet(Inside(i)) /\ IsFiniteSet(Owing(i))
  OBVIOUS
<1>1. IsFiniteSet(Inums \X Names)
  BY InodesAssumption, FS_Product
<1>2. NamesOf(i) \subseteq Inums \X Names
  BY DEF NamesOf
<1>3. Inside(i) \subseteq Inums
  BY DEF Inside
<1>4. Owing(i) \subseteq Procs
  BY DEF Owing
<1>5. QED
  BY <1>1, <1>2, <1>3, <1>4, InodesAssumption, FS_Subset

(* ... and a step changes the sum as it changes the parts.                 *)
Shift(i, a, b, c) ==
    /\ Within(NamesOf(i)', NamesOf(i), a) /\ Within(Inside(i)', Inside(i), b)
    /\ Within(Owing(i)', Owing(i), c)

LEMMA LinksStep ==
    ASSUME NEW i \in Inums, NEW a \in {-1, 0, 1}, NEW b \in {-1, 0, 1}, NEW c \in {-1, 0, 1},
           Shift(i, a, b, c)
    PROVE  /\ Links(i) \in Nat /\ Links(i)' \in Nat
           /\ Links(i)' <= Links(i) + a + b + c
<1>1. IsFiniteSet(NamesOf(i)) /\ IsFiniteSet(Inside(i)) /\ IsFiniteSet(Owing(i))
  BY LinksFinite
<1>2. PICK n, m, d, e, o, q : /\ n = Cardinality(NamesOf(i)) /\ m = Cardinality(NamesOf(i)')
                              /\ d = Cardinality(Inside(i)) /\ e = Cardinality(Inside(i)')
                              /\ o = Cardinality(Owing(i)) /\ q = Cardinality(Owing(i)')
  OBVIOUS
<1>3. n \in Nat /\ m \in Nat /\ m <= n + a
  BY <1>1, <1>2, WithinSize DEF Shift
<1>4. d \in Nat /\ e \in Nat /\ e <= d + b
  BY <1>1, <1>2, WithinSize DEF Shift
<1>5. o \in Nat /\ q \in Nat /\ q <= o + c
  BY <1>1, <1>2, WithinSize DEF Shift
<1>6. PICK r \in {0, 1} : r = IF i = ROOTINO THEN 1 ELSE 0
  OBVIOUS
<1>7. Links(i) = n + d + o + r
  BY <1>2, <1>6 DEF Links
<1>8. Links(i)' = m + e + q + r
  BY <1>2, <1>6 DEF Links
<1>9. a \in Int /\ b \in Int /\ c \in Int
  OBVIOUS
<1> HIDE <1>2, <1>6
<1>10. QED
  BY <1>3, <1>4, <1>5, <1>7, <1>8, <1>9

(* An inode that anything counts as a link to is not free, nor being made  *)
(* or freed.                                                               *)
LEMMA Linked ==
    ASSUME InodeInv, NamesInv, NEW i \in Inums,
           \/ i = ROOTINO \/ NamesOf(i) # {} \/ Inside(i) # {} \/ Owing(i) # {}
    PROVE  Settled(i) /\ dinode[i].nlink >= 1
<1>1. IsFiniteSet(NamesOf(i)) /\ IsFiniteSet(Inside(i)) /\ IsFiniteSet(Owing(i))
  BY LinksFinite
<1>2. /\ Cardinality(NamesOf(i)) \in Nat /\ Cardinality(Inside(i)) \in Nat
      /\ Cardinality(Owing(i)) \in Nat
  BY <1>1, FS_CardinalityType
<1>3. /\ NamesOf(i) # {} => Cardinality(NamesOf(i)) # 0
      /\ Inside(i) # {} => Cardinality(Inside(i)) # 0
      /\ Owing(i) # {} => Cardinality(Owing(i)) # 0
  BY <1>1, FS_EmptySet
<1>4. Links(i) \in Nat /\ Links(i) >= 1
  BY <1>2, <1>3 DEF Links
<1>5. Links(i) <= dinode[i].nlink /\ dinode[i].nlink \in Int
  BY Shape DEF NamesInv, LinksCounted
<1>6. dinode[i].nlink >= 1
  BY <1>4, <1>5
<1>7. dinode[i].type # "free"
  BY <1>6 DEF NamesInv, Directories
<1>8. \A p \in Procs : Raw(p) => Newborn(p) # i
  <2>1. SUFFICES ASSUME NEW p \in Procs, Raw(p), Newborn(p) = i PROVE FALSE
    OBVIOUS
  <2>2. Fresh(p)
    BY DEF NamesInv
  <2>3. dinode[i] = Node(Type(p), 0)
    BY <2>1, <2>2 DEF Fresh
  <2>4. dinode[i].nlink = 0
    BY <2>3 DEF Node
  <2>5. QED
    BY <1>6, <2>4
<1>9. \A p \in Procs : Going(p) => Inode(p, "giving") # i
  BY <1>6 DEF NamesInv, Leaving
<1>10. QED
  BY <1>6, <1>7, <1>8, <1>9 DEF Settled

-----------------------------------------------------------------------------
(* The pointers there are lead where they led.                             *)
Kept ==
    \A q \in Procs : \A r \in Registers :
      has[q][r] # None => inum'[has[q][r]] = inum[has[q][r]]

LEMMA KeptIget ==
    ASSUME InodeInv, NEW i \in Inums, NEW s \in Slots, Iget(i, s)
    PROVE  Kept
<1> SUFFICES ASSUME NEW q \in Procs, NEW r \in Registers, has[q][r] # None
             PROVE  inum'[has[q][r]] = inum[has[q][r]]
  BY DEF Kept
<1>1. has[q][r] \in Slots /\ ref[has[q][r]] > 0
  BY PointerInUse
<1>2. \A t \in Slots : t # s \/ ref[s] > 0 => inum'[t] = inum[t]
  BY IgetFacts
<1>3. QED
  BY <1>1, <1>2

(* What a process has where these inodes are in the middle of something.   *)
LEMMA MiddleFacts ==
    ASSUME InodeInv, NEW q \in Procs
    PROVE  /\ Raw(q) => /\ has[q].dp # None /\ rest[q] # <<>> /\ Newborn(q) \in Inums
                        /\ Place(q) = pc[q] /\ ~InIput(q) /\ has[q].old = None
                        /\ IF pc[q] = "marked" THEN has[q].ip = None ELSE has[q].ip # None
           /\ Going(q) => has[q].giving # None /\ InIput(q)
           /\ Place(q) = "removed" => has[q].ip # None /\ has[q].old = None
           /\ pc[q] \in {"victim", "remove"} => Place(q) = pc[q] /\ has[q].ip # None /\ has[q].dp # None
           /\ {"ip", "dp", "old", "giving", "cwd", "file"} \subseteq Registers
<1>1. RegistersOf(q) /\ marked \in [Procs -> Inums \cup {None}]
  BY Shape DEF InodeInv, InodeShape
<1>2. Raw(q) => Place(q) = pc[q] /\ ~InIput(q) /\ pc[q] \in {"marked", "new", "fill"}
  BY DEF Raw, Place, InIput, PutPlaces
<1>3. Going(q) => InIput(q)
  BY DEF Going, InIput, PutPlaces
<1>4. /\ \A place \in {"new", "fill", "victim", "remove"} : UsedAt(place, "ip") /\ UsedAt(place, "dp")
      /\ UsedAt("marked", "dp") /\ ~UsedAt("marked", "ip")
  BY DEF UsedAt
<1>5. UsedAt("removed", "ip")
  BY DEF UsedAt
<1>6. {"marked", "new", "fill", "removed"} \cap (OnTheWay \cup LinkPlaces) = {}
  BY DEF OnTheWay, LinkPlaces
<1>7. pc[q] \in {"victim", "remove"} => Place(q) = pc[q]
  BY DEF Place, InIput, PutPlaces
<1>8. {"ip", "dp", "old", "giving", "cwd", "file"} \subseteq Registers
  BY DEF Registers
<1>9. Raw(q) => /\ has[q].dp # None /\ rest[q] # <<>> /\ has[q].old = None
                /\ IF pc[q] = "marked" THEN has[q].ip = None ELSE has[q].ip # None
  BY <1>1, <1>2, <1>4, <1>6 DEF RegistersOf
<1>10. Raw(q) => Newborn(q) \in Inums
  <2>1. CASE pc[q] = "marked"
    BY <1>1, <1>2, <2>1 DEF Newborn, RegistersOf
  <2>2. CASE pc[q] # "marked"
    BY <1>8, <1>9, <2>2, PointerInUse DEF Newborn, Inode
  <2>3. QED
    BY <2>1, <2>2
<1>11. QED
  BY <1>1, <1>2, <1>3, <1>4, <1>5, <1>6, <1>7, <1>8, <1>9, <1>10 DEF RegistersOf

(* For the other processes nothing of their own changes.                   *)
Same(q) ==
    /\ has'[q] = has[q] /\ pc'[q] = pc[q] /\ after'[q] = after[q]
    /\ call'[q] = call[q] /\ rest'[q] = rest[q] /\ Place(q)' = Place(q)
    /\ Raw(q)' <=> Raw(q)
    /\ Going(q)' <=> Going(q)
    /\ InIput(q)' <=> InIput(q)
    /\ Raw(q) => Newborn(q)' = Newborn(q)
    /\ \A r \in Registers : has[q][r] # None => Inode(q, r)' = Inode(q, r)
    /\ \A r \in Registers : Steady(q, r)' <=> Steady(q, r)
    /\ \A i : Owes(q, i)' <=> Owes(q, i)

LEMMA OthersSame ==
    ASSUME InodeInv, NEW p \in Procs, Still(p), Kept
    PROVE  \A q \in Procs \ {p} : Same(q)
<1> SUFFICES ASSUME NEW q \in Procs \ {p} PROVE Same(q)
  OBVIOUS
<1>1. /\ has'[q] = has[q] /\ pc'[q] = pc[q] /\ after'[q] = after[q]
      /\ call'[q] = call[q] /\ rest'[q] = rest[q] /\ marked'[q] = marked[q]
  BY DEF Still
<1>2. InIput(q)' <=> InIput(q)
  BY <1>1 DEF InIput
<1>3. Place(q)' = Place(q)
  BY <1>1, <1>2 DEF Place
<1>4. (Raw(q)' <=> Raw(q)) /\ (Going(q)' <=> Going(q))
  BY <1>1 DEF Raw, Going
<1>5. \A r \in Registers : has[q][r] # None => Inode(q, r)' = Inode(q, r)
  BY <1>1 DEF Kept, Inode
<1>6. ASSUME NEW i PROVE Owes(q, i)' <=> Owes(q, i)
  <2>1. Place(q) = "removed" => has[q].ip # None
    BY MiddleFacts
  <2>2. {"ip", "old"} \subseteq Registers
    BY DEF Registers
  <2>3. has[q].old # None => Inode(q, "old")' = Inode(q, "old")
    BY <1>5, <2>2
  <2>4. Place(q) = "removed" => Inode(q, "ip")' = Inode(q, "ip")
    BY <1>5, <2>1, <2>2
  <2>5. QED
    BY <1>1, <1>3, <2>3, <2>4 DEF Owes
<1>7. Raw(q) => Newborn(q)' = Newborn(q)
  <2>1. SUFFICES ASSUME Raw(q) PROVE Newborn(q)' = Newborn(q)
    OBVIOUS
  <2>2. pc[q] # "marked" => has[q].ip # None /\ "ip" \in Registers
    BY <2>1, MiddleFacts
  <2>3. QED
    BY <1>1, <1>5, <2>2 DEF Newborn
<1>8. \A r \in Registers : Steady(q, r)' <=> Steady(q, r)
  BY <1>1, <1>4 DEF Steady
<1>9. QED
  BY <1>1, <1>2, <1>3, <1>4, <1>5, <1>6, <1>7, <1>8 DEF Same

(* What a process has in hand is settled.                                  *)
LEMMA HandSettled ==
    ASSUME InodeInv, NamesInv, NEW q \in Procs
    PROVE  /\ \A r \in {"dp", "old", "file", "cwd"} :
                has[q][r] # None => Settled(Inode(q, r)) /\ Inode(q, r) \in Inums
           /\ pc[q] \in {"victim", "remove"} \/ Place(q) = "removed" =>
                call[q].op = "unlink" /\ Settled(Inode(q, "ip")) /\ Inode(q, "ip") \in Inums
           /\ Raw(q) => Newborn(q) \in Inums /\ Inode(q, "dp") \in Inums
<1>1. RegistersOf(q) /\ InHand(q) /\ Knows(q)
  BY Shape DEF NamesInv
<1>2. \A r \in {"ip", "dp", "old", "file", "cwd"} :
        r \in Registers /\ (has[q][r] # None => Inode(q, r) \in Inums)
  <2>1. SUFFICES ASSUME NEW r \in {"ip", "dp", "old", "file", "cwd"}
                 PROVE  r \in Registers /\ (has[q][r] # None => Inode(q, r) \in Inums)
    OBVIOUS
  <2>2. r \in Registers
    BY DEF Registers
  <2>3. QED
    BY <2>2, PointerInUse DEF Inode
<1>3. \A r \in {"dp", "old", "file", "cwd"} : has[q][r] # None => Steady(q, r)
  BY DEF Steady
<1>4. pc[q] \in {"victim", "remove"} \/ Place(q) = "removed" =>
        call[q].op = "unlink" /\ has[q].ip # None /\ ~Raw(q)
  <2>1. pc[q] \in {"victim", "remove"} => Place(q) \in {"victim", "remove"} /\ has[q].ip # None
    BY MiddleFacts
  <2>2. Place(q) = "removed" => has[q].ip # None
    BY MiddleFacts
  <2>3. Raw(q) => Place(q) = pc[q] /\ pc[q] \in {"marked", "new", "fill"}
    BY MiddleFacts DEF Raw
  <2>4. QED
    BY <1>1, <2>1, <2>2, <2>3 DEF Knows
<1>5. pc[q] \in {"victim", "remove"} \/ Place(q) = "removed" => Steady(q, "ip")
  BY <1>4 DEF Steady
<1>6. Raw(q) => has[q].dp # None /\ Newborn(q) \in Inums
  BY MiddleFacts
<1>7. QED
  BY <1>1, <1>2, <1>3, <1>4, <1>5, <1>6 DEF InHand

(* What a step of p owes to process q, ...                                 *)
Has(q, i) == \E r \in Registers : Steady(q, r) /\ Inode(q, r) = i

Spares(p, q) ==
    /\ Raw(q) => /\ dinode'[Newborn(q)] = dinode[Newborn(q)]
                 /\ dir'[Newborn(q)] = dir[Newborn(q)]
                 /\ Raw(p)' => Newborn(p)' # Newborn(q)
    /\ Going(q) => dinode'[Inode(q, "giving")].nlink = 0
    /\ pc[q] = "free" => (Raw(p)' => Newborn(p)' # Inode(q, "giving"))
    /\ \A r \in {"dp", "old"} :
         has[q][r] # None => dinode'[Inode(q, r)].type = dinode[Inode(q, r)].type
    /\ pc[q] \in {"marked", "new", "fill", "victim", "remove"} =>
         dir'[Inode(q, "dp")][Head(rest[q])] = dir[Inode(q, "dp")][Head(rest[q])]
    /\ \A i : Has(q, i) => Settled(i)'

(* ... for q to know afterwards what it knew.                              *)
Fine(q) == InHand(q) /\ Fresh(q) /\ Leaving(q) /\ Knows(q)

LEMMA OthersStay ==
    ASSUME InodeInv, NamesInv, NEW p \in Procs, Still(p), Kept,
           \A q \in Procs \ {p} : Spares(p, q)
    PROVE  \A q \in Procs \ {p} : Fine(q)'
<1> SUFFICES ASSUME NEW q \in Procs \ {p} PROVE Fine(q)'
  OBVIOUS
<1>1. \A o \in Procs \ {p} : Same(o)
  BY OthersSame
<1>2. /\ has'[q] = has[q] /\ pc'[q] = pc[q] /\ after'[q] = after[q]
      /\ call'[q] = call[q] /\ rest'[q] = rest[q] /\ Place(q)' = Place(q)
      /\ Raw(q)' <=> Raw(q)
      /\ Going(q)' <=> Going(q)
      /\ InIput(q)' <=> InIput(q)
      /\ \A r \in Registers : has[q][r] # None => Inode(q, r)' = Inode(q, r)
      /\ \A r \in Registers : Steady(q, r)' <=> Steady(q, r)
  BY <1>1 DEF Same
<1>3. /\ Raw(q) => has[q].dp # None
      /\ Going(q) => has[q].giving # None
      /\ pc[q] \in {"victim", "remove"} => has[q].ip # None /\ has[q].dp # None
      /\ {"ip", "dp", "old", "giving", "cwd", "file"} \subseteq Registers
  BY MiddleFacts
<1>4. InHand(q) /\ Fresh(q) /\ Leaving(q) /\ Knows(q) /\ Spares(p, q)
  BY DEF NamesInv
<1>5. /\ Raw(q) => Newborn(q)' = Newborn(q) /\ Inode(q, "dp")' = Inode(q, "dp")
      /\ Going(q) => Inode(q, "giving")' = Inode(q, "giving")
      /\ pc[q] \in {"victim", "remove"} =>
           Inode(q, "ip")' = Inode(q, "ip") /\ Inode(q, "dp")' = Inode(q, "dp")
  BY <1>1, <1>2, <1>3 DEF Same
<1>6. ASSUME NEW o \in Procs \ {p}, Raw(o)'
      PROVE  Raw(o) /\ Newborn(o)' = Newborn(o)
  BY <1>1, <1>6 DEF Same
<1>7. InHand(q)'
  <2>1. SUFFICES ASSUME NEW r \in Registers, Steady(q, r)'
                 PROVE  Settled(Inode(q, r))'
    BY DEF InHand
  <2>2. Steady(q, r) /\ has[q][r] # None
    BY <1>2, <2>1 DEF Steady
  <2>3. Inode(q, r)' = Inode(q, r)
    BY <1>2, <2>2
  <2>4. PICK i : i = Inode(q, r)
    OBVIOUS
  <2>5. Has(q, i)
    BY <2>2, <2>4 DEF Has
  <2>6. Settled(i)'
    BY <1>4, <2>5 DEF Spares
  <2>7. i = Inode(q, r)'
    BY <2>3, <2>4
  <2>8. QED
    BY <2>6, <2>7 DEF Settled
<1>8. Fresh(q)'
  <2>1. SUFFICES ASSUME Raw(q)' PROVE Fresh(q)'
    BY DEF Fresh
  <2>2. Raw(q) /\ Type(q)' = Type(q)
    BY <1>2, <2>1 DEF Type
  <2>3. dinode'[Newborn(q)'] = Node(Type(q)', 0) /\ dir'[Newborn(q)'] = NoEntries
    BY <1>4, <1>5, <2>2 DEF Fresh, Spares
  <2>4. ASSUME NEW o \in Procs \ {q}, Raw(o)'
        PROVE  Newborn(o)' # Newborn(q)'
    <3>1. CASE o = p
      BY <1>4, <1>5, <2>2, <2>4, <3>1 DEF Spares
    <3>2. CASE o # p
      BY <1>4, <1>5, <1>6, <2>2, <2>4, <3>2 DEF Fresh
    <3>3. QED
      BY <3>1, <3>2
  <2>5. QED
    BY <2>3, <2>4 DEF Fresh, Node, NoEntries
<1>9. Leaving(q)'
  <2>1. Going(q)' => dinode'[Inode(q, "giving")'].nlink = 0
    BY <1>2, <1>4, <1>5 DEF Spares
  <2>2. ASSUME pc'[q] = "free", NEW o \in Procs, Raw(o)'
        PROVE  Newborn(o)' # Inode(q, "giving")'
    <3>1. pc[q] = "free" /\ Going(q) /\ Inode(q, "giving")' = Inode(q, "giving")
      BY <1>2, <1>5, <2>2 DEF Going
    <3>2. CASE o = p
      BY <1>4, <2>2, <3>1, <3>2 DEF Spares
    <3>3. CASE o # p
      BY <1>4, <1>6, <2>2, <3>1, <3>3 DEF Leaving
    <3>4. QED
      BY <3>2, <3>3
  <2>3. QED
    BY <2>1, <2>2 DEF Leaving
<1>10. Knows(q)'
  <2>1. /\ (\A k \in DOMAIN rest[q] : rest[q][k] # "..")'
        /\ (Raw(q) \/ Place(q) = "made" => Makes(q))'
        /\ (Place(q) \in {"victim", "remove", "notempty", "removed"} => call[q].op = "unlink")'
        /\ (InIput(q) => after[q] \notin {"marked", "new", "fill", "victim", "remove"})'
    BY <1>2, <1>4 DEF Knows, Makes
  <2>2. /\ (has[q].dp # None => dinode[Inode(q, "dp")].type = "dir")'
        /\ (has[q].old # None => dinode[Inode(q, "old")].type = "file")'
    BY <1>2, <1>3, <1>4 DEF Knows, Spares
  <2>3. pc[q] \in {"marked", "new", "fill", "victim", "remove"} => Entry(q, "dp")' = Entry(q, "dp")
    <3>1. SUFFICES ASSUME pc[q] \in {"marked", "new", "fill", "victim", "remove"}
                   PROVE  Entry(q, "dp")' = Entry(q, "dp")
      OBVIOUS
    <3>2. Inode(q, "dp")' = Inode(q, "dp")
      BY <1>5, <3>1 DEF Raw
    <3>3. dir'[Inode(q, "dp")][Head(rest[q])] = dir[Inode(q, "dp")][Head(rest[q])]
      BY <1>4, <3>1 DEF Spares
    <3>4. QED
      BY <1>2, <3>2, <3>3 DEF Entry, Inode
  <2>4. /\ (Raw(q) => Entry(q, "dp") = None)'
        /\ (pc[q] \in {"victim", "remove"} =>
              Head(rest[q]) \in Names /\ Entry(q, "dp") = Inode(q, "ip"))'
    BY <1>2, <1>4, <1>5, <2>3 DEF Knows, Raw
  <2>5. QED
    BY <2>1, <2>2, <2>4 DEF Knows
<1>11. QED
  BY <1>7, <1>8, <1>9, <1>10 DEF Fine

(* The links of an inode whose count has changed as much, or not less.     *)
LEMMA CountKept ==
    ASSUME InodeInv, InodeInv', NamesInv, NEW i \in Inums,
           NEW a \in {-1, 0, 1}, NEW b \in {-1, 0, 1}, NEW c \in {-1, 0, 1}, Shift(i, a, b, c),
           dinode[i].nlink + a + b + c <= dinode'[i].nlink
    PROVE  Links(i)' <= dinode'[i].nlink
<1>1. Links(i) \in Nat /\ Links(i)' \in Nat /\ Links(i)' <= Links(i) + a + b + c
  BY LinksStep
<1>2. dinode[i].nlink \in Int
  BY Shape
<1>3. dinode' \in [Inums -> [type : Types, nlink : Int]]
  BY DEF InodeInv, InodeShape
<1>4. dinode'[i].nlink \in Int
  BY <1>3
<1>5. Links(i) <= dinode[i].nlink
  BY DEF NamesInv, LinksCounted
<1>6. a \in Int /\ b \in Int /\ c \in Int
  OBVIOUS
<1>7. PICK l, m, n, o : /\ l = Links(i) /\ m = Links(i)'
                        /\ n = dinode[i].nlink /\ o = dinode'[i].nlink
  OBVIOUS
<1>8. /\ l \in Int /\ m \in Int /\ n \in Int /\ o \in Int
      /\ m <= l + a + b + c /\ l <= n /\ n + a + b + c <= o
  BY <1>1, <1>2, <1>4, <1>5, <1>7
<1>9. m <= o
  BY <1>6, <1>8
<1>10. QED
  BY <1>7, <1>9

(* The steps that leave the disk alone, and inodes that are being made or  *)
(* freed in the hands they are in.                                         *)
Quiet(p) ==
    /\ dinode' = dinode /\ dir' = dir /\ Still(p) /\ Kept
    /\ Raw(p)' <=> Raw(p)
    /\ Raw(p) => Newborn(p)' = Newborn(p) /\ call'[p] = call[p]
    /\ \A i : Owes(p, i)' => Owes(p, i)
    /\ Going(p)' => Going(p) /\ Inode(p, "giving")' = Inode(p, "giving")
    /\ pc'[p] # "free"

LEMMA QuietSettled ==
    ASSUME InodeInv, NEW p \in Procs, Quiet(p)
    PROVE  \A i : Settled(i) => Settled(i)'
<1> SUFFICES ASSUME NEW i, Settled(i) PROVE Settled(i)'
  OBVIOUS
<1>1. \A q \in Procs \ {p} : Same(q)
  BY OthersSame DEF Quiet
<1>2. dinode'[i].type # "free"
  BY DEF Quiet, Settled
<1>3. ASSUME NEW q \in Procs, Raw(q)' PROVE Newborn(q)' # i
  <2>1. Raw(q) /\ Newborn(q)' = Newborn(q)
    <3>1. CASE q = p
      BY <1>3, <3>1 DEF Quiet
    <3>2. CASE q # p
      BY <1>1, <1>3, <3>2, MiddleFacts DEF Same
    <3>3. QED
      BY <3>1, <3>2
  <2>2. QED
    BY <2>1 DEF Settled
<1>4. ASSUME NEW q \in Procs, Going(q)' PROVE Inode(q, "giving")' # i
  <2>1. Going(q) /\ Inode(q, "giving")' = Inode(q, "giving")
    <3>1. CASE q = p
      BY <1>4, <3>1 DEF Quiet
    <3>2. CASE q # p
      BY <1>1, <1>4, <3>2, MiddleFacts DEF Same
    <3>3. QED
      BY <3>1, <3>2
  <2>2. QED
    BY <2>1 DEF Settled
<1>5. QED
  BY <1>2, <1>3, <1>4 DEF Settled

(* Nothing on the disk changes, nor what create() is in the middle of.      *)
Calm(p) ==
    /\ dinode' = dinode /\ dir' = dir /\ Still(p) /\ Kept
    /\ Raw(p)' <=> Raw(p)
    /\ Raw(p) => Newborn(p)' = Newborn(p)
    /\ \A i : Owes(p, i)' => Owes(p, i)

RawsStay ==
    /\ \A q \in Procs : Raw(q)' <=> Raw(q)
    /\ \A q \in Procs : Raw(q) => Newborn(q)' = Newborn(q)

LEMMA CalmLinks ==
    ASSUME InodeInv, InodeInv', NamesInv, NEW p \in Procs, Calm(p)
    PROVE  RawsStay /\ LinksCounted' /\ Directories'
<1>1. \A q \in Procs \ {p} : Same(q)
  BY OthersSame DEF Calm
<1>2. /\ dinode' = dinode /\ dir' = dir
      /\ Raw(p)' <=> Raw(p)
      /\ Raw(p) => Newborn(p)' = Newborn(p)
      /\ \A i : Owes(p, i)' => Owes(p, i)
  BY DEF Calm
<1>3. \A q \in Procs : /\ Raw(q)' <=> Raw(q)
                       /\ Raw(q) => Newborn(q)' = Newborn(q)
  <2>1. SUFFICES ASSUME NEW q \in Procs
                 PROVE  /\ Raw(q)' <=> Raw(q)
                        /\ Raw(q) => Newborn(q)' = Newborn(q)
    OBVIOUS
  <2>2. CASE q = p
    BY <1>2, <2>2
  <2>3. CASE q # p
    BY <1>1, <2>3, MiddleFacts DEF Same
  <2>4. QED
    BY <2>2, <2>3
<1>4. LinksCounted'
  <2>1. SUFFICES ASSUME NEW i \in Inums PROVE Links(i)' <= dinode'[i].nlink
    BY DEF LinksCounted
  <2>2. NamesOf(i)' = NamesOf(i)
    BY <1>2 DEF NamesOf
  <2>3. Inside(i)' = Inside(i)
    BY <1>2 DEF Inside, NamesOf
  <2>4. Owing(i)' \subseteq Owing(i)
    BY <1>1, <1>2 DEF Owing, Same
  <2>5. Shift(i, 0, 0, 0)
    BY <2>2, <2>3, <2>4 DEF Shift, Within
  <2>6. dinode[i].nlink + 0 + 0 + 0 <= dinode'[i].nlink
    <3>1. dinode[i].nlink \in Int
      BY Shape
    <3>2. QED
      BY <1>2, <3>1
  <2>7. QED
    BY <2>5, <2>6, CountKept
<1>5. Directories'
  <2>1. Directories
    BY DEF NamesInv
  <2>2. ASSUME NEW i \in Inums, (\A q \in Procs : Raw(q) => Newborn(q) # i)'
        PROVE  \A q \in Procs : Raw(q) => Newborn(q) # i
    BY <1>3, <2>2
  <2>3. QED
    BY <1>2, <2>1, <2>2 DEF Directories
<1>6. QED
  BY <1>3, <1>4, <1>5 DEF RawsStay

(* No inode is freed, and the names are as they should be.                 *)
FreesNothing == \A i \in Inums : dinode[i].type # "free" => dinode'[i].type # "free"

LEMMA QuietStep ==
    ASSUME InodeInv, InodeInv', NamesInv, NEW p \in Procs, Quiet(p), InHand(p)', Knows(p)'
    PROVE  NamesInv' /\ FreesNothing
<1>1. \A q \in Procs \ {p} : Same(q)
  BY OthersSame DEF Quiet
<1>2. /\ dinode' = dinode /\ dir' = dir /\ Still(p) /\ Kept
      /\ Raw(p)' <=> Raw(p)
      /\ Raw(p) => Newborn(p)' = Newborn(p) /\ call'[p] = call[p]
      /\ \A i : Owes(p, i)' => Owes(p, i)
      /\ Going(p)' => Going(p) /\ Inode(p, "giving")' = Inode(p, "giving")
      /\ pc'[p] # "free"
  BY DEF Quiet
<1>3. Calm(p)
  BY <1>2 DEF Calm
<1>4. RawsStay /\ LinksCounted' /\ Directories'
  BY <1>3, CalmLinks
<1>6. ASSUME NEW q \in Procs \ {p} PROVE Spares(p, q)
  <2>1. Fresh(q) /\ Leaving(q) /\ InHand(q) /\ Fresh(p)
    BY DEF NamesInv
  <2>2. Raw(q) /\ Raw(p)' => Newborn(p)' # Newborn(q)
    BY <1>2, <2>1 DEF Fresh
  <2>3. pc[q] = "free" => (Raw(p)' => Newborn(p)' # Inode(q, "giving"))
    BY <1>2, <1>6, <2>1 DEF Leaving
  <2>4. \A i : Has(q, i) => Settled(i)'
    <3>1. \A i : Has(q, i) => Settled(i)
      BY <2>1 DEF Has, InHand
    <3>2. QED
      BY <3>1, QuietSettled
  <2>5. Going(q) => dinode'[Inode(q, "giving")].nlink = 0
    BY <1>2, <2>1 DEF Leaving
  <2>6. QED
    BY <1>2, <2>2, <2>3, <2>4, <2>5 DEF Spares
<1>7. \A q \in Procs \ {p} : Fine(q)'
  BY <1>2, <1>6, OthersStay
<1>8. Fresh(p)'
  <2>1. SUFFICES ASSUME Raw(p)' PROVE Fresh(p)'
    BY DEF Fresh
  <2>2. Fresh(p) /\ Raw(p) /\ Newborn(p)' = Newborn(p) /\ Type(p)' = Type(p)
    BY <1>2, <2>1 DEF NamesInv, Type
  <2>3. dinode'[Newborn(p)'] = Node(Type(p)', 0) /\ dir'[Newborn(p)'] = NoEntries
    BY <1>2, <2>2 DEF Fresh
  <2>4. \A q \in Procs \ {p} : Raw(q)' => Newborn(q)' # Newborn(p)'
    BY <1>4, <2>2 DEF Fresh, RawsStay
  <2>5. QED
    BY <2>3, <2>4 DEF Fresh, Node, NoEntries
<1>9. Leaving(p)'
  <2>1. Leaving(p)
    BY DEF NamesInv
  <2>2. QED
    BY <1>2, <2>1 DEF Leaving
<1>10. QED
  BY <1>2, <1>4, <1>7, <1>8, <1>9 DEF NamesInv, Fine, FreesNothing

-----------------------------------------------------------------------------
(* The quiet steps.  A process has afterwards what it had, or what is     *)
(* settled.                                                                *)
Comes(p, r) ==
    \/ \E t \in Registers : Steady(p, t) /\ has'[p][r] = has[p][t]
    \/ \E i : i = Inode(p, r)' /\ Settled(i)

LEMMA ComesInHand ==
    ASSUME InodeInv, NamesInv, NEW p \in Procs, Quiet(p),
           \A r \in Registers : Steady(p, r)' => Comes(p, r)
    PROVE  InHand(p)'
<1>1. SUFFICES ASSUME NEW r \in Registers, Steady(p, r)' PROVE Settled(Inode(p, r))'
  BY DEF InHand
<1>2. \E i : i = Inode(p, r)' /\ Settled(i)
  <2>1. CASE \E t \in Registers : Steady(p, t) /\ has'[p][r] = has[p][t]
    <3>1. PICK t \in Registers : Steady(p, t) /\ has'[p][r] = has[p][t]
      BY <2>1
    <3>2. has[p][t] # None
      BY <3>1 DEF Steady
    <3>3. inum'[has[p][t]] = inum[has[p][t]]
      BY <3>2 DEF Quiet, Kept
    <3>4. Inode(p, r)' = Inode(p, t)
      BY <3>1, <3>3 DEF Inode
    <3>5. Settled(Inode(p, t))
      BY <3>1 DEF NamesInv, InHand
    <3>6. QED
      BY <3>4, <3>5
  <2>2. QED
    BY <1>1, <2>1 DEF Comes
<1>3. PICK i : i = Inode(p, r)' /\ Settled(i)
  BY <1>2
<1>4. Settled(i)'
  BY <1>3, QuietSettled
<1>5. QED
  BY <1>3, <1>4 DEF Settled

(* First the steps after which it has no inode that it had not before.     *)
Carries(p) ==
    /\ dinode' = dinode /\ dir' = dir /\ Still(p) /\ Kept /\ ~Raw(p)
    /\ Place(p)' \notin {"marked", "new", "fill", "victim", "remove"}
    /\ Place(p)' = "made" => Makes(p)'
    /\ Place(p)' \in {"notempty", "removed"} => call'[p].op = "unlink"
    /\ Place(p)' = "removed" => Place(p) = "removed" /\ has'[p].ip = has[p].ip
    /\ \A r \in {"dp", "old"} : has'[p][r] \in {has[p][r], None}
    /\ has'[p].old # None /\ Place(p) = "linked" => Place(p)' = "linked"
    /\ rest'[p] \in {rest[p], <<>>}
    /\ Going(p)' => Going(p) /\ has'[p].giving = has[p].giving
    /\ pc'[p] # "free"
    /\ \A r \in Registers :
         Steady(p, r)' => \E t \in Registers : Steady(p, t) /\ has'[p][r] = has[p][t]

LEMMA CarriesQuiet ==
    ASSUME InodeInv, NEW p \in Procs, Carries(p)
    PROVE  Quiet(p) /\ ~Raw(p)' /\ pc'[p] \notin {"victim", "remove"}
<1>1. pc'[p] \notin {"marked", "new", "fill", "victim", "remove"}
  BY DEF Carries, Place, InIput, PutPlaces
<1>2. ~Raw(p)' /\ ~Raw(p)
  BY <1>1 DEF Carries, Raw
<1>3. \A r \in Registers : has'[p][r] # None /\ has'[p][r] = has[p][r] =>
        inum'[has'[p][r]] = inum[has[p][r]]
  BY DEF Carries, Kept
<1>4. {"ip", "dp", "old", "giving", "cwd", "file"} \subseteq Registers
  BY DEF Registers
<1>5. ASSUME NEW i, Owes(p, i)' PROVE Owes(p, i)
  <2>1. CASE Place(p)' = "removed" /\ inum'[has'[p].ip] = i
    <3>1. Place(p) = "removed" /\ has'[p].ip = has[p].ip /\ has[p].ip # None
      BY <2>1, MiddleFacts DEF Carries
    <3>2. QED
      BY <1>3, <1>4, <2>1, <3>1 DEF Owes, Inode
  <2>2. CASE has'[p].old # None /\ inum'[has'[p].old] = i /\ Place(p)' # "linked"
    <3>1. has'[p].old = has[p].old /\ Place(p) # "linked"
      BY <2>2 DEF Carries
    <3>2. QED
      BY <1>3, <1>4, <2>2, <3>1 DEF Owes, Inode
  <2>3. QED
    BY <1>5, <2>1, <2>2 DEF Owes, Inode
<1>6. ASSUME Going(p)' PROVE Going(p) /\ Inode(p, "giving")' = Inode(p, "giving")
  <2>1. Going(p) /\ has'[p].giving = has[p].giving /\ has[p].giving # None
    BY <1>6, MiddleFacts DEF Carries
  <2>2. QED
    BY <1>3, <1>4, <2>1 DEF Inode
<1>7. QED
  BY <1>1, <1>2, <1>5, <1>6 DEF Carries, Quiet

LEMMA CarriesStep ==
    ASSUME InodeInv, InodeInv', NamesInv, NEW p \in Procs, Carries(p)
    PROVE  NamesInv' /\ FreesNothing
<1>1. Quiet(p) /\ ~Raw(p)' /\ ~Raw(p) /\ pc'[p] \notin {"victim", "remove"}
  BY CarriesQuiet DEF Carries
<1>2. {"dp", "old"} \subseteq Registers /\ Knows(p)
  BY DEF Registers, NamesInv
<1>3. \A r \in {"dp", "old"} :
        has'[p][r] # None => has[p][r] # None /\ Inode(p, r)' = Inode(p, r)
  BY <1>2 DEF Carries, Kept, Inode
<1>4. InHand(p)'
  <2>1. \A r \in Registers : Steady(p, r)' => Comes(p, r)
    BY DEF Carries, Comes
  <2>2. QED
    BY <1>1, <2>1, ComesInHand
<1>5. Knows(p)'
  <2>1. (\A k \in DOMAIN rest[p] : rest[p][k] # "..")'
    <3>1. CASE rest'[p] = rest[p]
      BY <1>2, <3>1 DEF Knows
    <3>2. CASE rest'[p] = <<>>
      BY <3>2
    <3>3. QED
      BY <3>1, <3>2 DEF Carries
  <2>2. (has[p].dp # None => dinode[Inode(p, "dp")].type = "dir")'
    BY <1>2, <1>3 DEF Knows, Carries
  <2>3. (has[p].old # None => dinode[Inode(p, "old")].type = "file")'
    BY <1>2, <1>3 DEF Knows, Carries
  <2>4. (InIput(p) => after[p] \notin {"marked", "new", "fill", "victim", "remove"})'
    BY DEF Carries, Place
  <2>5. (Place(p) \in {"victim", "remove", "notempty", "removed"} => call[p].op = "unlink")'
    BY DEF Carries
  <2>6. (Raw(p) \/ Place(p) = "made" => Makes(p))'
    BY <1>1 DEF Carries
  <2>7. QED
    BY <1>1, <2>1, <2>2, <2>3, <2>4, <2>5, <2>6 DEF Knows
<1>6. QED
  BY <1>1, <1>4, <1>5, QuietStep

(* An inode is given back, ...                                             *)
LEMMA GivesUpNames ==
    ASSUME InodeInv, InodeInv', NamesInv, NEW p \in Procs, GivesUp(p)
    PROVE  NamesInv' /\ FreesNothing
<1>1. PICK r \in {"ip", "dp", "old", "file"} :
        \E place : GivingUp(p, r, place) /\ <<pc[p], r, place>> \in Unwritten
  BY GivenUp DEF GivesUp
<1>0. PICK place : GivingUp(p, r, place) /\ <<pc[p], r, place>> \in Unwritten
  BY <1>1
<1>2. GivesBack(p, r, place)
  BY <1>0, GivenUp
<1>3. /\ Still(p) /\ pc'[p] = "put" /\ after'[p] = place
      /\ has'[p] = [has[p] EXCEPT !["giving"] = has[p][r], ![r] = None]
  <2>1. Still(p)
    BY <1>2, PutFacts
  <2>2. pc'[p] = "put"
    BY <1>2, PutFacts
  <2>3. after'[p] = place
    <3>1. after' = [after EXCEPT ![p] = place] /\ after \in [Procs -> Places]
      BY <1>2 DEF GivesBack, Put, InodeInv, InodeShape
    <3>2. QED
      BY <3>1
  <2>4. has'[p] = [has[p] EXCEPT !["giving"] = has[p][r], ![r] = None]
    BY <1>2, PutFacts
  <2>5. QED
    BY <2>1, <2>2, <2>3, <2>4
<1>4. /\ UNCHANGED <<dinode, dir, inum, call, rest>> /\ has[p] \in [Registers -> Slots \cup {None}]
      /\ Knows(p)
  BY <1>2 DEF GivesUp, GivesBack, disk, icache, InodeInv, InodeShape, NamesInv
<1>5. place \in {"user", "undo", "notempty"} /\ pc[p] \notin {"marked", "new", "fill"} /\ pc[p] \notin PutPlaces
  BY <1>0 DEF Unwritten, PutPlaces
<1>6. Place(p)' = place /\ ~Going(p)' /\ ~Raw(p) /\ Place(p) = pc[p]
  BY <1>3, <1>5 DEF Place, InIput, PutPlaces, Going, Raw
<1>7. \A t \in {"ip", "dp", "old", "file", "cwd"} : has'[p][t] \in {has[p][t], None}
  BY <1>2, <1>3, <1>4 DEF Registers
<1>8. has'[p].old # None => place # "notempty" /\ pc[p] # "linked"
  <2>1. pc[p] = "linked" => r = "old"
    BY <1>0 DEF Unwritten
  <2>2. r = "old" => has'[p].old = None
    BY <1>3, <1>4 DEF Registers
  <2>3. has'[p].old # None /\ r # "old" => has[p].old # None
    BY <1>7
  <2>4. has[p].old # None /\ r # "old" => place \in LinkPlaces
    BY <1>0 DEF GivingUp, OldStays
  <2>5. QED
    BY <2>1, <2>2, <2>3, <2>4 DEF LinkPlaces
<1>9. place = "notempty" => call'[p].op = "unlink"
  <2>1. place = "notempty" => pc[p] = "remove"
    BY <1>0 DEF Unwritten
  <2>2. QED
    BY <1>4, <1>6, <2>1 DEF Knows
<1>10. Kept
  BY <1>4 DEF Kept
<1>11. ASSUME NEW t \in Registers, Steady(p, t)'
       PROVE  \E u \in Registers : Steady(p, u) /\ has'[p][t] = has[p][u]
  <2>1. has'[p][t] # None /\ r \in Registers /\ r # "giving"
    BY <1>11 DEF Steady, Registers
  <2>2. CASE t = "giving"
    <3>1. has'[p][t] = has[p][r] /\ has[p][r] # None
      BY <1>3, <1>4, <2>1, <2>2
    <3>2. Steady(p, r)
      BY <1>6, <2>1, <3>1 DEF Steady
    <3>3. QED
      BY <2>1, <3>1, <3>2
  <2>3. CASE t # "giving"
    <3>1. has'[p][t] = has[p][t] /\ has[p][t] # None
      BY <1>3, <1>4, <2>1, <2>3
    <3>2. Steady(p, t)
      BY <1>6, <2>3, <3>1 DEF Steady
    <3>3. QED
      BY <3>1, <3>2
  <2>4. QED
    BY <2>2, <2>3
<1>12. Carries(p)
  BY <1>3, <1>4, <1>5, <1>6, <1>7, <1>8, <1>9, <1>10, <1>11 DEF Carries
<1>13. QED
  BY <1>12, CarriesStep

(* ... iput() goes on with one that stays allocated, ...                   *)
LEMMA IputQuiet ==
    ASSUME InodeInv, InodeInv', NamesInv, NEW p \in Procs,
           IputTest(p) \/ IputRelease(p) \/ IputDrop(p), pc'[p] # "free"
    PROVE  NamesInv' /\ FreesNothing
<1>1. /\ InIput(p) /\ ~Raw(p) /\ Place(p) = after[p] /\ RegistersOf(p) /\ Knows(p)
  BY Shape DEF IputTest, IputRelease, IputDrop, At, InIput, PutPlaces, Raw, Place, NamesInv
<1>2. /\ pc \in [Procs -> Places] /\ after \in [Procs -> Places]
      /\ has \in [Procs -> [Registers -> Slots \cup {None}]]
      /\ call \in [Procs -> AnyCall]
      /\ "giving" \in Registers
  BY DEF InodeInv, InodeShape, Registers
<1>3. UNCHANGED <<dinode, dir, inum>> /\ Kept
  BY DEF IputTest, IputRelease, IputDrop, disk, icache, Kept
<1>4. after[p] \notin {"marked", "new", "fill", "victim", "remove"} /\ after[p] \notin PutPlaces
  BY <1>1 DEF Knows, RegistersOf
<1>5. CASE IputDrop(p)
  <2>1. /\ pc[p] = "drop" /\ pc' = [pc EXCEPT ![p] = after[p]] /\ after' = [after EXCEPT ![p] = "user"]
        /\ has' = [has EXCEPT ![p]["giving"] = None]
        /\ IF after[p] = "user" THEN Return(p) ELSE UNCHANGED <<call, rest>>
    BY <1>5 DEF IputDrop, At, Goto
  <2>2. UNCHANGED <<call, rest>> \/ Return(p)
    BY <2>1
  <2>3. \A q \in Procs \ {p} : call'[q] = call[q] /\ rest'[q] = rest[q]
    BY <2>2, CallsTyped
  <2>4. Still(p) /\ pc'[p] = after[p]
    <3>1. marked' = marked
      BY <1>5 DEF IputDrop
    <3>2. QED
      BY <1>2, <2>1, <2>3, <3>1 DEF Still
  <2>5. \A t \in Registers \ {"giving"} : has'[p][t] = has[p][t]
    BY <1>2, <2>1
  <2>6. Place(p)' = Place(p) /\ ~Going(p)'
    BY <1>1, <1>4, <2>4 DEF Place, InIput, Going, PutPlaces
  <2>7. IF after[p] = "user" THEN call'[p] = NoCall /\ rest'[p] = <<>> ELSE UNCHANGED <<call, rest>>
    BY <1>2, <2>1, Shape DEF Return
  <2>8. \A t \in Registers : Steady(p, t)' => Steady(p, t) /\ has'[p][t] = has[p][t]
    <3>1. has'[p]["giving"] = None
      BY <1>2, <2>1
    <3>2. QED
      BY <1>1, <2>5, <3>1 DEF Steady
  <2>9. \A t \in {"ip", "dp", "old"} : has'[p][t] = has[p][t]
    BY <2>5 DEF Registers
  <2>10. Place(p)' = "made" => Makes(p)'
    BY <1>1, <2>6, <2>7 DEF Knows, Makes
  <2>11. Place(p)' \in {"notempty", "removed"} => call'[p].op = "unlink"
    BY <1>1, <2>6, <2>7 DEF Knows
  <2>12. Carries(p)
    BY <1>1, <1>3, <1>4, <2>4, <2>6, <2>7, <2>8, <2>9, <2>10, <2>11 DEF Carries
  <2>13. QED
    BY <2>12, CarriesStep
<1>6. CASE IputTest(p) \/ IputRelease(p)
  <2>1. pc' = [pc EXCEPT ![p] = "drop"] /\ UNCHANGED <<after, has, call, rest, marked>>
    BY <1>6 DEF IputTest, IputRelease, Goto
  <2>2. Still(p) /\ pc'[p] = "drop"
    BY <1>2, <2>1 DEF Still
  <2>3. Place(p)' = Place(p) /\ ~Going(p)'
    BY <1>1, <2>1, <2>2 DEF Place, InIput, Going, PutPlaces
  <2>4. Place(p)' = "made" => Makes(p)'
    BY <1>1, <2>1, <2>3 DEF Knows, Makes
  <2>5. Place(p)' \in {"notempty", "removed"} => call'[p].op = "unlink"
    BY <1>1, <2>1, <2>3 DEF Knows
  <2>6. \A t \in Registers : Steady(p, t)' => Steady(p, t) /\ has'[p][t] = has[p][t]
    BY <1>1, <2>1, <2>2 DEF Steady
  <2>7. Carries(p)
    BY <1>1, <1>3, <1>4, <2>1, <2>2, <2>3, <2>4, <2>5, <2>6 DEF Carries
  <2>8. QED
    BY <2>7, CarriesStep
<1>7. QED
  BY <1>5, <1>6

(* ... and an inode becomes an open file or the current directory.         *)
LEMMA OpenQuiet ==
    ASSUME InodeInv, InodeInv', NamesInv, NEW p \in Procs, pc[p] \in {"made", "use"},
           UNCHANGED <<disk, icache, marked>>,
           \/ OpenFile(p) /\ call[p].op \in {"open", "create"}
           \/ Chdir(p) /\ call[p].op = "chdir"
    PROVE  NamesInv' /\ FreesNothing
<1>1. /\ pc \in [Procs -> Places] /\ after \in [Procs -> Places]
      /\ has \in [Procs -> [Registers -> Slots \cup {None}]] /\ RegistersOf(p)
      /\ call \in [Procs -> AnyCall]
      /\ UNCHANGED <<dinode, dir, inum, marked>>
  BY DEF InodeInv, InodeShape, disk, icache
<1>2. Place(p) = pc[p] /\ ~Raw(p) /\ Locks(p, "ip") /\ "ip" \in Registers /\ has[p].old = None
  BY <1>1 DEF Place, InIput, PutPlaces, Raw, Locks, LockedAt, Registers, RegistersOf, OnTheWay, LinkPlaces
<1>3. \A t \in Registers \ {"giving"} : has[p][t] # None => Steady(p, t)
  BY <1>2 DEF Steady
<1>4. Kept
  BY <1>1 DEF Kept
<1>5. CASE OpenFile(p)
  <2>1. /\ has' = [has EXCEPT ![p]["file"] = has[p].ip, ![p]["ip"] = None]
        /\ pc' = [pc EXCEPT ![p] = "user"] /\ Return(p) /\ after' = after
    BY <1>5 DEF OpenFile, Goto
  <2>2. has' = [has EXCEPT ![p] = [has[p] EXCEPT !["file"] = has[p].ip, !["ip"] = None]]
    BY <1>1, <2>1
  <2>3. /\ has'[p] = [has[p] EXCEPT !["file"] = has[p].ip, !["ip"] = None]
        /\ \A q \in Procs \ {p} : has'[q] = has[q]
    BY <1>1, <2>2
  <2>4. /\ has'[p].file = has[p].ip /\ has'[p].ip = None
        /\ \A t \in Registers \ {"ip", "file"} : has'[p][t] = has[p][t]
    BY <1>1, <2>3 DEF Registers
  <2>5. \A q \in Procs \ {p} : call'[q] = call[q] /\ rest'[q] = rest[q]
    BY <2>1, CallsTyped
  <2>6. Still(p) /\ pc'[p] = "user"
    BY <1>1, <2>1, <2>3, <2>5 DEF Still
  <2>7. Place(p)' = "user" /\ ~Going(p)'
    BY <2>6 DEF Place, InIput, PutPlaces, Going
  <2>8. rest'[p] = <<>>
    BY <1>1, <2>1, Shape DEF Return
  <2>9. ASSUME NEW t \in Registers, Steady(p, t)'
        PROVE  \E u \in Registers : Steady(p, u) /\ has'[p][t] = has[p][u]
    <3>1. has'[p][t] # None /\ t # "giving"
      BY <2>6, <2>9 DEF Steady
    <3>2. CASE t = "file"
      BY <1>2, <1>3, <2>4, <3>1, <3>2
    <3>3. CASE t # "file"
      BY <1>3, <2>4, <3>1, <3>3
    <3>4. QED
      BY <3>2, <3>3
  <2>10. {"dp", "old"} \subseteq Registers
    BY DEF Registers
  <2>11. Carries(p)
    BY <1>1, <1>2, <1>4, <2>4, <2>6, <2>7, <2>8, <2>9, <2>10 DEF Carries
  <2>12. QED
    BY <2>11, CarriesStep
<1>6. CASE Chdir(p) /\ call[p].op = "chdir"
  <2>1. /\ has' = [has EXCEPT ![p]["giving"] = has[p].cwd, ![p]["cwd"] = has[p].ip, ![p]["ip"] = None]
        /\ pc' = [pc EXCEPT ![p] = "put"] /\ UNCHANGED <<call, rest>>
        /\ after' = [after EXCEPT ![p] = "user"]
    BY <1>6 DEF Chdir, Goto
  <2>2. has' = [has EXCEPT ![p] = [has[p] EXCEPT !["giving"] = has[p].cwd, !["cwd"] = has[p].ip,
                                                 !["ip"] = None]]
    BY <1>1, <2>1
  <2>3. /\ has'[p] = [has[p] EXCEPT !["giving"] = has[p].cwd, !["cwd"] = has[p].ip, !["ip"] = None]
        /\ \A q \in Procs \ {p} : has'[q] = has[q]
    BY <1>1, <2>2
  <2>4. /\ has'[p].cwd = has[p].ip /\ has'[p].ip = None
        /\ has'[p].giving = has[p].cwd
        /\ \A t \in Registers \ {"ip", "cwd", "giving"} : has'[p][t] = has[p][t]
    BY <1>1, <2>3 DEF Registers
  <2>5. Still(p) /\ pc'[p] = "put" /\ after'[p] = "user"
    BY <1>1, <2>1, <2>3 DEF Still
  <2>6. Place(p)' = "user" /\ ~Going(p)'
    BY <2>5 DEF Place, InIput, PutPlaces, Going
  <2>7. ASSUME NEW t \in Registers, Steady(p, t)'
        PROVE  \E u \in Registers : Steady(p, u) /\ has'[p][t] = has[p][u]
    <3>1. has'[p][t] # None /\ "cwd" \in Registers
      BY <2>7 DEF Steady, Registers
    <3>2. CASE t = "cwd"
      BY <1>2, <1>3, <2>4, <3>1, <3>2
    <3>3. CASE t = "giving"
      BY <1>3, <2>4, <3>1, <3>3
    <3>4. CASE t \notin {"cwd", "giving"}
      BY <1>3, <2>4, <3>1, <3>4
    <3>5. QED
      BY <3>2, <3>3, <3>4
  <2>8. {"dp", "old"} \subseteq Registers
    BY DEF Registers
  <2>9. Carries(p)
    BY <1>1, <1>2, <1>4, <2>1, <2>4, <2>5, <2>6, <2>7, <2>8 DEF Carries
  <2>10. QED
    BY <2>9, CarriesStep
<1>7. QED
  BY <1>5, <1>6

(* Nothing happens.                                                        *)
LEMMA NothingNames ==
    ASSUME NamesInv, UNCHANGED <<disk, icache, proc>>
    PROVE  NamesInv' /\ FreesNothing
<1>1. /\ dinode' = dinode /\ dir' = dir /\ inum' = inum /\ pc' = pc /\ after' = after
      /\ has' = has /\ call' = call /\ rest' = rest /\ marked' = marked
  BY DEF disk, icache, proc
<1>2. \A q \in Procs :
        /\ Raw(q)' <=> Raw(q)
        /\ Newborn(q)' = Newborn(q)
        /\ \A r \in Registers : Steady(q, r)' <=> Steady(q, r)
        /\ Going(q)' <=> Going(q)
        /\ InIput(q)' <=> InIput(q)
        /\ Place(q)' = Place(q) /\ Type(q)' = Type(q) /\ Entry(q, "dp")' = Entry(q, "dp")
        /\ Makes(q)' <=> Makes(q)
        /\ \A r \in Registers : Inode(q, r)' = Inode(q, r)
  BY <1>1 DEF Raw, Going, InIput, Place, Type, Makes, Inode, Entry, Newborn, Steady
<1>3. {"ip", "dp", "old", "giving", "cwd", "file"} \subseteq Registers
  BY DEF Registers
<1>4. ASSUME NEW i \in Inums PROVE Links(i)' = Links(i)
  <2>1. NamesOf(i)' = NamesOf(i) /\ Inside(i)' = Inside(i)
    BY <1>1 DEF NamesOf, Inside
  <2>2. \A q \in Procs : Owes(q, i)' <=> Owes(q, i)
    BY <1>1, <1>2, <1>3 DEF Owes
  <2>3. Owing(i)' = Owing(i)
    BY <2>2 DEF Owing
  <2>4. QED
    BY <2>1, <2>3 DEF Links
<1>5. LinksCounted'
  BY <1>1, <1>4 DEF NamesInv, LinksCounted
<1>6. Directories'
  BY <1>1, <1>2, <1>3 DEF NamesInv, Directories
<1>7. \A i : Settled(i) => Settled(i)'
  BY <1>1, <1>2, <1>3 DEF Settled
<1>8. ASSUME NEW p \in Procs PROVE InHand(p)' /\ Fresh(p)' /\ Leaving(p)' /\ Knows(p)'
  <2>1. InHand(p) /\ Fresh(p) /\ Leaving(p) /\ Knows(p)
    BY DEF NamesInv
  <2>2. InHand(p)'
    <3>1. SUFFICES ASSUME NEW r \in Registers, Steady(p, r)' PROVE Settled(Inode(p, r))'
      BY DEF InHand
    <3>2. PICK i : i = Inode(p, r)
      OBVIOUS
    <3>3. Settled(i)
      BY <1>1, <1>2, <2>1, <3>1, <3>2 DEF InHand
    <3>4. Settled(i)' /\ i = Inode(p, r)'
      BY <1>2, <1>3, <1>7, <3>2, <3>3
    <3>5. QED
      BY <3>4 DEF Settled
  <2>3. Fresh(p)'
    BY <1>1, <1>2, <1>3, <2>1 DEF Fresh, Node, NoEntries
  <2>4. Leaving(p)'
    BY <1>1, <1>2, <1>3, <2>1 DEF Leaving
  <2>5. Knows(p)'
    BY <1>1, <1>2, <1>3, <2>1 DEF Knows
  <2>6. QED
    BY <2>2, <2>3, <2>4, <2>5
<1>9. QED
  BY <1>1, <1>5, <1>6, <1>8 DEF NamesInv, FreesNothing

(* ilock() of an inode in hand.                                            *)
LEMMA IlockNames ==
    ASSUME InodeInv, InodeInv', NamesInv, NEW p \in Procs, Ilock(p)
    PROVE  NamesInv' /\ FreesNothing
<1>1. CASE panicked' # "no"
  <2>1. UNCHANGED <<disk, icache, proc>>
    BY <1>1 DEF Ilock, Panic
  <2>2. QED
    BY <2>1, NothingNames
<1>2. CASE panicked' = "no"
  <2>1. PICK to : to = ToLock[pc[p]].then
    OBVIOUS
  <2>2. /\ pc' = [pc EXCEPT ![p] = to]
        /\ UNCHANGED <<dinode, dir, inum, after, has, call, rest, marked>>
    BY <1>2, <2>1 DEF Ilock, Panic, Goto, disk
  <2>3. pc[p] \in {"walk", "got", "parent", "new", "victim", "undo"}
    BY DEF Ilock, ToLock
  <2>4. /\ pc[p] \in {"walk", "got", "parent", "undo"} => to \in {"look", "use", "dir", "undone"}
        /\ pc[p] = "new" => to = "fill"
        /\ pc[p] = "victim" => to = "remove"
    BY <2>1 DEF ToLock
  <2>5. pc'[p] = to /\ Still(p)
    BY <2>2, Shape DEF Still
  <2>6. /\ Place(p)' = to /\ Place(p) = pc[p] /\ ~Going(p)'
        /\ ~InIput(p)' /\ to # "free"
    BY <2>3, <2>4, <2>5 DEF Place, InIput, PutPlaces, Going
  <2>7. Kept
    BY <2>2 DEF Kept
  <2>8. CASE pc[p] \in {"walk", "got", "parent", "undo"}
    <3>1. ~Raw(p)
      BY <2>8 DEF Raw
    <3>2. pc'[p] # "put"
      BY <2>4, <2>5, <2>8
    <3>3. \A t \in Registers : Steady(p, t)' => Steady(p, t) /\ has'[p][t] = has[p][t]
      BY <2>2, <3>1, <3>2 DEF Steady
    <3>4. Carries(p)
      BY <2>2, <2>4, <2>5, <2>6, <2>7, <2>8, <3>1, <3>3 DEF Carries
    <3>5. QED
      BY <3>4, CarriesStep
  <2>9. CASE pc[p] \in {"new", "victim"}
    <3>1. (Raw(p)' <=> Raw(p)) /\ (Raw(p) <=> pc[p] = "new") /\ Raw(p)' = (to = "fill")
      BY <2>4, <2>5, <2>9 DEF Raw
    <3>2. \A r \in Registers : Inode(p, r)' = Inode(p, r)
      BY <2>2 DEF Inode
    <3>3. {"ip", "dp", "old", "giving", "cwd", "file"} \subseteq Registers
      BY DEF Registers
    <3>4. \A i : Owes(p, i)' => Owes(p, i)
      BY <2>2, <2>4, <2>6, <2>9, <3>2, <3>3 DEF Owes
    <3>11. Newborn(p)' = Newborn(p)
      BY <2>2, <2>4, <2>5, <2>9, <3>2, <3>3 DEF Newborn
    <3>5. Quiet(p)
      BY <2>2, <2>5, <2>6, <2>7, <3>1, <3>2, <3>3, <3>4, <3>11 DEF Quiet
    <3>6. InHand(p) /\ Knows(p)
      BY DEF NamesInv
    <3>7. InHand(p)'
      <4>1. pc'[p] # "put"
        BY <2>4, <2>5, <2>9
      <4>2. \A r \in Registers : Steady(p, r)' => Comes(p, r)
        BY <2>2, <3>1, <4>1 DEF Steady, Comes
      <4>3. QED
        BY <3>5, <4>2, ComesInHand
    <3>8. Entry(p, "dp")' = Entry(p, "dp") /\ (Makes(p)' <=> Makes(p))
      BY <2>2 DEF Entry, Makes
    <3>9. Knows(p)'
      <4>1. (Raw(p) \/ Place(p) = "made" => Makes(p))'
        BY <2>4, <2>6, <2>9, <3>1, <3>6, <3>8 DEF Knows
      <4>2. (Place(p) \in {"victim", "remove", "notempty", "removed"} => call[p].op = "unlink")'
        BY <2>2, <2>4, <2>6, <2>9, <3>6 DEF Knows
      <4>3. (pc[p] \in {"victim", "remove"} =>
               Head(rest[p]) \in Names /\ Entry(p, "dp") = Inode(p, "ip"))'
        BY <2>2, <2>4, <2>5, <2>9, <3>2, <3>3, <3>6, <3>8 DEF Knows
      <4>4. /\ (\A k \in DOMAIN rest[p] : rest[p][k] # "..")'
            /\ (has[p].dp # None => dinode[Inode(p, "dp")].type = "dir")'
            /\ (has[p].old # None => dinode[Inode(p, "old")].type = "file")'
            /\ (Raw(p) => Entry(p, "dp") = None)'
        BY <2>2, <3>1, <3>2, <3>3, <3>6, <3>8 DEF Knows
      <4>5. QED
        BY <2>6, <4>1, <4>2, <4>3, <4>4 DEF Knows
    <3>10. QED
      BY <3>5, <3>7, <3>9, QuietStep
  <2>10. QED
    BY <2>3, <2>8, <2>9
<1>3. QED
  BY <1>1, <1>2

(* Then those after which it has an inode more: one that a name leads to,  *)
(* and that is settled.                                                    *)
LEMMA EntrySettled ==
    ASSUME InodeInv, NamesInv, NEW p \in Procs, pc[p] \in {"look", "dir"}, rest[p] # <<>>,
           NEW r \in {"ip", "dp"}, Locks(p, r), Entry(p, r) # None
    PROVE  Settled(Entry(p, r))
<1>1. PICK d, n, i : d = Inode(p, r) /\ n = Head(rest[p]) /\ i = Entry(p, r)
  OBVIOUS
<1>2. r \in Registers /\ InHand(p) /\ Knows(p) /\ Directories /\ ~Raw(p)
  BY DEF Registers, NamesInv, Raw
<1>3. has[p][r] # None /\ d \in Inums
  BY <1>1, <1>2, LockedIsMine, InodesAssumption DEF Inode
<1>4. Settled(d)
  BY <1>1, <1>2, <1>3 DEF InHand, Steady
<1>5. i \in Inums
  BY <1>1, <1>2, EntryInum
<1>6. dir[d][n] = i
  BY <1>1 DEF Entry, Inode
<1>7. n \in Entries /\ n # ".."
  <2>1. rest[p] \in Seq(Entries)
    BY Shape
  <2>2. n = rest[p][1] /\ 1 \in DOMAIN rest[p] /\ n \in Entries
    BY <1>1, <2>1
  <2>3. QED
    BY <1>2, <2>2 DEF Knows
<1>8. CASE n \in Names
  <2>1. <<d, n>> \in NamesOf(i)
    BY <1>3, <1>6, <1>8 DEF NamesOf
  <2>2. Settled(i)
    BY <1>5, <2>1, Linked
  <2>3. QED
    BY <1>1, <2>2
<1>9. CASE n = "."
  <2>1. dir[d] # NoEntries
    BY <1>1, <1>5, <1>6, <1>7, InodesAssumption DEF NoEntries
  <2>2. dir[d]["."] = d
    BY <1>2, <1>3, <1>4, <2>1 DEF Directories, Settled
  <2>3. QED
    BY <1>1, <1>4, <1>6, <1>9, <2>2
<1>10. QED
  BY <1>7, <1>8, <1>9 DEF Entries

Gains(p) ==
    /\ dinode' = dinode /\ dir' = dir /\ Still(p) /\ Kept /\ ~Raw(p)
    /\ Place(p)' \notin {"marked", "new", "fill", "remove", "made", "notempty", "removed"}
    /\ ~Going(p)'
    /\ InIput(p)' => Place(p)' # "victim"
    /\ has'[p].old = has[p].old
    /\ has[p].old # None => Place(p) # "linked"
    /\ \A k \in DOMAIN rest'[p] : rest'[p][k] # ".."
    /\ \A r \in Registers : Steady(p, r)' => Comes(p, r)
    /\ has'[p].dp # None => dinode[Inode(p, "dp")'].type = "dir"
    /\ Place(p)' = "victim" =>
         call'[p].op = "unlink" /\ Head(rest'[p]) \in Names /\ Entry(p, "dp")' = Inode(p, "ip")'

LEMMA GainsStep ==
    ASSUME InodeInv, InodeInv', NamesInv, NEW p \in Procs, Gains(p)
    PROVE  NamesInv' /\ FreesNothing
<1>1. {"ip", "dp", "old", "giving", "cwd", "file"} \subseteq Registers
  BY DEF Registers
<1>2. pc'[p] \notin {"marked", "new", "fill", "remove", "free", "freed"} /\ (pc'[p] = "victim" => Place(p)' = "victim")
  BY DEF Gains, Place, InIput, PutPlaces, Going
<1>3. ~Raw(p)' /\ ~Raw(p) /\ Place(p)' # "removed"
  BY <1>2 DEF Raw, Gains
<1>4. has[p].old # None => Inode(p, "old")' = Inode(p, "old")
  BY <1>1 DEF Gains, Kept, Inode
<1>5. \A i : Owes(p, i)' => Owes(p, i)
  BY <1>3, <1>4 DEF Owes, Gains
<1>6. Quiet(p)
  BY <1>2, <1>3, <1>5 DEF Quiet, Gains
<1>7. Knows(p)
  BY DEF NamesInv
<1>8. InHand(p)'
  BY <1>6, ComesInHand DEF Gains
<1>9. Knows(p)'
  <2>1. (has[p].old # None => dinode[Inode(p, "old")].type = "file")'
    BY <1>4, <1>7 DEF Knows, Gains
  <2>2. /\ (\A k \in DOMAIN rest[p] : rest[p][k] # "..")'
        /\ (has[p].dp # None => dinode[Inode(p, "dp")].type = "dir")'
        /\ (Place(p) \in {"victim", "remove", "notempty", "removed"} => call[p].op = "unlink")'
        /\ (pc[p] \in {"victim", "remove"} =>
              Head(rest[p]) \in Names /\ Entry(p, "dp") = Inode(p, "ip"))'
    BY <1>2 DEF Gains
  <2>3. (InIput(p) => after[p] \notin {"marked", "new", "fill", "victim", "remove"})'
    BY DEF Gains, Place
  <2>4. QED
    BY <1>3, <2>1, <2>2, <2>3 DEF Knows, Gains
<1>10. QED
  BY <1>6, <1>8, <1>9, QuietStep

(* The look-up's steps, ...                                                *)
LEMMA LookupNames ==
    ASSUME InodeInv, InodeInv', NamesInv, NEW p \in Procs, Lookup(p)
    PROVE  NamesInv' /\ FreesNothing
<1>1. /\ pc[p] = "look" /\ Locks(p, "ip") /\ Place(p) = "look" /\ ~Raw(p)
      /\ {"ip", "dp", "old", "giving", "cwd", "file"} \subseteq Registers
      /\ RegistersOf(p) /\ rest[p] # <<>> /\ rest[p] \in Seq(Entries)
  BY Shape DEF Lookup, LookStops, LookFinds, At, Locks, LockedAt, Place, InIput, PutPlaces, Raw,
               Registers, RegistersOf, OnTheWay
<1>2. has[p].ip # None /\ has[p].dp = None /\ InHand(p) /\ Knows(p)
  BY <1>1 DEF RegistersOf, UsedAt, NamesInv
<1>3. core[has[p].ip] = dinode[Inode(p, "ip")]
  BY <1>1, LockedAgrees DEF Inode
<1>4. CASE LookStops(p)
  <2>1. UNCHANGED <<disk, icache, call, rest>>
    BY <1>4 DEF LookStops
  <2>2. CASE Iunlockput(p, "ip", Failed(p))
    <3>1. GivesUp(p)
      BY <1>4, <2>1, <2>2, LookFails DEF LookStops
    <3>2. QED
      BY <3>1, GivesUpNames
  <2>3. CASE ~Iunlockput(p, "ip", Failed(p))
    <3>1. /\ core[has[p].ip].type = "dir" /\ WantsParent(p) /\ marked' = marked
          /\ has' = [has EXCEPT ![p]["dp"] = has[p].ip, ![p]["ip"] = None]
          /\ pc' = [pc EXCEPT ![p] = "parent"] /\ after' = after
      BY <1>4, <2>3 DEF LookStops, Goto, AtParent
    <3>2. /\ has'[p].dp = has[p].ip /\ has'[p].ip = None
          /\ \A t \in Registers \ {"ip", "dp"} : has'[p][t] = has[p][t]
          /\ \A q \in Procs \ {p} : has'[q] = has[q]
      BY <1>1, <3>1, Shape
    <3>3. Still(p) /\ pc'[p] = "parent"
      BY <2>1, <3>1, <3>2, Shape DEF Still
    <3>4. Place(p)' = "parent" /\ ~Going(p)'
      BY <3>3 DEF Place, InIput, PutPlaces, Going
    <3>5. Kept /\ dinode' = dinode /\ dir' = dir /\ Inode(p, "dp")' = Inode(p, "ip")
      BY <2>1, <3>2 DEF Kept, disk, icache, Inode
    <3>6. ASSUME NEW t \in Registers, Steady(p, t)' PROVE Comes(p, t)
      <4>1. has'[p][t] # None /\ t # "giving"
        BY <3>3, <3>6 DEF Steady
      <4>2. CASE t = "dp"
        <5>1. Steady(p, "ip")
          BY <1>1, <1>2 DEF Steady
        <5>2. QED
          BY <1>1, <3>2, <4>2, <5>1 DEF Comes
      <4>3. CASE t # "dp"
        <5>1. t # "ip" /\ has'[p][t] = has[p][t]
          BY <3>2, <4>1, <4>3
        <5>2. Steady(p, t)
          BY <4>1, <5>1 DEF Steady
        <5>3. QED
          BY <5>1, <5>2 DEF Comes
      <4>4. QED
        BY <4>2, <4>3
    <3>7. \A k \in DOMAIN rest'[p] : rest'[p][k] # ".."
      BY <1>2, <2>1 DEF Knows
    <3>8. Gains(p)
      BY <1>1, <1>3, <2>1, <3>1, <3>2, <3>3, <3>4, <3>5, <3>6, <3>7 DEF Gains
    <3>9. QED
      BY <3>8, GainsStep
  <2>4. QED
    BY <2>2, <2>3
<1>5. ASSUME NEW s \in Slots, LookFinds(p, s) PROVE NamesInv' /\ FreesNothing
  <2>1. PICK to : to = IF Len(rest[p]) = 1 THEN "got" ELSE "walk"
    OBVIOUS
  <2>2. /\ Entry(p, "ip") # None /\ Iget(Entry(p, "ip"), s)
        /\ has' = [has EXCEPT ![p]["giving"] = has[p].ip, ![p]["ip"] = s]
        /\ rest' = [rest EXCEPT ![p] = Tail(rest[p])] /\ after' = [after EXCEPT ![p] = to]
        /\ pc' = [pc EXCEPT ![p] = "put"] /\ UNCHANGED <<dinode, dir, call, marked>>
    BY <1>5, <2>1 DEF LookFinds, Goto, disk
  <2>3. /\ has'[p].ip = s /\ has'[p].giving = has[p].ip
        /\ \A t \in Registers \ {"ip", "giving"} : has'[p][t] = has[p][t]
        /\ \A q \in Procs \ {p} : has'[q] = has[q]
    BY <1>1, <2>2, Shape
  <2>4. Still(p) /\ pc'[p] = "put" /\ after'[p] = to /\ rest'[p] = Tail(rest[p])
    BY <2>2, <2>3, Shape DEF Still
  <2>5. Place(p)' = to /\ to \in {"got", "walk"} /\ ~Going(p)'
    BY <2>1, <2>4 DEF Place, InIput, PutPlaces, Going
  <2>6. Entry(p, "ip") \in Inums
    BY <1>1, <2>2, EntryInum
  <2>7. Kept /\ inum'[s] = Entry(p, "ip")
    BY <2>2, <2>6, KeptIget, IgetFacts
  <2>8. Inode(p, "ip")' = Entry(p, "ip")
    BY <2>3, <2>7 DEF Inode
  <2>9. ASSUME NEW t \in Registers, Steady(p, t)' PROVE Comes(p, t)
    <3>1. has'[p][t] # None
      BY <2>9 DEF Steady
    <3>2. CASE t = "ip"
      <4>1. Settled(Entry(p, "ip"))
        BY <1>1, <2>2, EntrySettled
      <4>2. QED
        BY <2>8, <3>2, <4>1 DEF Comes
    <3>3. CASE t = "giving"
      <4>1. Steady(p, "ip")
        BY <1>1, <1>2 DEF Steady
      <4>2. QED
        BY <1>1, <2>3, <3>3, <4>1 DEF Comes
    <3>4. CASE t \notin {"ip", "giving"}
      <4>1. Steady(p, t) /\ has'[p][t] = has[p][t]
        BY <2>3, <3>1, <3>4 DEF Steady
      <4>2. QED
        BY <4>1 DEF Comes
    <3>5. QED
      BY <3>2, <3>3, <3>4
  <2>10. \A k \in DOMAIN rest'[p] : rest'[p][k] # ".."
    <3>1. SUFFICES ASSUME NEW k \in DOMAIN Tail(rest[p])
                   PROVE  Tail(rest[p])[k] # ".."
      BY <2>4
    <3>2. k + 1 \in DOMAIN rest[p] /\ Tail(rest[p])[k] = rest[p][k + 1]
      BY <1>1, <3>1
    <3>3. QED
      BY <1>2, <3>1, <3>2 DEF Knows
  <2>11. Gains(p)
    BY <1>1, <1>2, <2>2, <2>3, <2>4, <2>5, <2>7, <2>8, <2>9, <2>10 DEF Gains
  <2>12. QED
    BY <2>11, GainsStep
<1>6. QED
  BY <1>4, <1>5 DEF Lookup

(* ... the names that are there already, ...                               *)
LEMMA ExistsNames ==
    ASSUME InodeInv, InodeInv', NamesInv, NEW p \in Procs, NEW s \in Slots,
           CreateExists(p, s) \/ LinkExists(p, s) \/ UnlinkFinds(p, s)
    PROVE  NamesInv' /\ FreesNothing
<1>1. /\ pc[p] = "dir" /\ Locks(p, "dp") /\ Place(p) = "dir" /\ ~Raw(p)
      /\ {"ip", "dp", "old", "giving", "cwd", "file"} \subseteq Registers
      /\ RegistersOf(p) /\ rest[p] # <<>> /\ rest[p] \in Seq(Entries)
  BY Shape DEF CreateExists, LinkExists, UnlinkFinds, At, Locks, LockedAt, Place, InIput, PutPlaces,
               Raw, Registers, RegistersOf, OnTheWay
<1>2. /\ Entry(p, "dp") # None /\ Iget(Entry(p, "dp"), s)
      /\ UNCHANGED <<dinode, dir, call, rest, marked>>
  BY DEF CreateExists, LinkExists, UnlinkFinds, disk
<1>3. has[p].ip = None /\ has[p].dp # None /\ InHand(p) /\ Knows(p)
  BY <1>1 DEF RegistersOf, UsedAt, NamesInv
<1>4. Entry(p, "dp") \in Inums /\ Settled(Entry(p, "dp"))
  BY <1>1, <1>2, EntryInum, EntrySettled
<1>5. Kept /\ inum'[s] = Entry(p, "dp")
  BY <1>2, <1>4, KeptIget, IgetFacts
<1>6. CASE CreateExists(p, s)
  <2>1. /\ has' = [has EXCEPT ![p]["giving"] = has[p].dp, ![p]["ip"] = s, ![p]["dp"] = None]
        /\ after' = [after EXCEPT ![p] = "got"] /\ pc' = [pc EXCEPT ![p] = "put"] /\ Makes(p)
    BY <1>6 DEF CreateExists, Goto
  <2>2. PICK mine : mine = [has[p] EXCEPT !["giving"] = has[p].dp, !["ip"] = s, !["dp"] = None]
    OBVIOUS
  <2>3. has' = [has EXCEPT ![p] = mine] /\ has[p] \in [Registers -> Slots \cup {None}]
    BY <2>1, <2>2, Shape
  <2>4. /\ mine.ip = s /\ mine.dp = None /\ mine.giving = has[p].dp
        /\ \A t \in Registers \ {"ip", "dp", "giving"} : mine[t] = has[p][t]
    BY <1>1, <2>2, <2>3
  <2>5. has'[p] = mine /\ \A q \in Procs \ {p} : has'[q] = has[q]
    BY <2>3, Shape
  <2>6. Still(p) /\ pc'[p] = "put" /\ after'[p] = "got"
    BY <1>2, <2>1, <2>5, Shape DEF Still
  <2>7. Place(p)' = "got" /\ ~Going(p)'
    BY <2>6 DEF Place, InIput, PutPlaces, Going
  <2>8. Inode(p, "ip")' = Entry(p, "dp")
    BY <1>5, <2>4, <2>5 DEF Inode
  <2>9. ASSUME NEW t \in Registers, Steady(p, t)' PROVE Comes(p, t)
    <3>1. has'[p][t] # None
      BY <2>9 DEF Steady
    <3>2. CASE t = "ip"
      BY <1>4, <2>8, <3>2 DEF Comes
    <3>3. CASE t = "giving"
      <4>1. Steady(p, "dp")
        BY <1>3 DEF Steady
      <4>2. QED
        BY <1>1, <2>4, <2>5, <3>3, <4>1 DEF Comes
    <3>4. CASE t \notin {"ip", "giving"}
      <4>1. Steady(p, t) /\ has'[p][t] = has[p][t]
        BY <2>4, <2>5, <3>1, <3>4 DEF Steady
      <4>2. QED
        BY <4>1 DEF Comes
    <3>5. QED
      BY <3>2, <3>3, <3>4
  <2>10. Gains(p)
    BY <1>1, <1>2, <1>3, <1>5, <2>4, <2>5, <2>6, <2>7, <2>9 DEF Gains, Knows
  <2>11. QED
    BY <2>10, GainsStep
<1>7. CASE LinkExists(p, s)
  <2>1. /\ has' = [has EXCEPT ![p]["giving"] = s]
        /\ after' = [after EXCEPT ![p] = "exists"] /\ pc' = [pc EXCEPT ![p] = "put"]
    BY <1>7 DEF LinkExists, Goto
  <2>2. /\ has'[p].giving = s /\ \A t \in Registers \ {"giving"} : has'[p][t] = has[p][t]
        /\ \A q \in Procs \ {p} : has'[q] = has[q]
    BY <1>1, <2>1, Shape
  <2>3. Still(p) /\ pc'[p] = "put" /\ after'[p] = "exists"
    BY <1>2, <2>1, <2>2, Shape DEF Still
  <2>4. Place(p)' = "exists" /\ ~Going(p)'
    BY <2>3 DEF Place, InIput, PutPlaces, Going
  <2>5. Inode(p, "giving")' = Entry(p, "dp")
    BY <1>5, <2>2 DEF Inode
  <2>6. ASSUME NEW t \in Registers, Steady(p, t)' PROVE Comes(p, t)
    <3>1. has'[p][t] # None
      BY <2>6 DEF Steady
    <3>2. CASE t = "giving"
      BY <1>4, <2>5, <3>2 DEF Comes
    <3>3. CASE t # "giving"
      <4>1. Steady(p, t) /\ has'[p][t] = has[p][t]
        BY <1>1, <2>2, <3>1, <3>3 DEF Steady
      <4>2. QED
        BY <4>1 DEF Comes
    <3>4. QED
      BY <3>2, <3>3
  <2>7. Inode(p, "dp")' = Inode(p, "dp") /\ dinode[Inode(p, "dp")].type = "dir"
    BY <1>1, <1>3, <1>5, <2>2 DEF Inode, Kept, Knows
  <2>8. Gains(p)
    BY <1>1, <1>2, <1>3, <1>5, <2>2, <2>3, <2>4, <2>6, <2>7 DEF Gains, Knows
  <2>9. QED
    BY <2>8, GainsStep
<1>8. CASE UnlinkFinds(p, s)
  <2>1. /\ has' = [has EXCEPT ![p]["ip"] = s] /\ call[p].op = "unlink"
        /\ pc' = [pc EXCEPT ![p] = "victim"] /\ after' = after /\ Head(rest[p]) \notin {".", ".."}
    BY <1>8 DEF UnlinkFinds, Goto, Dot
  <2>2. /\ has'[p].ip = s /\ \A t \in Registers \ {"ip"} : has'[p][t] = has[p][t]
        /\ \A q \in Procs \ {p} : has'[q] = has[q]
    BY <1>1, <2>1, Shape
  <2>3. Still(p) /\ pc'[p] = "victim"
    BY <1>2, <2>1, <2>2, Shape DEF Still
  <2>4. Place(p)' = "victim" /\ ~Going(p)' /\ ~InIput(p)'
    BY <2>3 DEF Place, InIput, PutPlaces, Going
  <2>5. Inode(p, "ip")' = Entry(p, "dp")
    BY <1>5, <2>2 DEF Inode
  <2>6. Inode(p, "dp")' = Inode(p, "dp")
    BY <1>1, <1>3, <1>5, <2>2 DEF Inode, Kept
  <2>7. Entry(p, "dp")' = Entry(p, "dp")
    BY <1>2, <2>6 DEF Entry, Inode
  <2>8. Head(rest[p]) \in Names
    BY <1>1, <2>1 DEF Entries
  <2>9. dinode[Inode(p, "dp")'].type = "dir"
    BY <1>3, <2>6 DEF Knows
  <2>10. ASSUME NEW t \in Registers, Steady(p, t)' PROVE Comes(p, t)
    <3>1. has'[p][t] # None /\ t # "giving"
      BY <2>3, <2>10 DEF Steady
    <3>2. CASE t = "ip"
      BY <1>4, <2>5, <3>2 DEF Comes
    <3>3. CASE t # "ip"
      <4>1. Steady(p, t) /\ has'[p][t] = has[p][t]
        BY <2>2, <3>1, <3>3 DEF Steady
      <4>2. QED
        BY <4>1 DEF Comes
    <3>4. QED
      BY <3>2, <3>3
  <2>11. Gains(p)
    BY <1>1, <1>2, <1>3, <1>5, <2>1, <2>2, <2>3, <2>4, <2>5, <2>6, <2>7, <2>8, <2>9, <2>10
       DEF Gains, Knows
  <2>12. QED
    BY <2>11, GainsStep
<1>9. QED
  BY <1>6, <1>7, <1>8

(* ... and the beginnings of look-ups.                                     *)
LEMMA NamexNames ==
    ASSUME InodeInv, InodeInv', NamesInv, NEW p \in Procs, NEW path, NEW parent,
           Starts(p, path, parent), \A k \in DOMAIN path : path[k] # ".."
    PROVE  NamesInv' /\ FreesNothing
<1> DEFINE absolute == Absolute(path)
           names == IF absolute THEN Tail(path) ELSE path
           giving == names = <<>> /\ parent
<1>1. /\ pc[p] \in {"user", "second"} /\ Namex(p, path, parent)
      /\ \A q \in Procs \ {p} : call'[q] = call[q]
  BY DEF Starts
<1>2. PICK s \in Slots :
        /\ IF absolute THEN Iget(ROOTINO, s)
           ELSE s = has[p].cwd /\ ref' = [ref EXCEPT ![s] = @ + 1] /\ UNCHANGED <<inum, valid, core>>
        /\ rest' = [rest EXCEPT ![p] = names]
        /\ IF giving
           THEN /\ has' = [has EXCEPT ![p]["giving"] = s]
                /\ after' = [after EXCEPT ![p] = Failed(p)]
                /\ Goto(p, "put")
           ELSE /\ has' = [has EXCEPT ![p]["ip"] = s]
                /\ Goto(p, IF names = <<>> THEN "got" ELSE "walk")
                /\ UNCHANGED after
        /\ UNCHANGED <<disk, lock, marked, panicked>>
  BY <1>1 DEF Namex
<1>3. \A k \in DOMAIN names : names[k] # ".."
  <2>1. CASE absolute
    <3>1. path \in Seq(Entries \cup {"/"}) /\ path # <<>> /\ names = Tail(path)
      BY <2>1 DEF Starts, Absolute
    <3>2. \A k \in DOMAIN Tail(path) : k + 1 \in DOMAIN path /\ Tail(path)[k] = path[k + 1]
      BY <3>1
    <3>3. QED
      BY <3>1, <3>2
  <2>2. CASE ~absolute
    BY <2>2
  <2>3. QED
    BY <2>1, <2>2
<1> HIDE DEF absolute, names, giving
<1>4. /\ Place(p) = pc[p] /\ ~InIput(p) /\ RegistersOf(p) /\ ~Raw(p) /\ InHand(p) /\ Knows(p)
      /\ {"ip", "dp", "old", "giving", "cwd", "file"} \subseteq Registers
  BY <1>1, Shape DEF Place, InIput, PutPlaces, Registers, Raw, NamesInv
<1>5. has[p].ip = None /\ has[p].dp = None /\ has[p].cwd # None
  BY <1>1, <1>4 DEF RegistersOf, UsedAt
<1>6. rest'[p] = names /\ (\A q \in Procs \ {p} : rest'[q] = rest[q]) /\ dinode' = dinode /\ dir' = dir
  BY <1>2, Shape DEF disk
<1>7. Kept /\ (absolute => inum'[s] = ROOTINO)
  <2>1. CASE absolute
    BY <1>2, <2>1, InodesAssumption, KeptIget, IgetFacts
  <2>2. CASE ~absolute
    BY <1>2, <2>2 DEF Kept
  <2>3. QED
    BY <2>1, <2>2
<1>8. ASSUME NEW t \in Registers, has'[p][t] = s, \A u \in Registers \ {t} : has'[p][u] = has[p][u],
             NEW u \in Registers, Steady(p, u)', u # t => u # "giving"
      PROVE  Comes(p, u)
  <2>1. CASE u # t
    <3>1. has'[p][u] # None /\ has'[p][u] = has[p][u]
      BY <1>8, <2>1 DEF Steady
    <3>2. Steady(p, u)
      BY <1>4, <1>8, <2>1, <3>1 DEF Steady
    <3>3. QED
      BY <3>1, <3>2 DEF Comes
  <2>2. CASE u = t /\ absolute
    <3>1. Settled(ROOTINO)
      BY InodesAssumption, Linked
    <3>2. Inode(p, u)' = ROOTINO
      BY <1>7, <1>8, <2>2 DEF Inode
    <3>3. QED
      BY <3>1, <3>2 DEF Comes
  <2>3. CASE u = t /\ ~absolute
    <3>1. s = has[p].cwd
      BY <1>2, <2>3
    <3>2. Steady(p, "cwd")
      BY <1>5 DEF Steady
    <3>3. QED
      BY <1>4, <1>8, <2>3, <3>1, <3>2 DEF Comes
  <2>4. QED
    BY <2>1, <2>2, <2>3
<1>9. CASE giving
  <2>1. /\ has' = [has EXCEPT ![p]["giving"] = s] /\ after' = [after EXCEPT ![p] = Failed(p)]
        /\ pc' = [pc EXCEPT ![p] = "put"]
    BY <1>2, <1>9 DEF Goto
  <2>2. Failed(p) \in {"user", "undo"}
    BY DEF Failed
  <2>3. /\ has'[p].giving = s /\ \A t \in Registers \ {"giving"} : has'[p][t] = has[p][t]
        /\ \A q \in Procs \ {p} : has'[q] = has[q]
    BY <1>4, <2>1, Shape
  <2>4. Still(p) /\ pc'[p] = "put" /\ after'[p] = Failed(p)
    BY <1>1, <1>2, <1>6, <2>1, <2>3, Shape DEF Still
  <2>5. Place(p)' = Failed(p) /\ ~Going(p)'
    BY <2>4 DEF Place, InIput, PutPlaces, Going
  <2>6. \A u \in Registers : Steady(p, u)' => Comes(p, u)
    BY <1>4, <1>8, <2>3
  <2>7. Gains(p)
    BY <1>1, <1>3, <1>4, <1>5, <1>6, <1>7, <2>2, <2>3, <2>4, <2>5, <2>6 DEF Gains
  <2>8. QED
    BY <2>7, GainsStep
<1>10. CASE ~giving
  <2>1. PICK to : to = IF names = <<>> THEN "got" ELSE "walk"
    OBVIOUS
  <2>2. /\ has' = [has EXCEPT ![p]["ip"] = s] /\ after' = after /\ pc' = [pc EXCEPT ![p] = to]
    BY <1>2, <1>10, <2>1 DEF Goto
  <2>3. /\ has'[p].ip = s /\ \A t \in Registers \ {"ip"} : has'[p][t] = has[p][t]
        /\ \A q \in Procs \ {p} : has'[q] = has[q]
    BY <1>4, <2>2, Shape
  <2>4. Still(p) /\ pc'[p] = to
    BY <1>1, <1>2, <1>6, <2>2, <2>3, Shape DEF Still
  <2>5. Place(p)' = to /\ to \in {"got", "walk"} /\ ~Going(p)'
    BY <2>1, <2>4 DEF Place, InIput, PutPlaces, Going
  <2>6. \A u \in Registers : Steady(p, u)' => Comes(p, u)
    <3>1. SUFFICES ASSUME NEW u \in Registers, Steady(p, u)' PROVE Comes(p, u)
      OBVIOUS
    <3>2. u # "giving"
      BY <2>4, <2>5, <3>1 DEF Steady
    <3>3. QED
      BY <1>4, <1>8, <2>3, <3>1, <3>2
  <2>7. Gains(p)
    BY <1>1, <1>3, <1>4, <1>5, <1>6, <1>7, <2>3, <2>4, <2>5, <2>6 DEF Gains
  <2>8. QED
    BY <2>7, GainsStep
<1>11. QED
  BY <1>9, <1>10

LEMMA CallNames ==
    ASSUME NoClimbing, InodeInv, InodeInv', NamesInv, NEW p \in Procs, SystemCall(p)
    PROVE  NamesInv' /\ FreesNothing
<1>1. PICK c \in Calls[p] : Call(p, c) \/ (c.op = "close" /\ Close(p))
  BY DEF SystemCall
<1>2. CASE Close(p)
  BY <1>2, CloseStep, GivesUpNames
<1>3. CASE Call(p, c)
  <2>1. /\ pc[p] = "user" /\ call' = [call EXCEPT ![p] = c] /\ RegistersOf(p)
        /\ c.op \in {"open", "create"} => has[p].file = None
        /\ Namex(p, c.path, c.op \in {"create", "mkdir", "unlink"})
    BY <1>3, Shape DEF Call, At, Callable
  <2>2. /\ c.path \in Seq(Entries \cup {"/"})
        /\ c.path # <<>> => Tail(c.path) \in Seq(Entries)
    BY InodesAssumption
  <2>3. call' \in [Procs -> AnyCall] /\ call'[p] = c /\ \A q \in Procs \ {p} : call'[q] = call[q]
    <3>1. c \in AnyCall
      BY DEF AnyCall
    <3>2. QED
      BY <2>1, <3>1, Shape
  <2>4. has[p].old = None
    BY <2>1 DEF RegistersOf, Place, InIput, PutPlaces, OnTheWay, LinkPlaces
  <2>5. Starts(p, c.path, c.op \in {"create", "mkdir", "unlink"})
    BY <2>1, <2>2, <2>3, <2>4 DEF Starts
  <2>6. \A k \in DOMAIN c.path : c.path[k] # ".."
    BY DEF NoClimbing
  <2>7. QED
    BY <2>5, <2>6, NamexNames
<1>4. QED
  BY <1>1, <1>2, <1>3

LEMMA LinkNewNames ==
    ASSUME NoClimbing, InodeInv, InodeInv', NamesInv, NEW p \in Procs, LinkNew(p)
    PROVE  NamesInv' /\ FreesNothing
<1>1. /\ pc[p] = "second" /\ call' = call /\ RegistersOf(p) /\ Namex(p, call[p].second, TRUE)
      /\ call \in [Procs -> AnyCall]
  BY Shape DEF LinkNew, At
<1>2. call[p].op = "link"
  BY <1>1 DEF RegistersOf, Place, InIput, PutPlaces, LinkPlaces
<1>3. PICK q \in Procs : call[p] \in Calls[q]
  BY <1>1, <1>2 DEF AnyCall, NoCall
<1>4. /\ call[p].second \in Seq(Entries \cup {"/"})
      /\ call[p].second # <<>> => Tail(call[p].second) \in Seq(Entries)
  BY <1>3, InodesAssumption
<1>5. /\ has[p].old # None => call'[p].op = "link"
      /\ has[p].file # None => call'[p].op \notin {"open", "create"}
  BY <1>1, <1>2
<1>6. Starts(p, call[p].second, TRUE)
  BY <1>1, <1>4, <1>5 DEF Starts
<1>7. \A k \in DOMAIN call[p].second : call[p].second[k] # ".."
  BY <1>3 DEF NoClimbing
<1>8. QED
  BY <1>6, <1>7, NamexNames

-----------------------------------------------------------------------------
(* iput() finds that its pointer is the last to an inode without links:    *)
(* nobody else has it.                                                     *)
LEMMA LastPointer ==
    ASSUME InodeInv, NEW p \in Procs, has[p].giving # None, ref[has[p].giving] = 1,
           NEW q \in Procs, NEW r \in Registers, has[q][r] # None, q # p \/ r # "giving"
    PROVE  has[q][r] # has[p].giving /\ Inode(q, r) # Inode(p, "giving")
<1> DEFINE s == has[p].giving
           S == Pointers(s)
<1>1. "giving" \in Registers /\ s \in Slots /\ ref[s] > 0
  <2>1. "giving" \in Registers
    BY DEF Registers
  <2>2. QED
    BY <2>1, PointerInUse
<1>2. has[q][r] \in Slots /\ ref[has[q][r]] > 0
  BY PointerInUse
<1>3. has[q][r] # s
  <2>1. SUFFICES ASSUME has[q][r] = s PROVE FALSE
    OBVIOUS
  <2>2. <<p, "giving">> \in S /\ <<q, r>> \in S /\ <<p, "giving">> # <<q, r>>
    BY <1>1, <2>1 DEF Pointers
  <2>3. S \subseteq Spots /\ Cardinality(S) = 1
    BY <1>1 DEF Pointers, Spots, InodeInv, PointersAgree
  <2> HIDE DEF S
  <2>4. IsFiniteSet(S)
    BY <2>3, SomeSpots
  <2>5. PICK x : S = {x}
    BY <2>3, <2>4, FS_Singleton
  <2>6. QED
    BY <2>2, <2>5
<1>4. QED
  BY <1>1, <1>2, <1>3 DEF InodeInv, OneEntry, Inode

LEMMA IputLast ==
    ASSUME InodeInv, InodeInv', NamesInv, NEW p \in Procs, IputTest(p), pc'[p] = "free"
    PROVE  NamesInv' /\ FreesNothing
<1>1. /\ pc[p] = "put" /\ lock[has[p].giving] = Nobody
      /\ Unlinked(has[p].giving) /\ LastRef(has[p].giving)
      /\ pc' = [pc EXCEPT ![p] = "free"]
      /\ UNCHANGED <<dinode, dir, inum, after, has, call, rest, marked>>
  BY Shape DEF IputTest, At, Goto, disk, icache
<1>2. /\ InIput(p) /\ InIput(p)' /\ ~Raw(p) /\ ~Raw(p)' /\ Place(p) = after[p] /\ Place(p)' = after[p]
      /\ Still(p) /\ Kept
      /\ {"ip", "dp", "old", "giving", "cwd", "file"} \subseteq Registers
  BY <1>1, Shape DEF InIput, PutPlaces, Raw, Place, Still, Kept, Registers
<1>3. has[p].giving # None /\ ref[has[p].giving] = 1
  BY <1>1, <1>2, GivingInHand DEF LastRef
<1>0. \A q \in Procs : Raw(q) => Newborn(q) # Inode(p, "giving")
  <2>1. Steady(p, "giving") /\ InHand(p)
    BY <1>1, <1>3 DEF Steady, NamesInv
  <2>2. QED
    BY <1>2, <2>1 DEF InHand, Settled
<1>4. \A q \in Procs : \A r \in Registers :
        has[q][r] # None /\ (q # p \/ r # "giving") =>
          has[q][r] # has[p].giving /\ Inode(q, r) # Inode(p, "giving")
  BY <1>3, LastPointer
<1>5. dinode[Inode(p, "giving")].nlink = 0
  <2>1. has[p].giving \in Slots /\ ref[has[p].giving] > 0 /\ valid[has[p].giving]
    BY <1>1, <1>2, GivingInHand DEF Unlinked
  <2>2. ~ \E q \in Procs : pc[q] = "freed" /\ has[q].giving = has[p].giving
    <3>1. SUFFICES ASSUME NEW q \in Procs, pc[q] = "freed", has[q].giving = has[p].giving PROVE FALSE
      OBVIOUS
    <3>2. Locks(q, "giving") /\ q # p
      BY <1>1, <3>1 DEF Locks
    <3>3. QED
      BY <1>2, <1>3, <1>4, <3>1, <3>2
  <2>3. core[has[p].giving] = dinode[Inode(p, "giving")]
    BY <2>1, <2>2 DEF InodeInv, CacheAgrees, Inode
  <2>4. QED
    BY <1>1, <2>3 DEF Unlinked
<1>6. Calm(p)
  BY <1>1, <1>2, Shape DEF Calm, Owes, Inode
<1>7. RawsStay /\ LinksCounted' /\ Directories'
  BY <1>6, CalmLinks
<1>8. \A q \in Procs : \A r \in Registers : Inode(q, r)' = Inode(q, r)
  BY <1>1 DEF Inode
<1>9. \A q \in Procs : Going(q)' => Going(q) \/ q = p
  BY <1>1, Shape DEF Going
<1>10. ASSUME NEW i, Settled(i), i # Inode(p, "giving") PROVE Settled(i)'
  BY <1>1, <1>2, <1>7, <1>8, <1>9, <1>10 DEF Settled, RawsStay
<1>11. ASSUME NEW q \in Procs, NEW r \in Registers, Steady(q, r), q # p \/ r # "giving"
       PROVE  Settled(Inode(q, r))'
  <2>1. PICK i : i = Inode(q, r)
    OBVIOUS
  <2>2. Settled(i)
    BY <1>11, <2>1 DEF NamesInv, InHand
  <2>3. i # Inode(p, "giving")
    BY <1>4, <1>11, <2>1 DEF Steady
  <2>4. Settled(i)' /\ i = Inode(q, r)'
    BY <1>8, <1>10, <2>1, <2>2, <2>3
  <2>5. QED
    BY <2>4 DEF Settled
<1>12. ASSUME NEW q \in Procs \ {p} PROVE Spares(p, q)
  <2>1. Leaving(q)
    BY DEF NamesInv
  <2>2. \A i : Has(q, i) => Settled(i)'
    <3>1. SUFFICES ASSUME NEW i, Has(q, i) PROVE Settled(i)'
      OBVIOUS
    <3>2. PICK r \in Registers : Steady(q, r) /\ Inode(q, r) = i
      BY <3>1 DEF Has
    <3>3. Settled(i) /\ i # Inode(p, "giving")
      BY <1>4, <3>2 DEF NamesInv, InHand, Steady
    <3>4. QED
      BY <1>10, <3>3
  <2>3. QED
    BY <1>1, <1>2, <2>1, <2>2 DEF Spares, Leaving
<1>13. \A q \in Procs \ {p} : Fine(q)'
  BY <1>2, <1>12, OthersStay
<1>14. InHand(p)'
  <2>1. \A r \in Registers : Steady(p, r)' => Steady(p, r) /\ r # "giving"
    BY <1>1, <1>2, Shape DEF Steady
  <2>2. QED
    BY <1>11, <2>1 DEF InHand
<1>15. Fresh(p)'
  BY <1>2 DEF Fresh
<1>16. Leaving(p)'
  <2>1. \A q \in Procs : Raw(q)' => Newborn(q)' # Inode(p, "giving")'
    BY <1>0, <1>2, <1>7, <1>8 DEF RawsStay
  <2>2. QED
    BY <1>1, <1>2, <1>5, <1>8, <2>1 DEF Leaving
<1>17. Knows(p)'
  <2>1. Knows(p)
    BY DEF NamesInv
  <2>2. Entry(p, "dp")' = Entry(p, "dp") /\ (Makes(p)' <=> Makes(p)) /\ pc'[p] = "free"
    BY <1>1 DEF Entry, Makes
  <2>3. QED
    BY <1>1, <1>2, <1>8, <2>1, <2>2 DEF Knows
<1>18. FreesNothing
  BY <1>1 DEF FreesNothing
<1>19. QED
  BY <1>7, <1>13, <1>14, <1>15, <1>16, <1>17, <1>18 DEF NamesInv, Fine

-----------------------------------------------------------------------------
(* The steps that write to the disk.  What one process has locked, no      *)
(* other has.                                                              *)
LEMMA LockedApart ==
    ASSUME InodeInv, NEW p \in Procs, NEW q \in Procs, p # q,
           NEW r \in Registers, NEW t \in Registers, Locks(p, r), Locks(q, t)
    PROVE  Inode(p, r) # Inode(q, t)
<1>1. /\ has[p][r] \in Slots /\ lock[has[p][r]] = p /\ ref[has[p][r]] > 0
      /\ has[q][t] \in Slots /\ lock[has[q][t]] = q /\ ref[has[q][t]] > 0
  BY LockedIsMine
<1>2. QED
  BY <1>1 DEF InodeInv, OneEntry, Inode

(* A settled inode stays so unless p makes or frees it.                    *)
LEMMA SettledStays ==
    ASSUME InodeInv, NEW p \in Procs, Still(p), Kept, NEW i, dinode'[i].type # "free",
           \A q \in Procs \ {p} : Raw(q) => Newborn(q) # i,
           \A q \in Procs \ {p} : Going(q) => Inode(q, "giving") # i,
           Raw(p)' => Newborn(p)' # i, Going(p)' => Inode(p, "giving")' # i
    PROVE  Settled(i)'
<1>1. \A q \in Procs \ {p} : Same(q)
  BY OthersSame
<1>2. ASSUME NEW q \in Procs, Raw(q)' PROVE Newborn(q)' # i
  <2>1. CASE q = p
    BY <1>2, <2>1
  <2>2. CASE q # p
    BY <1>1, <1>2, <2>2, MiddleFacts DEF Same
  <2>3. QED
    BY <2>1, <2>2
<1>3. ASSUME NEW q \in Procs, Going(q)' PROVE Inode(q, "giving")' # i
  <2>1. CASE q = p
    BY <1>3, <2>1
  <2>2. CASE q # p
    BY <1>1, <1>3, <2>2, MiddleFacts DEF Same
  <2>3. QED
    BY <2>1, <2>2
<1>4. QED
  BY <1>2, <1>3 DEF Settled

(* The inodes W are written, that p has in hand and no other process is in *)
(* the middle of making or freeing; what they are stays, and the entries   *)
(* of those that p has not locked.                                         *)
Touches(p, W) ==
    /\ Still(p) /\ Kept /\ ~Raw(p)' /\ ~Going(p)' /\ W \subseteq Inums
    /\ \A i \in Inums \ W : dinode'[i] = dinode[i] /\ dir'[i] = dir[i]
    /\ \A i \in W : dinode[i].type # "free" /\ dinode'[i].type = dinode[i].type
    /\ \A i \in W : dir'[i] = dir[i] \/ \E r \in Registers : Locks(p, r) /\ Inode(p, r) = i
    /\ \A i \in W : \A q \in Procs \ {p} :
         /\ Raw(q) => Newborn(q) # i
         /\ Going(q) => Inode(q, "giving") # i

LEMMA TouchesSettled ==
    ASSUME InodeInv, NEW p \in Procs, NEW W, Touches(p, W), NEW i \in Inums,
           Settled(i) \/ i \in W
    PROVE  Settled(i)'
<1>1. dinode'[i].type # "free"
  <2>1. CASE i \in W
    BY <2>1 DEF Touches
  <2>2. CASE i \notin W
    BY <2>2 DEF Touches, Settled
  <2>3. QED
    BY <2>1, <2>2
<1>2. \A q \in Procs \ {p} : Raw(q) => Newborn(q) # i
  BY DEF Touches, Settled
<1>3. \A q \in Procs \ {p} : Going(q) => Inode(q, "giving") # i
  BY DEF Touches, Settled
<1>4. Still(p) /\ Kept /\ ~Raw(p)' /\ ~Going(p)'
  BY DEF Touches
<1>5. QED
  BY <1>1, <1>2, <1>3, <1>4, SettledStays

LEMMA HasInum ==
    ASSUME InodeInv, NEW q \in Procs, NEW i, Has(q, i)
    PROVE  i \in Inums
<1>1. PICK r \in Registers : Steady(q, r) /\ Inode(q, r) = i
  BY DEF Has
<1>2. has[q][r] # None
  BY <1>1 DEF Steady
<1>3. QED
  BY <1>1, <1>2, PointerInUse DEF Inode

LEMMA TouchesSpares ==
    ASSUME InodeInv, NamesInv, NEW p \in Procs, NEW W, Touches(p, W), NEW q \in Procs \ {p}
    PROVE  Spares(p, q)
<1>1. InHand(q) /\ Fresh(q) /\ Leaving(q) /\ Knows(q) /\ RegistersOf(q)
      /\ ~Raw(p)' /\ ~Going(p)'
  BY Shape DEF NamesInv, Touches
<1>2. {"ip", "dp", "old", "giving", "cwd", "file"} \subseteq Registers
  BY DEF Registers
<1>3. /\ Raw(q) => /\ dinode'[Newborn(q)] = dinode[Newborn(q)]
                   /\ dir'[Newborn(q)] = dir[Newborn(q)]
  <2>1. Raw(q) => Newborn(q) \in Inums \ W
    BY HandSettled DEF Touches
  <2>2. QED
    BY <2>1 DEF Touches
<1>4. Going(q) => dinode'[Inode(q, "giving")].nlink = 0
  <2>1. Going(q) => Inode(q, "giving") \in Inums
    BY <1>2, MiddleFacts, PointerInUse DEF Inode
  <2>2. Going(q) => Inode(q, "giving") \in Inums \ W
    BY <2>1 DEF Touches
  <2>3. QED
    BY <1>1, <2>2 DEF Touches, Leaving
<1>6. \A r \in {"dp", "old"} :
        has[q][r] # None => dinode'[Inode(q, r)].type = dinode[Inode(q, r)].type
  <2>1. \A r \in {"dp", "old"} : has[q][r] # None => Inode(q, r) \in Inums
    BY HandSettled
  <2>2. \A i \in Inums : dinode'[i].type = dinode[i].type
    BY DEF Touches
  <2>3. QED
    BY <2>1, <2>2
<1>7. pc[q] \in {"marked", "new", "fill", "victim", "remove"} =>
        dir'[Inode(q, "dp")][Head(rest[q])] = dir[Inode(q, "dp")][Head(rest[q])]
  <2>1. SUFFICES ASSUME pc[q] \in {"marked", "new", "fill", "victim", "remove"}
                 PROVE  dir'[Inode(q, "dp")] = dir[Inode(q, "dp")]
    OBVIOUS
  <2>2. Locks(q, "dp")
    BY <2>1 DEF Locks, LockedAt, Place, InIput, PutPlaces
  <2>3. Inode(q, "dp") \in Inums
    BY <1>2, <2>2, LockedIsMine DEF Inode
  <2>4. \A r \in Registers : Locks(p, r) => Inode(p, r) # Inode(q, "dp")
    BY <1>2, <2>2, LockedApart
  <2>5. QED
    BY <2>3, <2>4 DEF Touches
<1>8. \A i : Has(q, i) => Settled(i)'
  <2>1. \A i : Has(q, i) => Settled(i) /\ i \in Inums
    BY <1>1, HasInum DEF Has, InHand
  <2>2. QED
    BY <2>1, TouchesSettled
<1>9. QED
  BY <1>1, <1>3, <1>4, <1>6, <1>7, <1>8 DEF Spares

(* What is left to show of such a step: the links, and what p knows.       *)
LEMMA TouchesStep ==
    ASSUME InodeInv, NamesInv, NEW p \in Procs, NEW W, Touches(p, W),
           LinksCounted', Directories', InHand(p)', Knows(p)'
    PROVE  NamesInv' /\ FreesNothing
<1>1. \A q \in Procs \ {p} : Spares(p, q)
  BY TouchesSpares
<1>2. Still(p) /\ Kept /\ ~Raw(p)' /\ ~Going(p)'
  BY DEF Touches
<1>3. \A q \in Procs \ {p} : Fine(q)'
  BY <1>1, <1>2, OthersStay
<1>4. Fresh(p)' /\ Leaving(p)'
  BY <1>2 DEF Fresh, Leaving, Going
<1>5. \A i \in Inums : dinode'[i].type = dinode[i].type
  BY DEF Touches
<1>6. QED
  BY <1>3, <1>4, <1>5 DEF NamesInv, Fine, FreesNothing

(* Only nlink changes.                                                     *)
LEMMA DirectoriesStay ==
    ASSUME InodeInv, NamesInv, NEW p \in Procs, NEW W, Touches(p, W), ~Raw(p), dir' = dir
    PROVE  Directories'
<1>1. \A i \in Inums : dinode'[i].type = dinode[i].type
  BY DEF Touches
<1>2. \A i \in Inums : dinode[i].type = "free" => dinode'[i] = dinode[i]
  BY DEF Touches
<1>3. \A q \in Procs \ {p} : Same(q)
  BY OthersSame DEF Touches
<1>4. ASSUME NEW i \in Inums, \A q \in Procs : Raw(q)' => Newborn(q)' # i
      PROVE  \A q \in Procs : Raw(q) => Newborn(q) # i
  BY <1>3, <1>4, MiddleFacts DEF Same
<1>5. Directories
  BY DEF NamesInv
<1>6. QED
  BY <1>1, <1>2, <1>4, <1>5 DEF Directories

(* What such a step has given back, and what is still in hand.             *)
HandsOn(p, r, place) ==
    /\ Still(p) /\ pc'[p] = "put" /\ Place(p)' = place /\ InIput(p)' /\ ~Raw(p)' /\ ~Going(p)'
    /\ after'[p] = place
    /\ has'[p].giving = has[p][r] /\ has'[p][r] = None
    /\ \A t \in Registers \ {r, "giving"} : has'[p][t] = has[p][t]
    /\ UNCHANGED <<call, rest>>

LEMMA WrittenHands ==
    ASSUME InodeInv, NEW p \in Procs, NEW r \in {"ip", "dp", "old", "file"}, NEW place,
           GivingUp(p, r, place), <<pc[p], r, place>> \in Written
    PROVE  HandsOn(p, r, place)
<1>1. GivesBack(p, r, place)
  BY GivenUp
<1>2. Still(p)
  BY <1>1, PutFacts
<1>3. has'[p] = [has[p] EXCEPT !["giving"] = has[p][r], ![r] = None]
  BY <1>1, PutFacts
<1>4. after' = [after EXCEPT ![p] = place] /\ pc' = [pc EXCEPT ![p] = "put"] /\ UNCHANGED <<call, rest>>
  BY <1>1 DEF GivesBack, Put, Goto
<1>5. pc'[p] = "put" /\ after'[p] = place
  BY <1>4, Shape
<1>6. Place(p)' = place /\ InIput(p)' /\ ~Raw(p)' /\ ~Going(p)'
  BY <1>5 DEF Place, InIput, PutPlaces, Raw, Going
<1>7. has[p] \in [Registers -> Slots \cup {None}]
  BY Shape
<1>8. /\ has'[p].giving = has[p][r] /\ has'[p][r] = None
      /\ \A t \in Registers \ {r, "giving"} : has'[p][t] = has[p][t]
  BY <1>3, <1>7 DEF Registers
<1>9. QED
  BY <1>2, <1>4, <1>5, <1>6, <1>8 DEF HandsOn

LEMMA WrittenStep ==
    ASSUME InodeInv, NamesInv, NEW p \in Procs, NEW r \in {"ip", "dp", "old"}, NEW place,
           HandsOn(p, r, place), <<pc[p], r, place>> \in Written,
           NEW W, Touches(p, W), Raw(p) => Newborn(p) \in W,
           LinksCounted', Directories'
    PROVE  NamesInv' /\ FreesNothing
<1>1. {"ip", "dp", "old"} \subseteq Registers /\ InHand(p) /\ Knows(p)
  BY DEF Registers, NamesInv
<1>2. ~Raw(p)' /\ pc'[p] = "put" /\ Place(p)' = place /\ after'[p] = place
      /\ call' = call /\ rest' = rest
  BY DEF HandsOn
<1>3. \A t \in {"ip", "dp", "old"} :
        has'[p][t] # None => has[p][t] # None /\ Inode(p, t)' = Inode(p, t) /\ Inode(p, t) \in Inums
  <2>1. SUFFICES ASSUME NEW t \in {"ip", "dp", "old"}, has'[p][t] # None
                 PROVE  has[p][t] # None /\ Inode(p, t)' = Inode(p, t) /\ Inode(p, t) \in Inums
    OBVIOUS
  <2>2. has'[p][t] = has[p][t] /\ t \in Registers
    BY <1>1, <2>1 DEF HandsOn
  <2>3. inum'[has[p][t]] = inum[has[p][t]]
    BY <2>1, <2>2 DEF Touches, Kept
  <2>4. QED
    BY <2>1, <2>2, <2>3, PointerInUse DEF Inode
<1>4. InHand(p)'
  <2>1. SUFFICES ASSUME NEW t \in Registers, Steady(p, t)' PROVE Settled(Inode(p, t))'
    BY DEF InHand
  <2>2. PICK u \in Registers \ {"giving"} : has[p][u] # None /\ has'[p][t] = has[p][u]
    <3>1. has'[p][t] # None /\ r \in Registers \ {"giving"}
      BY <1>1, <2>1 DEF Steady
    <3>2. has'[p].giving = has[p][r] /\ (t # "giving" => t # r /\ has'[p][t] = has[p][t])
      BY <3>1 DEF HandsOn
    <3>3. QED
      BY <3>1, <3>2
  <2>3. PICK i : i = Inode(p, u)
    OBVIOUS
  <2>4. inum'[has[p][u]] = inum[has[p][u]]
    BY <2>2 DEF Touches, Kept
  <2>5. i = Inode(p, t)' /\ i \in Inums
    BY <2>2, <2>3, <2>4, PointerInUse DEF Inode
  <2>6. Settled(i) \/ i \in W
    <3>1. CASE u = "ip" /\ Raw(p)
      <4>1. pc[p] # "marked"
        BY DEF Written
      <4>2. QED
        BY <2>3, <3>1, <4>1 DEF Newborn
    <3>2. CASE ~(u = "ip" /\ Raw(p))
      <4>1. Steady(p, u)
        BY <2>2, <3>2 DEF Steady
      <4>2. QED
        BY <1>1, <2>3, <4>1 DEF InHand
    <3>3. QED
      BY <3>1, <3>2
  <2>7. Settled(i)'
    BY <2>5, <2>6, TouchesSettled
  <2>8. QED
    BY <2>5, <2>7 DEF Settled
<1>5. Knows(p)'
  <2>1. \A i \in Inums : dinode'[i].type = dinode[i].type
    BY DEF Touches
  <2>2. (has[p].dp # None => dinode[Inode(p, "dp")].type = "dir")'
    BY <1>1, <1>3, <2>1 DEF Knows
  <2>3. (has[p].old # None => dinode[Inode(p, "old")].type = "file")'
    BY <1>1, <1>3, <2>1 DEF Knows
  <2>4. (Raw(p) \/ Place(p) = "made" => Makes(p))'
    <3>1. place = "made" => Raw(p)
      BY DEF Written, Raw
    <3>2. QED
      BY <1>1, <1>2, <3>1 DEF Knows, Makes
  <2>5. (Place(p) \in {"victim", "remove", "notempty", "removed"} => call[p].op = "unlink")'
    <3>1. place \in {"victim", "remove", "notempty", "removed"} => pc[p] = "remove"
      BY DEF Written
    <3>2. pc[p] = "remove" => Place(p) = "remove"
      BY MiddleFacts
    <3>3. QED
      BY <1>1, <1>2, <3>1, <3>2 DEF Knows
  <2>6. place \notin {"marked", "new", "fill", "victim", "remove"}
    BY DEF Written
  <2>7. QED
    BY <1>1, <1>2, <2>2, <2>3, <2>4, <2>5, <2>6 DEF Knows
<1>6. QED
  BY <1>4, <1>5, TouchesStep

(* nlink of an inode that p has locked goes up or down.                    *)
LEMMA RelinkFacts ==
    ASSUME InodeInv, NEW p \in Procs, NEW r \in Registers, Locks(p, r), pc[p] # "freed",
           NEW n \in Int, Relink(has[p][r], n)
    PROVE  /\ Inode(p, r) \in Inums /\ dinode[Inode(p, r)].type # "free"
           /\ dinode'[Inode(p, r)].type = dinode[Inode(p, r)].type
           /\ dinode'[Inode(p, r)].nlink = dinode[Inode(p, r)].nlink + n
           /\ \A i \in Inums \ {Inode(p, r)} : dinode'[i] = dinode[i]
<1>1. /\ inum[has[p][r]] \in Inums /\ core[has[p][r]] = dinode[inum[has[p][r]]]
      /\ core[has[p][r]].type # "free"
  BY LockedIsMine, LockedAgrees
<1>2. PICK i : i = Inode(p, r)
  OBVIOUS
<1>3. i \in Inums /\ dinode[i] \in [type : Types, nlink : Int]
  BY <1>1, <1>2, Shape DEF Inode
<1>4. dinode' = [dinode EXCEPT ![i] = [dinode[i] EXCEPT !.nlink = @ + n]]
  BY <1>1, <1>2 DEF Relink, Iupdate, Inode
<1>5. dinode'[i] = [dinode[i] EXCEPT !.nlink = @ + n]
  BY <1>3, <1>4, Shape
<1>6. dinode'[i].type = dinode[i].type /\ dinode'[i].nlink = dinode[i].nlink + n
  BY <1>3, <1>5
<1>7. \A j \in Inums \ {i} : dinode'[j] = dinode[j]
  BY <1>4, Shape
<1>8. QED
  BY <1>1, <1>2, <1>3, <1>6, <1>7 DEF Inode

(* Only one process owes something else after a step.                      *)
LEMMA OwingStep ==
    ASSUME InodeInv, NEW p \in Procs, Still(p), Kept, NEW i
    PROVE  /\ Owing(i)' \subseteq Owing(i) \cup {p}
           /\ ~Owes(p, i)' => Owing(i)' \subseteq Owing(i) \ {p}
           /\ (Owes(p, i)' => Owes(p, i)) => Owing(i)' \subseteq Owing(i)
<1>1. \A q \in Procs \ {p} : Same(q)
  BY OthersSame
<1>2. \A q \in Procs \ {p} : Owes(q, i)' <=> Owes(q, i)
  BY <1>1 DEF Same
<1>3. QED
  BY <1>2 DEF Owing

(* One link less: the inode is given back with a lower nlink.  This is     *)
(* link() undone, and unlink() with the name gone.                         *)
LEMMA LowersNames ==
    ASSUME InodeInv, InodeInv', NamesInv, NEW p \in Procs, NEW r \in {"ip", "old"},
           pc[p] = IF r = "ip" THEN "removed" ELSE "undone",
           Relink(has[p][r], -1), GivingUp(p, r, "user"), UNCHANGED <<dir, inum>>
    PROVE  NamesInv' /\ FreesNothing
<1>1. /\ Locks(p, r) /\ Place(p) = pc[p] /\ ~Raw(p) /\ pc[p] # "freed"
      /\ <<pc[p], r, "user">> \in Written /\ {"ip", "dp", "old"} \subseteq Registers
  BY DEF Locks, LockedAt, Place, InIput, PutPlaces, Raw, Written, Registers
<1>2. r \in {"ip", "dp", "old", "file"} /\ r \in {"ip", "dp", "old"} /\ r \in Registers /\ -1 \in Int
  BY DEF Registers
<1>3. HandsOn(p, r, "user")
  BY <1>1, <1>2, WrittenHands
<1>4. PICK i : i = Inode(p, r)
  OBVIOUS
<1>5. /\ i \in Inums /\ dinode[i].type # "free"
      /\ dinode'[i].type = dinode[i].type /\ dinode'[i].nlink = dinode[i].nlink - 1
      /\ \A j \in Inums \ {i} : dinode'[j] = dinode[j]
  <2>1. /\ Inode(p, r) \in Inums /\ dinode[Inode(p, r)].type # "free"
        /\ dinode'[Inode(p, r)].type = dinode[Inode(p, r)].type
        /\ dinode'[Inode(p, r)].nlink = dinode[Inode(p, r)].nlink + (-1)
        /\ \A j \in Inums \ {Inode(p, r)} : dinode'[j] = dinode[j]
    BY <1>1, <1>2, RelinkFacts
  <2>2. dinode[i].nlink \in Int
    BY <1>4, <2>1, Shape
  <2>3. QED
    BY <1>4, <2>1, <2>2
<1>6. /\ has[p][r] # None
      /\ r = "ip" => has[p].old = None
  <2>1. RegistersOf(p)
    BY Shape
  <2>2. QED
    BY <1>1, <2>1, MiddleFacts DEF RegistersOf, LinkPlaces
<1>7. Owes(p, i)
  BY <1>1, <1>4, <1>6 DEF Owes
<1>8. Settled(i)
  BY <1>5, <1>7, Linked DEF Owing
<1>9. Still(p) /\ Kept /\ ~Raw(p)' /\ ~Going(p)' /\ Place(p)' = "user"
  BY <1>3 DEF HandsOn, Kept
<1>10. Touches(p, {i})
  BY <1>3, <1>5, <1>8, <1>9 DEF Touches, HandsOn, Settled
<1>12. \A j : ~Owes(p, j)'
  <2>1. has'[p].old = None
    <3>1. CASE r = "ip"
      BY <1>1, <1>3, <1>6, <3>1 DEF HandsOn
    <3>2. CASE r = "old"
      BY <1>3, <3>2 DEF HandsOn
    <3>3. QED
      BY <3>1, <3>2
  <2>2. QED
    BY <1>9, <2>1 DEF Owes
<1>13. LinksCounted'
  <2>1. SUFFICES ASSUME NEW j \in Inums PROVE Links(j)' <= dinode'[j].nlink
    BY DEF LinksCounted
  <2>2. NamesOf(j)' = NamesOf(j) /\ Inside(j)' = Inside(j)
    BY DEF NamesOf, Inside
  <2>3. Owing(j)' \subseteq Owing(j) \ {p}
    BY <1>9, <1>12, OwingStep
  <2>4. CASE j = i
    <3>1. p \in Owing(j)
      BY <1>7, <2>4 DEF Owing
    <3>2. Shift(j, 0, 0, -1)
      BY <2>2, <2>3, <3>1 DEF Shift, Within
    <3>3. dinode[j].nlink \in Int
      BY Shape
    <3>4. dinode[j].nlink + 0 + 0 + (-1) <= dinode'[j].nlink
      BY <1>5, <2>4, <3>3
    <3>5. 0 \in {-1, 0, 1} /\ -1 \in {-1, 0, 1}
      OBVIOUS
    <3>6. QED
      BY <3>2, <3>4, <3>5, CountKept
  <2>5. CASE j # i
    <3>1. Shift(j, 0, 0, 0)
      BY <2>2, <2>3 DEF Shift, Within
    <3>2. dinode[j].nlink \in Int
      BY Shape
    <3>3. dinode[j].nlink + 0 + 0 + 0 <= dinode'[j].nlink
      BY <1>5, <2>5, <3>2
    <3>4. QED
      BY <3>1, <3>3, CountKept
  <2>6. QED
    BY <2>4, <2>5
<1>14. Directories'
  BY <1>1, <1>10, DirectoriesStay
<1>15. QED
  BY <1>1, <1>2, <1>3, <1>10, <1>13, <1>14, WrittenStep

LEMMA RemovedNames ==
    ASSUME InodeInv, InodeInv', NamesInv, NEW p \in Procs, Removed(p)
    PROVE  NamesInv' /\ FreesNothing
<1>1. /\ pc[p] = "removed" /\ Relink(has[p].ip, -1) /\ Put(p, "ip", "user") /\ Unlock(has[p].ip)
      /\ UNCHANGED <<dir, inum, call, rest, marked>> /\ RegistersOf(p)
  BY DEF Removed, At, Iunlockput, InodeInv
<1>2. LockedAt(pc[p], "ip") /\ has[p].old = None
  BY <1>1 DEF LockedAt, RegistersOf, Place, InIput, PutPlaces, OnTheWay, LinkPlaces
<1>3. GivingUp(p, "ip", "user")
  BY <1>1, <1>2 DEF GivingUp, GivingBack, Unwritten, Written, OldStays, UnlocksIt, LinkPlaces
<1>4. QED
  BY <1>1, <1>3, LowersNames

LEMMA LinkUndoneNames ==
    ASSUME InodeInv, InodeInv', NamesInv, NEW p \in Procs, LinkUndone(p)
    PROVE  NamesInv' /\ FreesNothing
<1>1. /\ pc[p] = "undone" /\ Relink(has[p].old, -1) /\ Put(p, "old", "user") /\ Unlock(has[p].old)
      /\ UNCHANGED <<dir, inum, call, rest, marked>>
  BY DEF LinkUndone, At, Iunlockput
<1>2. LockedAt(pc[p], "old")
  BY <1>1 DEF LockedAt
<1>3. GivingUp(p, "old", "user")
  BY <1>1, <1>2 DEF GivingUp, GivingBack, Unwritten, Written, OldStays, UnlocksIt, LinkPlaces
<1>4. QED
  BY <1>1, <1>3, LowersNames

(* One link more, for the name that link() is about to make.               *)
LEMMA LinkOldNames ==
    ASSUME InodeInv, InodeInv', NamesInv, NEW p \in Procs, LinkOld(p)
    PROVE  NamesInv' /\ FreesNothing
<1>1. /\ pc[p] = "use" /\ call[p].op = "link" /\ core[has[p].ip].type # "dir"
      /\ Relink(has[p].ip, 1)
      /\ has' = [has EXCEPT ![p]["old"] = has[p].ip, ![p]["ip"] = None]
      /\ pc' = [pc EXCEPT ![p] = "second"]
      /\ UNCHANGED <<dir, inum, after, call, rest, marked>>
  BY DEF LinkOld, OneMoreLink, At, Goto
<1>2. /\ RegistersOf(p) /\ InHand(p) /\ Knows(p) /\ has[p] \in [Registers -> Slots \cup {None}]
      /\ {"ip", "dp", "old", "giving", "cwd", "file"} \subseteq Registers /\ 1 \in Int
  BY Shape DEF NamesInv, Registers
<1>3. /\ Place(p) = "use" /\ Locks(p, "ip") /\ ~Raw(p) /\ ~InIput(p) /\ pc[p] # "freed"
  BY <1>1 DEF Place, InIput, PutPlaces, Locks, LockedAt, Raw
<1>4. has[p].old = None /\ has[p].ip # None /\ has[p].dp = None
  BY <1>1, <1>2, <1>3 DEF RegistersOf, UsedAt, OnTheWay, LinkPlaces
<1>5. has'[p] = [has[p] EXCEPT !["old"] = has[p].ip, !["ip"] = None]
      /\ \A q \in Procs \ {p} : has'[q] = has[q]
  <2>1. has' = [has EXCEPT ![p] = [has[p] EXCEPT !["old"] = has[p].ip, !["ip"] = None]]
    BY <1>1, Shape
  <2>2. QED
    BY <2>1, Shape
<1>6. /\ has'[p].old = has[p].ip /\ has'[p].ip = None /\ has'[p].dp = None
      /\ \A t \in Registers \ {"ip", "old"} : has'[p][t] = has[p][t]
  BY <1>2, <1>4, <1>5
<1>7. pc'[p] = "second" /\ Still(p) /\ Kept
  BY <1>1, <1>5, Shape DEF Still, Kept
<1>8. Place(p)' = "second" /\ ~Raw(p)' /\ ~Going(p)' /\ ~InIput(p)'
  BY <1>7 DEF Place, InIput, PutPlaces, Raw, Going
<1>9. PICK i : i = Inode(p, "ip")
  OBVIOUS
<1>10. /\ i \in Inums /\ dinode[i].type # "free"
       /\ dinode'[i].type = dinode[i].type /\ dinode'[i].nlink = dinode[i].nlink + 1
       /\ \A j \in Inums \ {i} : dinode'[j] = dinode[j]
  BY <1>1, <1>2, <1>3, <1>9, RelinkFacts
<1>11. dinode[i].type = "file"
  <2>1. core[has[p].ip] = dinode[i]
    BY <1>2, <1>3, <1>9, LockedAgrees DEF Inode
  <2>2. dinode[i].type \in Types
    BY <1>10, Shape
  <2>3. QED
    BY <1>1, <1>10, <2>1, <2>2 DEF Types
<1>12. Settled(i)
  BY <1>2, <1>3, <1>4, <1>9 DEF InHand, Steady
<1>13. Touches(p, {i})
  BY <1>6, <1>7, <1>8, <1>10, <1>12, <1>1 DEF Touches, Settled
<1>14. Inode(p, "old")' = i
  BY <1>1, <1>6, <1>9 DEF Inode
<1>15. \A j : ~Owes(p, j)
  BY <1>3, <1>4 DEF Owes
<1>16. \A j : Owes(p, j)' => j = i
  BY <1>8, <1>14 DEF Owes
<1>17. LinksCounted'
  <2>1. SUFFICES ASSUME NEW j \in Inums PROVE Links(j)' <= dinode'[j].nlink
    BY DEF LinksCounted
  <2>2. NamesOf(j)' = NamesOf(j) /\ Inside(j)' = Inside(j)
    BY <1>1 DEF NamesOf, Inside
  <2>3. dinode[j].nlink \in Int
    BY Shape
  <2>4. CASE j = i
    <3>1. Owing(j)' \subseteq Owing(j) \cup {p}
      BY <1>7, OwingStep
    <3>2. Shift(j, 0, 0, 1)
      BY <2>2, <3>1 DEF Shift, Within
    <3>3. dinode[j].nlink + 0 + 0 + 1 <= dinode'[j].nlink
      BY <1>10, <2>3, <2>4
    <3>4. QED
      BY <3>2, <3>3, CountKept
  <2>5. CASE j # i
    <3>1. Owing(j)' \subseteq Owing(j)
      BY <1>7, <1>16, <2>5, OwingStep
    <3>2. Shift(j, 0, 0, 0)
      BY <2>2, <3>1 DEF Shift, Within
    <3>3. dinode[j].nlink + 0 + 0 + 0 <= dinode'[j].nlink
      BY <1>10, <2>3, <2>5
    <3>4. QED
      BY <3>2, <3>3, CountKept
  <2>6. QED
    BY <2>4, <2>5
<1>18. Directories'
  BY <1>1, <1>3, <1>13, DirectoriesStay
<1>19. InHand(p)'
  <2>1. SUFFICES ASSUME NEW t \in Registers, Steady(p, t)' PROVE Settled(Inode(p, t))'
    BY DEF InHand
  <2>2. has'[p][t] # None /\ t # "giving"
    BY <1>7, <2>1 DEF Steady
  <2>3. PICK u \in Registers \ {"giving"} : has[p][u] # None /\ has'[p][t] = has[p][u]
    BY <1>2, <1>4, <1>6, <2>2
  <2>4. PICK j : j = Inode(p, u)
    OBVIOUS
  <2>5. Steady(p, u)
    BY <1>3, <2>3 DEF Steady
  <2>6. Settled(j) /\ j \in Inums
    BY <1>2, <2>3, <2>4, <2>5, PointerInUse DEF InHand, Inode
  <2>7. Settled(j)'
    BY <1>13, <2>6, TouchesSettled
  <2>8. j = Inode(p, t)'
    BY <1>1, <2>3, <2>4 DEF Inode
  <2>9. QED
    BY <2>7, <2>8 DEF Settled
<1>20. Knows(p)'
  <2>1. dinode'[Inode(p, "old")'].type = "file"
    BY <1>10, <1>11, <1>14
  <2>2. QED
    BY <1>1, <1>2, <1>6, <1>7, <1>8, <2>1 DEF Knows
<1>21. QED
  BY <1>13, <1>17, <1>18, <1>19, <1>20, TouchesStep

-----------------------------------------------------------------------------
(* A directory gets an entry, or loses one.                                *)
Entered(d0, d, n, to) ==
    /\ \A j \in Inums \ {d} : dir'[j] = d0[j]
    /\ dir'[d][n] = to
    /\ \A m \in Entries \ {n} : dir'[d][m] = d0[d][m]

LEMMA Entering ==
    ASSUME NEW d0 \in [Inums -> [Entries -> Inums \cup {None}]], NEW d \in Inums,
           NEW n \in Entries, NEW to, dir' = [d0 EXCEPT ![d][n] = to]
    PROVE  Entered(d0, d, n, to)
<1>1. dir' = [d0 EXCEPT ![d] = [d0[d] EXCEPT ![n] = to]]
  OBVIOUS
<1>2. dir'[d] = [d0[d] EXCEPT ![n] = to] /\ \A j \in Inums \ {d} : dir'[j] = d0[j]
  BY <1>1
<1>3. d0[d] \in [Entries -> Inums \cup {None}]
  OBVIOUS
<1>4. QED
  BY <1>2, <1>3 DEF Entered

(* The name that is not there: it is a name, for "." and ".." are there.   *)
LEMMA FreshName ==
    ASSUME InodeInv, NamesInv, NEW p \in Procs, pc[p] \in {"dir", "fill"}, Entry(p, "dp") = None
    PROVE  /\ Head(rest[p]) \in Names /\ Head(rest[p]) \in Entries
           /\ Inode(p, "dp") \in Inums /\ Settled(Inode(p, "dp"))
           /\ dinode[Inode(p, "dp")].type = "dir" /\ Locks(p, "dp")
           /\ dir[Inode(p, "dp")][Head(rest[p])] = None
<1>1. RegistersOf(p) /\ Knows(p) /\ Directories /\ rest[p] \in Seq(Entries)
  BY Shape DEF NamesInv
<1>2. Place(p) = pc[p] /\ Locks(p, "dp") /\ "dp" \in Registers
  BY DEF Place, InIput, PutPlaces, Locks, LockedAt, Registers
<1>3. has[p].dp # None /\ rest[p] # <<>>
  BY <1>1, <1>2 DEF RegistersOf, UsedAt, OnTheWay
<1>4. PICK d, n : d = Inode(p, "dp") /\ n = Head(rest[p])
  OBVIOUS
<1>5. Settled(d) /\ d \in Inums
  BY <1>3, <1>4, HandSettled
<1>6. dinode[d].type = "dir"
  BY <1>1, <1>3, <1>4 DEF Knows
<1>7. dir[d][n] = None
  BY <1>4 DEF Entry, Inode
<1>8. n \in Entries /\ n # ".."
  <2>1. n = rest[p][1] /\ 1 \in DOMAIN rest[p] /\ n \in Entries
    BY <1>1, <1>3, <1>4
  <2>2. QED
    BY <1>1, <1>5, <2>1 DEF Knows
<1>9. dir[d]["."] # None
  BY <1>1, <1>5, <1>6, InodesAssumption DEF Directories, Settled
<1>10. n \in Names
  BY <1>7, <1>8, <1>9 DEF Entries
<1>11. QED
  BY <1>2, <1>4, <1>5, <1>6, <1>7, <1>8, <1>10

(* The directories are in order after a name has come that does not lead   *)
(* to a directory, or after one has gone.                                  *)
LEMMA DirectoriesEntered ==
    ASSUME InodeInv, NamesInv, NEW p \in Procs, NEW W, Touches(p, W), ~Raw(p),
           NEW d \in Inums, dinode[d].type = "dir", NEW n \in Names, NEW to,
           Entered(dir, d, n, to), to # None => dinode[to].type # "dir"
    PROVE  Directories'
<1>1. /\ \A i \in Inums : dinode'[i].type = dinode[i].type
      /\ \A i \in Inums : dinode[i].type = "free" => dinode'[i] = dinode[i]
  BY DEF Touches
<1>2. \A q \in Procs \ {p} : Same(q)
  BY OthersSame DEF Touches
<1>3. ASSUME NEW i \in Inums, \A q \in Procs : Raw(q)' => Newborn(q)' # i
      PROVE  \A q \in Procs : Raw(q) => Newborn(q) # i
  BY <1>2, <1>3, MiddleFacts DEF Same
<1>4. Directories /\ Names \cap {".", ".."} = {} /\ None \notin Inums
  BY InodesAssumption DEF NamesInv
<1>5. /\ \A i \in Inums : dir'[i]["."] = dir[i]["."] /\ dir'[i][".."] = dir[i][".."]
      /\ \A i \in Inums : dinode[i].type # "dir" => dir'[i] = dir[i]
  BY <1>4 DEF Entered, Entries
<1>6. \A i \in Inums, e \in Inums, m \in Names :
        dinode[i].type = "dir" /\ dir'[e][m] = i => dir[e][m] = i
  BY <1>4 DEF Entered, Entries
<1>7. ASSUME NEW i \in Inums
      PROVE  /\ dinode'[i].type # "dir" => dir'[i] = NoEntries
             /\ dinode'[i].type = "free" => dinode'[i].nlink = 0
             /\ dinode'[i].type = "dir" /\ (\A q \in Procs : Raw(q)' => Newborn(q)' # i) =>
                  dir'[i]["."] = i /\ dir'[i][".."] # None
             /\ dinode'[i].type = "dir" =>
                  \A e \in Inums, m \in Names : dir'[e][m] = i =>
                    dir'[i][".."] = e /\ e # i /\ \A l \in Names : dir'[e][l] = i => l = m
  <2>1. /\ dinode'[i].type # "dir" => dir'[i] = NoEntries
        /\ dinode'[i].type = "free" => dinode'[i].nlink = 0
    BY <1>1, <1>4, <1>5 DEF Directories
  <2>2. dinode'[i].type = "dir" /\ (\A q \in Procs : Raw(q)' => Newborn(q)' # i) =>
          dir'[i]["."] = i /\ dir'[i][".."] # None
    BY <1>1, <1>3, <1>4, <1>5 DEF Directories
  <2>3. dinode'[i].type = "dir" =>
          \A e \in Inums, m \in Names : dir'[e][m] = i =>
            dir'[i][".."] = e /\ e # i /\ \A l \in Names : dir'[e][l] = i => l = m
    BY <1>1, <1>4, <1>5, <1>6 DEF Directories
  <2>4. QED
    BY <2>1, <2>2, <2>3
<1>8. QED
  BY <1>7 DEF Directories, NoEntries

(* link(): the name that it has raised the count for is there.             *)
LEMMA LinkNames ==
    ASSUME InodeInv, InodeInv', NamesInv, NEW p \in Procs, Link(p)
    PROVE  NamesInv' /\ FreesNothing
<1>1. /\ pc[p] = "dir" /\ call[p].op = "link" /\ Entry(p, "dp") = None
      /\ Put(p, "dp", "linked") /\ Unlock(has[p].dp)
      /\ dir' = [dir EXCEPT ![inum[has[p].dp]][Head(rest[p])] = inum[has[p].old]]
      /\ UNCHANGED <<dinode, inum, call, rest, marked>> /\ RegistersOf(p) /\ Knows(p)
  BY DEF Link, At, Iunlockput, icache, InodeInv, NamesInv
<1>2. LockedAt(pc[p], "dp") /\ Place(p) = "dir" /\ has[p].old # None /\ ~Raw(p)
  BY <1>1 DEF LockedAt, Place, InIput, PutPlaces, RegistersOf, WantsParent, Raw
<1>3. GivingUp(p, "dp", "linked") /\ <<pc[p], "dp", "linked">> \in Written
  BY <1>1, <1>2 DEF GivingUp, GivingBack, Unwritten, Written, OldStays, UnlocksIt, LinkPlaces
<1>4. HandsOn(p, "dp", "linked")
  BY <1>3, WrittenHands
<1>5. PICK d, n, o : d = Inode(p, "dp") /\ n = Head(rest[p]) /\ o = Inode(p, "old")
  OBVIOUS
<1>6. /\ n \in Names /\ n \in Entries /\ d \in Inums /\ Settled(d) /\ dinode[d].type = "dir"
      /\ Locks(p, "dp") /\ dir[d][n] = None
  BY <1>1, <1>5, FreshName
<1>7. o \in Inums /\ dinode[o].type = "file"
  BY <1>1, <1>2, <1>5, HandSettled DEF Knows
<1>8. Entered(dir, d, n, o)
  <2>1. dir' = [dir EXCEPT ![d][n] = o]
    BY <1>1, <1>5 DEF Inode
  <2>2. QED
    BY <1>6, <2>1, Shape, Entering
<1>9. Still(p) /\ Kept /\ ~Raw(p)' /\ ~Going(p)' /\ Place(p)' = "linked"
  BY <1>1, <1>4 DEF HandsOn, Kept
<1>10. Touches(p, {d})
  <2>1. \E r \in Registers : Locks(p, r) /\ Inode(p, r) = d
    BY <1>5, <1>6 DEF Registers
  <2>2. QED
    BY <1>1, <1>4, <1>6, <1>8, <1>9, <2>1 DEF Touches, HandsOn, Settled, Entered
<1>11. \A j : ~Owes(p, j)'
  BY <1>9 DEF Owes
<1>12. LinksCounted'
  <2>1. SUFFICES ASSUME NEW j \in Inums PROVE Links(j)' <= dinode'[j].nlink
    BY DEF LinksCounted
  <2>2. dir[o] = NoEntries /\ dinode[j].nlink \in Int
    BY <1>7, Shape DEF NamesInv, Directories
  <2>3. Owing(j)' \subseteq Owing(j) \ {p}
    BY <1>9, <1>11, OwingStep
  <2>4. \A i \in Inums : NamesOf(i)' \subseteq IF i = o THEN NamesOf(i) \cup {<<d, n>>} ELSE NamesOf(i)
    BY <1>6, <1>8 DEF NamesOf, Entered, Entries
  <2>5. Inside(j)' \subseteq Inside(j)
    <3>1. \A e \in Inums : dir'[e][".."] = dir[e][".."]
      BY <1>6, <1>8, InodesAssumption DEF Entered, Entries
    <3>2. dir[o][".."] # j
      BY <2>2, InodesAssumption DEF NoEntries, Entries
    <3>3. QED
      BY <2>4, <3>1, <3>2 DEF Inside
  <2>6. CASE j = o
    <3>1. p \in Owing(j)
      BY <1>2, <1>5, <2>6 DEF Owing, Owes
    <3>2. Shift(j, 1, 0, -1)
      BY <2>3, <2>4, <2>5, <2>6, <3>1 DEF Shift, Within
    <3>3. dinode[j].nlink + 1 + 0 + (-1) <= dinode'[j].nlink
      BY <1>1, <2>2
    <3>4. 0 \in {-1, 0, 1} /\ 1 \in {-1, 0, 1} /\ -1 \in {-1, 0, 1}
      OBVIOUS
    <3>5. QED
      BY <3>2, <3>3, <3>4, CountKept
  <2>7. CASE j # o
    <3>1. Shift(j, 0, 0, 0)
      BY <2>3, <2>4, <2>5, <2>7 DEF Shift, Within
    <3>2. dinode[j].nlink + 0 + 0 + 0 <= dinode'[j].nlink
      BY <1>1, <2>2
    <3>3. QED
      BY <3>1, <3>2, CountKept
  <2>8. QED
    BY <2>6, <2>7
<1>13. Directories'
  BY <1>2, <1>6, <1>7, <1>8, <1>10, DirectoriesEntered
<1>14. "dp" \in {"ip", "dp", "old"}
  OBVIOUS
<1>15. QED
  BY <1>2, <1>3, <1>4, <1>10, <1>12, <1>13, <1>14, WrittenStep

(* unlink(): the name goes, and its inode's count is to be lowered yet;    *)
(* a directory takes its ".." with it.                                     *)
LEMMA RemoveNames ==
    ASSUME InodeInv, InodeInv', NamesInv, NEW p \in Procs, Remove(p)
    PROVE  NamesInv' /\ FreesNothing
<1>1. /\ pc[p] = "remove" /\ Put(p, "dp", "removed") /\ Unlock(has[p].dp)
      /\ dir' = [dir EXCEPT ![inum[has[p].dp]][Head(rest[p])] = None]
      /\ IF core[has[p].ip].type = "dir" THEN Relink(has[p].dp, -1) ELSE UNCHANGED <<core, dinode>>
      /\ UNCHANGED <<inum, call, rest, marked>> /\ RegistersOf(p) /\ Knows(p)
  BY Shape DEF Remove, At, Iunlockput, NamesInv
<1>2. /\ LockedAt(pc[p], "dp") /\ Place(p) = "remove" /\ ~Raw(p) /\ pc[p] # "freed"
      /\ Locks(p, "dp") /\ Locks(p, "ip") /\ "dp" \in Registers /\ "ip" \in Registers
  BY <1>1 DEF LockedAt, Locks, Place, InIput, PutPlaces, Raw, Registers
<1>3. has[p].old = None /\ has[p].dp # None /\ has[p].ip # None
  BY <1>1, <1>2 DEF RegistersOf, UsedAt, OnTheWay, LinkPlaces
<1>4. GivingUp(p, "dp", "removed") /\ <<pc[p], "dp", "removed">> \in Written
  BY <1>1, <1>2, <1>3 DEF GivingUp, GivingBack, Unwritten, Written, OldStays, UnlocksIt, LinkPlaces
<1>5. HandsOn(p, "dp", "removed")
  BY <1>4, WrittenHands
<1>6. PICK d, n, i : d = Inode(p, "dp") /\ n = Head(rest[p]) /\ i = Inode(p, "ip")
  OBVIOUS
<1>7. /\ n \in Names /\ n \in Entries /\ dir[d][n] = i /\ dinode[d].type = "dir"
  BY <1>1, <1>3, <1>6 DEF Knows, Entry, Inode, Entries
<1>8. d \in Inums /\ Settled(d) /\ i \in Inums /\ Settled(i)
  BY <1>1, <1>3, <1>6, HandSettled
<1>9. i # d
  <2>1. has[p].ip # has[p].dp
    BY <1>2 DEF InodeInv, LocksAgree
  <2>2. /\ has[p].ip \in Slots /\ ref[has[p].ip] > 0
        /\ has[p].dp \in Slots /\ ref[has[p].dp] > 0
    BY <1>2, LockedIsMine
  <2>3. QED
    BY <1>6, <2>1, <2>2 DEF InodeInv, OneEntry, Inode
<1>10. core[has[p].ip] = dinode[i]
  BY <1>2, <1>6, LockedAgrees DEF Inode
<1>11. Entered(dir, d, n, None)
  <2>1. dir' = [dir EXCEPT ![d][n] = None]
    BY <1>1, <1>6 DEF Inode
  <2>2. QED
    BY <1>7, <1>8, <2>1, Shape, Entering
<1>12. /\ \A j \in Inums \ {d} : dinode'[j] = dinode[j]
       /\ dinode'[d].type = dinode[d].type
       /\ dinode[i].type = "dir" => dinode'[d].nlink = dinode[d].nlink + (-1)
       /\ dinode[i].type # "dir" => dinode'[d].nlink = dinode[d].nlink
  <2>1. CASE dinode[i].type = "dir"
    <3>1. Relink(has[p].dp, -1) /\ -1 \in Int
      BY <1>1, <1>10, <2>1
    <3>2. QED
      BY <1>2, <1>6, <2>1, <3>1, RelinkFacts
  <2>2. CASE dinode[i].type # "dir"
    BY <1>1, <1>10, <2>2
  <2>3. QED
    BY <2>1, <2>2
<1>13. Still(p) /\ Kept /\ ~Raw(p)' /\ ~Going(p)' /\ Place(p)' = "removed"
       /\ has'[p].old = None /\ has'[p].ip = has[p].ip
  BY <1>1, <1>3, <1>5 DEF HandsOn, Kept, Registers
<1>14. Touches(p, {d})
  <2>1. \E r \in Registers : Locks(p, r) /\ Inode(p, r) = d
    BY <1>2, <1>6
  <2>2. QED
    BY <1>5, <1>7, <1>8, <1>11, <1>12, <1>13, <2>1 DEF Touches, HandsOn, Settled, Entered
<1>15. \A j : Owes(p, j)' => j = i
  BY <1>1, <1>6, <1>13 DEF Owes, Inode
<1>16. /\ \A j \in Inums : NamesOf(j)' \subseteq NamesOf(j)
       /\ <<d, n>> \in NamesOf(i) /\ NamesOf(i)' \subseteq NamesOf(i) \ {<<d, n>>}
       /\ \A j \in Inums : Inside(j)' \subseteq Inside(j)
  <2>1. \A j \in Inums : NamesOf(j)' \subseteq NamesOf(j)
    BY <1>7, <1>8, <1>11, InodesAssumption DEF NamesOf, Entered, Entries
  <2>2. <<d, n>> \in NamesOf(i)
    BY <1>7, <1>8 DEF NamesOf
  <2>3. <<d, n>> \notin NamesOf(i)'
    BY <1>8, <1>11, InodesAssumption DEF NamesOf, Entered
  <2>4. \A e \in Inums : dir'[e][".."] = dir[e][".."]
    BY <1>7, <1>11, InodesAssumption DEF Entered, Entries
  <2>5. QED
    BY <1>8, <2>1, <2>2, <2>3, <2>4 DEF Inside
<1>17. dinode[i].type = "dir" => i \in Inside(d) /\ i \notin Inside(d)'
  <2>1. SUFFICES ASSUME dinode[i].type = "dir" PROVE i \in Inside(d) /\ i \notin Inside(d)'
    OBVIOUS
  <2>2. dir[i][".."] = d /\ \A e \in Inums, m \in Names : dir[e][m] = i => e = d /\ m = n
    BY <1>7, <1>8, <2>1 DEF NamesInv, Directories
  <2>3. NamesOf(i) \subseteq {<<d, n>>}
    BY <2>2 DEF NamesOf
  <2>4. NamesOf(i)' = {}
    BY <1>16, <2>3
  <2>5. QED
    BY <1>8, <1>9, <1>16, <2>2, <2>4 DEF Inside
<1>18. LinksCounted'
  <2>1. SUFFICES ASSUME NEW j \in Inums PROVE Links(j)' <= dinode'[j].nlink
    BY DEF LinksCounted
  <2>2. dinode[j].nlink \in Int
    BY Shape
  <2>3. 0 \in {-1, 0, 1} /\ 1 \in {-1, 0, 1} /\ -1 \in {-1, 0, 1}
    OBVIOUS
  <2>4. CASE j = i
    <3>1. Owing(j)' \subseteq Owing(j) \cup {p}
      BY <1>13, OwingStep
    <3>2. Shift(j, -1, 0, 1)
      BY <1>8, <1>16, <2>4, <3>1 DEF Shift, Within
    <3>3. dinode[j].nlink + (-1) + 0 + 1 <= dinode'[j].nlink
      BY <1>9, <1>12, <2>2, <2>4
    <3>4. QED
      BY <2>3, <3>2, <3>3, CountKept
  <2>5. ASSUME j # i PROVE Owing(j)' \subseteq Owing(j)
    BY <1>13, <1>15, <2>5, OwingStep
  <2>6. CASE j = d /\ dinode[i].type = "dir"
    <3>1. Shift(j, 0, -1, 0)
      BY <1>8, <1>9, <1>16, <1>17, <2>5, <2>6 DEF Shift, Within
    <3>2. dinode[j].nlink + 0 + (-1) + 0 <= dinode'[j].nlink
      BY <1>12, <2>2, <2>6
    <3>3. QED
      BY <2>3, <3>1, <3>2, CountKept
  <2>7. CASE j # i /\ ~(j = d /\ dinode[i].type = "dir")
    <3>1. Shift(j, 0, 0, 0)
      BY <1>16, <2>5, <2>7 DEF Shift, Within
    <3>2. dinode[j].nlink + 0 + 0 + 0 <= dinode'[j].nlink
      BY <1>12, <2>2, <2>7
    <3>3. QED
      BY <3>1, <3>2, CountKept
  <2>8. QED
    BY <1>9, <2>4, <2>6, <2>7
<1>19. Directories'
  BY <1>2, <1>7, <1>8, <1>11, <1>14, DirectoriesEntered
<1>20. "dp" \in {"ip", "dp", "old"}
  OBVIOUS
<1>21. QED
  BY <1>2, <1>4, <1>5, <1>14, <1>18, <1>19, <1>20, WrittenStep

-----------------------------------------------------------------------------
(* create(): the new inode gets its name, ...                              *)
FillsIn(p, i, d, n) ==
    LET more == IF Type(p) = "dir" THEN 1 ELSE 0 IN
    /\ i \in Inums /\ d \in Inums /\ i # d /\ dinode[d].type # "free"
    /\ dinode'[i].type = dinode[i].type /\ dinode'[i].nlink = 1
    /\ dinode'[d].type = dinode[d].type /\ dinode'[d].nlink = dinode[d].nlink + more
    /\ \A j \in Inums \ {i, d} : dinode'[j] = dinode[j] /\ dir'[j] = dir[j]
    /\ dir'[d][n] = i
    /\ \A m \in Entries \ {n} : dir'[d][m] = dir[d][m]
    /\ \A m \in Names : dir'[i][m] = dir[i][m]
    /\ Type(p) = "dir" => dir'[i]["."] = i /\ dir'[i][".."] = d
    /\ Type(p) # "dir" => dir'[i] = dir[i]

LEMMA FillFacts ==
    ASSUME InodeInv, NEW p \in Procs, Fill(p), Head(rest[p]) \in Entries
    PROVE  FillsIn(p, Inode(p, "ip"), Inode(p, "dp"), Head(rest[p]))
<1> DEFINE s == has[p].ip
           d == has[p].dp
           more == IF Type(p) = "dir" THEN 1 ELSE 0
           dots == Dots(p, s, d)
<1>1. /\ pc[p] = "fill"
      /\ core' = [core EXCEPT ![s].nlink = 1, ![d].nlink = @ + more]
      /\ dinode' = [dinode EXCEPT ![inum[s]] = core'[s], ![inum[d]] = core'[d]]
      /\ dir' = [dots EXCEPT ![inum[d]][Head(rest[p])] = inum[s]]
  BY DEF Fill, Named, At
<1>2. /\ dir \in [Inums -> [Entries -> Inums \cup {None}]]
      /\ dinode \in [Inums -> [type : Types, nlink : Int]]
      /\ core \in [Slots -> [type : Types, nlink : Int]] /\ LocksAgree /\ OneEntry
  BY DEF InodeInv, InodeShape
<1>3. /\ Locks(p, "dp") /\ Locks(p, "ip") /\ pc[p] # "freed" /\ "dp" \in Registers /\ "ip" \in Registers
  BY <1>1 DEF LockedAt, Locks, Place, InIput, PutPlaces, Registers
<1>4. /\ s \in Slots /\ ref[s] > 0 /\ inum[s] \in Inums /\ core[s] = dinode[inum[s]]
      /\ d \in Slots /\ ref[d] > 0 /\ inum[d] \in Inums /\ core[d] = dinode[inum[d]]
      /\ core[d].type # "free"
  BY <1>3, LockedIsMine, LockedAgrees
<1>5. s # d /\ inum[s] # inum[d]
  <2>1. s # d
    BY <1>2, <1>3 DEF LocksAgree
  <2>2. QED
    BY <1>2, <1>4, <2>1 DEF OneEntry
<1>6. Type(p) = "dir" =>
        dots[inum[s]] = [dir[inum[s]] EXCEPT !["."] = inum[s], ![".."] = inum[d]]
  BY <1>2, <1>4 DEF Dots
<1>7. /\ Type(p) # "dir" => dots = dir
      /\ \A j \in Inums \ {inum[s]} : dots[j] = dir[j]
      /\ dots \in [Inums -> [Entries -> Inums \cup {None}]]
  <2>1. [dir[inum[s]] EXCEPT !["."] = inum[s], ![".."] = inum[d]] \in [Entries -> Inums \cup {None}]
    BY <1>2, <1>4
  <2>2. QED
    BY <1>2, <1>4, <2>1 DEF Dots
<1> HIDE DEF dots
<1>8. Entered(dots, inum[d], Head(rest[p]), inum[s])
  BY <1>1, <1>4, <1>7, Entering
<1> HIDE DEF s, d, more
<1>9. PICK i, k, n : i = inum[s] /\ k = inum[d] /\ n = Head(rest[p])
  OBVIOUS
<1>10. dir[i] \in [Entries -> Inums \cup {None}] /\ Names \subseteq Entries /\ {".", ".."} \subseteq Entries
       /\ Names \cap {".", ".."} = {}
  BY <1>2, <1>4, <1>9, InodesAssumption DEF Entries
<1>11. /\ \A j \in Inums \ {i, k} : dir'[j] = dir[j]
       /\ dir'[k][n] = i
       /\ \A m \in Entries \ {n} : dir'[k][m] = dir[k][m]
       /\ dir'[i] = dots[i]
  BY <1>4, <1>5, <1>7, <1>8, <1>9 DEF Entered
<1>12. /\ \A m \in Names : dir'[i][m] = dir[i][m]
       /\ Type(p) = "dir" => dir'[i]["."] = i /\ dir'[i][".."] = k
       /\ Type(p) # "dir" => dir'[i] = dir[i]
  <2>1. CASE Type(p) = "dir"
    <3>1. dir'[i] = [dir[i] EXCEPT !["."] = i, ![".."] = k]
      BY <1>6, <1>9, <1>11, <2>1
    <3>2. QED
      BY <1>10, <2>1, <3>1
  <2>2. CASE Type(p) # "dir"
    BY <1>7, <1>11, <2>2
  <2>3. QED
    BY <2>1, <2>2
<1>13. PICK a, b : a = [core[s] EXCEPT !.nlink = 1] /\ b = [core[d] EXCEPT !.nlink = @ + more]
  OBVIOUS
<1>14. core' = [core EXCEPT ![s] = a, ![d] = b]
  BY <1>1, <1>2, <1>4, <1>5, <1>13
<1>15. core'[s] = a /\ core'[d] = b
  BY <1>2, <1>4, <1>5, <1>14
<1>16. /\ dinode'[i] = a /\ dinode'[k] = b
       /\ \A j \in Inums \ {i, k} : dinode'[j] = dinode[j]
  BY <1>1, <1>2, <1>4, <1>5, <1>9, <1>15
<1>17. /\ a.type = dinode[i].type /\ a.nlink = 1
       /\ b.type = dinode[k].type /\ b.nlink = dinode[k].nlink + more
  BY <1>2, <1>4, <1>9, <1>13
<1>18. i = Inode(p, "ip") /\ k = Inode(p, "dp")
  BY <1>9 DEF s, d, Inode
<1>19. FillsIn(p, i, k, n)
  BY <1>4, <1>5, <1>9, <1>11, <1>12, <1>16, <1>17 DEF FillsIn, more
<1>20. QED
  BY <1>9, <1>18, <1>19

(* ... and with it its only link; a directory's ".." is a link of the      *)
(* directory it is in.                                                     *)
LEMMA FillNames ==
    ASSUME InodeInv, InodeInv', NamesInv, NEW p \in Procs, Fill(p)
    PROVE  NamesInv' /\ FreesNothing
<1>1. /\ pc[p] = "fill" /\ Put(p, "dp", "made") /\ Unlock(has[p].dp)
      /\ UNCHANGED <<inum, call, rest, marked>> /\ RegistersOf(p) /\ Knows(p) /\ Fresh(p) /\ Directories
  BY Shape DEF Fill, At, Iunlockput, NamesInv
<1>2. /\ LockedAt(pc[p], "dp") /\ Place(p) = "fill" /\ Raw(p) /\ pc[p] # "freed"
      /\ Locks(p, "dp") /\ Locks(p, "ip") /\ "dp" \in Registers /\ "ip" \in Registers
  BY <1>1 DEF LockedAt, Locks, Place, InIput, PutPlaces, Raw, Registers
<1>3. has[p].old = None /\ Entry(p, "dp") = None
  BY <1>1, <1>2 DEF RegistersOf, OnTheWay, LinkPlaces, Knows
<1>4. GivingUp(p, "dp", "made") /\ <<pc[p], "dp", "made">> \in Written
  BY <1>1, <1>2, <1>3 DEF GivingUp, GivingBack, Unwritten, Written, OldStays, UnlocksIt, LinkPlaces
<1>5. HandsOn(p, "dp", "made")
  BY <1>4, WrittenHands
<1>6. PICK d, n, i : d = Inode(p, "dp") /\ n = Head(rest[p]) /\ i = Inode(p, "ip")
  OBVIOUS
<1>25. Newborn(p) = i
  BY <1>1, <1>6 DEF Newborn
<1>7. /\ n \in Names /\ n \in Entries /\ Settled(d) /\ dinode[d].type = "dir" /\ dir[d][n] = None
  BY <1>1, <1>3, <1>6, FreshName
<1>8. PICK more \in {0, 1} : more = IF Type(p) = "dir" THEN 1 ELSE 0
  OBVIOUS
<1>9. /\ i \in Inums /\ d \in Inums /\ i # d
      /\ dinode'[i].type = dinode[i].type /\ dinode'[i].nlink = 1
      /\ dinode'[d].type = dinode[d].type /\ dinode'[d].nlink = dinode[d].nlink + more
      /\ \A j \in Inums \ {i, d} : dinode'[j] = dinode[j] /\ dir'[j] = dir[j]
      /\ dir'[d][n] = i
      /\ \A m \in Entries \ {n} : dir'[d][m] = dir[d][m]
      /\ \A m \in Names : dir'[i][m] = dir[i][m]
      /\ Type(p) = "dir" => dir'[i]["."] = i /\ dir'[i][".."] = d
      /\ Type(p) # "dir" => dir'[i] = dir[i]
  <2>1. FillsIn(p, i, d, n)
    BY <1>6, <1>7, FillFacts
  <2>2. QED
    BY <1>8, <2>1 DEF FillsIn
<1>10. /\ dinode[i].type = Type(p) /\ dinode[i].nlink = 0 /\ dir[i] = NoEntries
       /\ \A q \in Procs \ {p} : Raw(q) => Newborn(q) # i
  BY <1>1, <1>2, <1>25 DEF Fresh, Node
<1>11. Type(p) \in {"dir", "file"}
  BY DEF Type
<1>12. \A q \in Procs \ {p} : Going(q) => Inode(q, "giving") # i
  <2>1. SUFFICES ASSUME NEW q \in Procs \ {p}, Going(q) PROVE Inode(q, "giving") # i
    OBVIOUS
  <2>2. Locks(q, "giving") /\ "giving" \in Registers
    BY <2>1 DEF Going, Locks, Registers
  <2>3. QED
    BY <1>2, <1>6, <2>2, LockedApart
<1>13. NamesOf(i) = {}
  BY <1>2, <1>25, <1>9, Linked DEF Settled
<1>14. Still(p) /\ Kept /\ ~Raw(p)' /\ ~Going(p)' /\ Place(p)' = "made" /\ has'[p].old = None
  BY <1>1, <1>3, <1>5 DEF HandsOn, Kept, Registers
<1>15. Touches(p, {i, d})
  <2>1. /\ \E r \in Registers : Locks(p, r) /\ Inode(p, r) = d
        /\ \E r \in Registers : Locks(p, r) /\ Inode(p, r) = i
    BY <1>2, <1>6
  <2>3. \A q \in Procs \ {p} : /\ Raw(q) => Newborn(q) # d
                               /\ Going(q) => Inode(q, "giving") # d
    BY <1>7 DEF Settled
  <2>4. QED
    BY <1>7, <1>9, <1>10, <1>11, <1>12, <1>14, <2>1, <2>3 DEF Touches
<1>16. \A e \in Inums, m \in Names : dir'[e][m] = IF e = d /\ m = n THEN i ELSE dir[e][m]
  BY <1>9 DEF Entries
<1>17. \A e \in Inums \ {i} : dir'[e]["."] = dir[e]["."] /\ dir'[e][".."] = dir[e][".."]
  BY <1>7, <1>9, InodesAssumption DEF Entries
<1>18. dir'[i][".."] = IF Type(p) = "dir" THEN d ELSE None
  BY <1>9, <1>10, <1>11 DEF NoEntries, Entries
<1>19. /\ NamesOf(i)' \subseteq NamesOf(i) \cup {<<d, n>>}
       /\ \A j \in Inums \ {i} : NamesOf(j)' \subseteq NamesOf(j)
  BY <1>16 DEF NamesOf
<1>20. /\ \A j \in Inums \ {d} : Inside(j)' \subseteq Inside(j)
       /\ Inside(d)' \subseteq Inside(d) \cup {i}
       /\ Type(p) # "dir" => Inside(d)' \subseteq Inside(d)
  BY <1>9, <1>17, <1>18, <1>19, InodesAssumption DEF Inside
<1>21. LinksCounted'
  <2>1. SUFFICES ASSUME NEW j \in Inums PROVE Links(j)' <= dinode'[j].nlink
    BY DEF LinksCounted
  <2>2. dinode[j].nlink \in Int /\ more \in {-1, 0, 1} /\ more \in Int
    BY Shape
  <2>3. Owing(j)' \subseteq Owing(j)
    <3>1. ~Owes(p, j)'
      BY <1>14 DEF Owes
    <3>2. QED
      BY <1>14, <3>1, OwingStep
  <2>4. CASE j = i
    <3>1. Shift(j, 1, 0, 0)
      BY <1>9, <1>19, <1>20, <2>3, <2>4 DEF Shift, Within
    <3>2. dinode[j].nlink + 1 + 0 + 0 <= dinode'[j].nlink
      BY <1>9, <1>10, <2>4
    <3>3. QED
      BY <3>1, <3>2, CountKept
  <2>5. CASE j = d
    <3>1. Within(Inside(d)', Inside(d), more)
      BY <1>8, <1>20 DEF Within
    <3>2. Shift(j, 0, more, 0)
      BY <1>9, <1>19, <2>3, <2>5, <3>1 DEF Shift, Within
    <3>3. dinode[j].nlink + 0 + more + 0 <= dinode'[j].nlink
      BY <1>9, <2>2, <2>5
    <3>4. QED
      BY <2>2, <3>2, <3>3, CountKept
  <2>6. CASE j \notin {i, d}
    <3>1. Shift(j, 0, 0, 0)
      BY <1>19, <1>20, <2>3, <2>6 DEF Shift, Within
    <3>2. dinode[j].nlink + 0 + 0 + 0 <= dinode'[j].nlink
      BY <1>9, <2>2, <2>6
    <3>3. QED
      BY <3>1, <3>2, CountKept
  <2>7. QED
    BY <2>4, <2>5, <2>6
<1>22. Directories'
  <2>1. SUFFICES ASSUME NEW j \in Inums
                 PROVE  /\ dinode'[j].type # "dir" => dir'[j] = NoEntries
                        /\ dinode'[j].type = "free" => dinode'[j].nlink = 0
                        /\ dinode'[j].type = "dir" /\ (\A q \in Procs : Raw(q)' => Newborn(q)' # j) =>
                             dir'[j]["."] = j /\ dir'[j][".."] # None
                        /\ dinode'[j].type = "dir" =>
                             \A e \in Inums, m \in Names : dir'[e][m] = j =>
                               dir'[j][".."] = e /\ e # j /\ \A l \in Names : dir'[e][l] = j => l = m
    BY DEF Directories, NoEntries
  <2>2. /\ dinode'[j].type # "dir" => dir'[j] = NoEntries
        /\ dinode'[j].type = "free" => dinode'[j].nlink = 0
    BY <1>1, <1>7, <1>9, <1>10, <1>11 DEF Directories
  <2>3. dinode'[j].type = "dir" /\ (\A q \in Procs : Raw(q)' => Newborn(q)' # j) =>
          dir'[j]["."] = j /\ dir'[j][".."] # None
    <3>1. CASE j = i
      BY <1>9, <1>10, <3>1, InodesAssumption
    <3>2. CASE j # i
      <4>1. \A q \in Procs \ {p} : Same(q)
        BY <1>14, OthersSame
      <4>2. ASSUME \A q \in Procs : Raw(q)' => Newborn(q)' # j
            PROVE  \A q \in Procs : Raw(q) => Newborn(q) # j
        BY <1>25, <3>2, <4>1, <4>2, MiddleFacts DEF Same
      <4>3. dinode'[j].type = dinode[j].type
        BY <1>9
      <4>4. QED
        BY <1>1, <1>17, <3>2, <4>2, <4>3 DEF Directories
    <3>3. QED
      BY <3>1, <3>2
  <2>4. ASSUME dinode'[j].type = "dir", NEW e \in Inums, NEW m \in Names, dir'[e][m] = j
        PROVE  dir'[j][".."] = e /\ e # j /\ \A l \in Names : dir'[e][l] = j => l = m
    <3>1. CASE j = i
      <4>1. \A a \in Inums, l \in Names : dir'[a][l] = i => a = d /\ l = n
        <5>1. SUFFICES ASSUME NEW a \in Inums, NEW l \in Names, dir[a][l] = i PROVE FALSE
          BY <1>16
        <5>2. <<a, l>> \in NamesOf(i)
          BY <5>1 DEF NamesOf
        <5>3. QED
          BY <1>13, <5>2
      <4>2. QED
        BY <1>9, <1>10, <2>4, <3>1, <4>1
    <3>2. CASE j # i
      <4>1. dinode[j].type = "dir" /\ \A a \in Inums, l \in Names : dir'[a][l] = j => dir[a][l] = j
        BY <1>9, <1>16, <2>4, <3>2
      <4>2. QED
        BY <1>1, <1>17, <2>4, <3>2, <4>1 DEF Directories
    <3>3. QED
      BY <3>1, <3>2
  <2>5. QED
    BY <2>2, <2>3, <2>4
<1>23. "dp" \in {"ip", "dp", "old"} /\ (Raw(p) => Newborn(p) \in {i, d})
  BY <1>25
<1>24. QED
  BY <1>4, <1>5, <1>15, <1>21, <1>22, <1>23, WrittenStep

-----------------------------------------------------------------------------
(* create() marks a free inode.  Nothing counts as a link to it, and none  *)
(* of what anybody has in hand is free.                                    *)
LEMMA MarkNames ==
    ASSUME InodeInv, InodeInv', NamesInv, NEW p \in Procs, Mark(p), FreeInums # {}
    PROVE  NamesInv' /\ FreesNothing
<1>1. PICK i \in FreeInums :
          /\ dinode' = [dinode EXCEPT ![i] = Node(Type(p), 0)]
          /\ marked' = [marked EXCEPT ![p] = i] /\ Goto(p, "marked")
          /\ UNCHANGED <<dir, inum, lock, after, has, call, rest, panicked>>
  BY DEF Mark, icache
<1>2. /\ pc[p] = "dir" /\ pc' = [pc EXCEPT ![p] = "marked"] /\ Makes(p) /\ Entry(p, "dp") = None
      /\ i \in Inums /\ dinode[i].type = "free"
      /\ {"ip", "dp", "old", "giving", "cwd", "file"} \subseteq Registers
  BY <1>1 DEF Mark, At, Goto, FreeInums, Registers
<1>3. /\ pc'[p] = "marked" /\ marked'[p] = i
      /\ \A q \in Procs \ {p} : pc'[q] = pc[q] /\ marked'[q] = marked[q]
  BY <1>1, <1>2, Shape
<1>4. Still(p) /\ Kept
  BY <1>1, <1>3 DEF Still, Kept
<1>5. /\ Place(p) = "dir" /\ ~Raw(p) /\ Place(p)' = "marked" /\ Raw(p)' /\ ~Going(p)' /\ ~InIput(p)'
  BY <1>2, <1>3 DEF Place, InIput, PutPlaces, Raw, Going
<1>6. RegistersOf(p) /\ Knows(p) /\ Directories /\ InHand(p)
  BY Shape DEF NamesInv
<1>7. has' = has /\ has[p].old = None /\ has[p].dp # None
  BY <1>1, <1>2, <1>5, <1>6 DEF RegistersOf, UsedAt, OnTheWay, Makes
<1>8. Newborn(p)' = i /\ \A r \in Registers : Inode(p, r)' = Inode(p, r)
  BY <1>1, <1>3 DEF Inode, Newborn
<1>9. /\ dinode'[i] = Node(Type(p), 0) /\ \A j \in Inums \ {i} : dinode'[j] = dinode[j]
      /\ \A j : j # i => dinode'[j] = dinode[j]
  BY <1>1, <1>2, Shape
<1>10. /\ Node(Type(p), 0).nlink = 0 /\ Node(Type(p), 0).type = Type(p)
       /\ Type(p) \in {"dir", "file"} /\ Type(p)' = Type(p)
  BY <1>1 DEF Node, Type
<1>11. dir' = dir /\ dir[i] = NoEntries /\ dinode[i].nlink = 0
  BY <1>1, <1>2, <1>6 DEF Directories
<1>12. NamesOf(i) = {}
  BY <1>2, Linked DEF Settled
<1>13. \A j : ~Owes(p, j)'
  BY <1>5, <1>7 DEF Owes
<1>14. LinksCounted'
  <2>1. SUFFICES ASSUME NEW j \in Inums PROVE Links(j)' <= dinode'[j].nlink
    BY DEF LinksCounted
  <2>2. NamesOf(j)' = NamesOf(j) /\ Inside(j)' = Inside(j)
    BY <1>11 DEF NamesOf, Inside
  <2>3. Owing(j)' \subseteq Owing(j)
    BY <1>4, <1>13, OwingStep
  <2>4. Shift(j, 0, 0, 0)
    BY <2>2, <2>3 DEF Shift, Within
  <2>5. dinode'[j].nlink = dinode[j].nlink /\ dinode[j].nlink \in Int
    BY <1>9, <1>10, <1>11, Shape
  <2>6. dinode[j].nlink + 0 + 0 + 0 <= dinode'[j].nlink
    BY <2>5
  <2>7. QED
    BY <2>4, <2>6, CountKept
<1>15. \A q \in Procs \ {p} : Same(q)
  BY <1>4, OthersSame
<1>16. \A q \in Procs \ {p} : Raw(q) => Newborn(q) # i
  <2>1. SUFFICES ASSUME NEW q \in Procs \ {p}, Raw(q) PROVE dinode[Newborn(q)].type # "free"
    BY <1>2
  <2>2. Fresh(q)
    BY DEF NamesInv
  <2>3. QED
    BY <2>1, <2>2 DEF Fresh, Node, Type
<1>17. Directories'
  <2>1. SUFFICES ASSUME NEW j \in Inums
                 PROVE  /\ dinode'[j].type # "dir" => dir'[j] = NoEntries
                        /\ dinode'[j].type = "free" => dinode'[j].nlink = 0
                        /\ dinode'[j].type = "dir" /\ (\A q \in Procs : Raw(q)' => Newborn(q)' # j) =>
                             dir'[j]["."] = j /\ dir'[j][".."] # None
                        /\ dinode'[j].type = "dir" =>
                             \A e \in Inums, m \in Names : dir'[e][m] = j =>
                               dir'[j][".."] = e /\ e # j /\ \A l \in Names : dir'[e][l] = j => l = m
    BY DEF Directories, NoEntries
  <2>2. CASE j = i
    <3>1. \A e \in Inums, m \in Names : dir[e][m] # i
      <4>1. SUFFICES ASSUME NEW e \in Inums, NEW m \in Names, dir[e][m] = i PROVE FALSE
        OBVIOUS
      <4>2. <<e, m>> \in NamesOf(i)
        BY <4>1 DEF NamesOf
      <4>3. QED
        BY <1>12, <4>2
    <3>2. QED
      BY <1>5, <1>8, <1>9, <1>10, <1>11, <2>2, <3>1
  <2>3. CASE j # i
    <3>1. ASSUME \A q \in Procs : Raw(q)' => Newborn(q)' # j
          PROVE  \A q \in Procs : Raw(q) => Newborn(q) # j
      BY <1>5, <1>15, <3>1, MiddleFacts DEF Same
    <3>2. dinode'[j] = dinode[j]
      BY <1>9, <2>3
    <3>3. QED
      BY <1>6, <1>11, <3>1, <3>2 DEF Directories
  <2>4. QED
    BY <2>2, <2>3
<1>18. ASSUME NEW j, Settled(j) PROVE Settled(j)' /\ j # i
  <2>1. j # i
    BY <1>2, <1>18 DEF Settled
  <2>2. dinode'[j].type # "free"
    BY <1>9, <1>18, <2>1 DEF Settled
  <2>3. /\ \A q \in Procs \ {p} : Raw(q) => Newborn(q) # j
        /\ \A q \in Procs \ {p} : Going(q) => Inode(q, "giving") # j
    BY <1>18 DEF Settled
  <2>4. QED
    BY <1>4, <1>5, <1>8, <2>1, <2>2, <2>3, SettledStays
<1>19. ASSUME NEW q \in Procs \ {p} PROVE Spares(p, q)
  <2>1. Leaving(q) /\ InHand(q)
    BY DEF NamesInv
  <2>2. Raw(q) => /\ dinode'[Newborn(q)] = dinode[Newborn(q)]
                  /\ dir'[Newborn(q)] = dir[Newborn(q)]
                  /\ Raw(p)' => Newborn(p)' # Newborn(q)
    BY <1>8, <1>9, <1>11, <1>16
  <2>3. Going(q) => dinode'[Inode(q, "giving")].nlink = 0
    BY <1>9, <1>10, <2>1 DEF Leaving
  <2>4. pc[q] = "free" => Inode(q, "giving") # i
    <3>1. SUFFICES ASSUME pc[q] = "free" PROVE dinode[Inode(q, "giving")].type # "free"
      BY <1>2
    <3>2. Locks(q, "giving") /\ "giving" \in Registers /\ pc[q] # "freed"
      BY <3>1 DEF Locks, Registers
    <3>3. core[has[q].giving] = dinode[inum[has[q].giving]] /\ core[has[q].giving].type # "free"
      BY <3>2, LockedAgrees
    <3>4. QED
      BY <3>3 DEF Inode
  <2>6. \A r \in {"dp", "old"} :
          has[q][r] # None => dinode'[Inode(q, r)].type = dinode[Inode(q, r)].type
    BY <1>9, <1>18, HandSettled
  <2>7. \A j : Has(q, j) => Settled(j)'
    BY <1>18, <2>1 DEF Has, InHand
  <2>8. QED
    BY <1>8, <1>11, <2>2, <2>3, <2>4, <2>6, <2>7 DEF Spares
<1>20. \A q \in Procs \ {p} : Fine(q)'
  BY <1>4, <1>19, OthersStay
<1>21. Fresh(p)'
  <2>1. dinode'[Newborn(p)'] = Node(Type(p)', 0) /\ dir'[Newborn(p)'] = NoEntries
    BY <1>8, <1>9, <1>10, <1>11
  <2>2. \A q \in Procs \ {p} : Raw(q)' => Newborn(q)' # Newborn(p)'
    BY <1>8, <1>15, <1>16, MiddleFacts DEF Same
  <2>3. QED
    BY <2>1, <2>2 DEF Fresh, Node, NoEntries
<1>22. PICK d : d = Inode(p, "dp")
  OBVIOUS
<1>23. Settled(d)
  BY <1>7, <1>22, HandSettled
<1>24. InHand(p)'
  <2>1. SUFFICES ASSUME NEW r \in Registers, Steady(p, r)'
                 PROVE  Settled(Inode(p, r))'
    BY DEF InHand
  <2>2. Steady(p, r)
    BY <1>3, <1>5, <1>7, <2>1 DEF Steady
  <2>3. PICK j : j = Inode(p, r)
    OBVIOUS
  <2>4. Settled(j)' /\ j = Inode(p, r)'
    BY <1>6, <1>8, <1>18, <2>2, <2>3 DEF InHand
  <2>5. QED
    BY <2>4 DEF Settled
<1>25. Knows(p)'
  <2>1. dinode'[Inode(p, "dp")'].type = "dir"
    BY <1>2, <1>6, <1>7, <1>8, <1>9, <1>18, <1>22, <1>23 DEF Knows
  <2>2. Entry(p, "dp")' = None
    BY <1>1, <1>2, <1>11 DEF Entry
  <2>3. Makes(p)'
    BY <1>1, <1>2 DEF Makes
  <2>4. \A k \in DOMAIN rest'[p] : rest'[p][k] # ".."
    BY <1>1, <1>6 DEF Knows
  <2>5. QED
    BY <1>3, <1>5, <1>7, <2>1, <2>2, <2>3, <2>4 DEF Knows
<1>26. Leaving(p)'
  BY <1>3, <1>5 DEF Leaving
<1>27. FreesNothing
  BY <1>2, <1>9 DEF FreesNothing
<1>28. QED
  BY <1>14, <1>17, <1>20, <1>21, <1>24, <1>25, <1>26, <1>27 DEF NamesInv, Fine

(* iget() makes a pointer to it: it is still nobody else's.                *)
LEMMA CreateNames ==
    ASSUME InodeInv, InodeInv', NamesInv, NEW p \in Procs, NEW s \in Slots, Create(p, s)
    PROVE  NamesInv' /\ FreesNothing
<1>1. /\ pc[p] = "marked" /\ Iget(marked[p], s) /\ has' = [has EXCEPT ![p]["ip"] = s]
      /\ marked' = [marked EXCEPT ![p] = None] /\ pc' = [pc EXCEPT ![p] = "new"]
      /\ UNCHANGED <<dinode, dir, after, call, rest>>
      /\ {"ip", "dp", "old", "giving", "cwd", "file"} \subseteq Registers
  BY DEF Create, At, Goto, disk, Registers
<1>2. RegistersOf(p) /\ Knows(p) /\ InHand(p)
  BY Shape DEF NamesInv
<1>3. /\ pc'[p] = "new" /\ has'[p].ip = s /\ \A t \in Registers \ {"ip"} : has'[p][t] = has[p][t]
      /\ \A q \in Procs \ {p} : /\ pc'[q] = pc[q] /\ has'[q] = has[q]
                              /\ marked'[q] = marked[q]
  BY <1>1, Shape
<1>4. /\ Raw(p) /\ Raw(p)' /\ ~Going(p)' /\ ~InIput(p)' /\ Place(p)' = "new" /\ Place(p) = "marked"
      /\ Newborn(p) = marked[p] /\ marked[p] \in Inums
  <2>1. /\ Raw(p) /\ Raw(p)' /\ ~Going(p)' /\ ~InIput(p)' /\ Place(p)' = "new" /\ Place(p) = "marked"
        /\ Newborn(p) = marked[p]
    BY <1>1, <1>3 DEF Raw, Going, InIput, PutPlaces, Place, Newborn
  <2>2. QED
    BY <2>1, MiddleFacts
<1>5. Still(p) /\ Kept
  BY <1>1, <1>3, <1>4, KeptIget DEF Still
<1>6. has[p].old = None /\ has[p].dp # None /\ has'[p].old = None /\ has'[p].dp = has[p].dp
  BY <1>1, <1>3, <1>4, MiddleFacts
<1>7. Newborn(p)' = Newborn(p) /\ Inode(p, "dp")' = Inode(p, "dp")
  <2>1. inum'[s] = marked[p]
    BY <1>1, <1>4, IgetFacts
  <2>2. QED
    BY <1>1, <1>3, <1>4, <1>5, <1>6, <2>1 DEF Newborn, Inode, Kept
<1>8. \A i : ~Owes(p, i)'
  BY <1>4, <1>6 DEF Owes
<1>9. Quiet(p)
  BY <1>1, <1>3, <1>4, <1>5, <1>7, <1>8 DEF Quiet
<1>10. InHand(p)'
  <2>1. \A r \in Registers : Steady(p, r)' => Steady(p, r) /\ has'[p][r] = has[p][r]
    BY <1>3, <1>4 DEF Steady
  <2>2. \A r \in Registers : Steady(p, r)' => Comes(p, r)
    BY <2>1 DEF Comes
  <2>3. QED
    BY <1>9, <2>2, ComesInHand
<1>11. Knows(p)'
  <2>1. (Entry(p, "dp") = None)'
    BY <1>1, <1>2, <1>4, <1>7 DEF Entry, Inode, Knows
  <2>2. Makes(p)' /\ (\A k \in DOMAIN rest[p] : rest[p][k] # "..")'
    BY <1>1, <1>2, <1>4 DEF Makes, Knows
  <2>3. (has[p].dp # None => dinode[Inode(p, "dp")].type = "dir")'
    BY <1>1, <1>2, <1>6, <1>7 DEF Knows
  <2>4. QED
    BY <1>3, <1>4, <1>6, <2>1, <2>2, <2>3 DEF Knows
<1>12. QED
  BY <1>9, <1>10, <1>11, QuietStep

-----------------------------------------------------------------------------
(* iput() frees an inode, which has no name, and which nobody has open or  *)
(* for a current directory.                                                *)
FreesUnused ==
    \A i \in Inums :
      dinode[i].type # "free" /\ dinode'[i].type = "free" =>
          /\ NamesOf(i) = {}
          /\ \A s \in Cached(i), p \in Procs : s \notin {has[p].file, has[p].cwd}

LEMMA IputFreeNames ==
    ASSUME InodeInv, InodeInv', NamesInv, NEW p \in Procs, IputFree(p)
    PROVE  NamesInv' /\ FreesUnused
<1> DEFINE s == has[p].giving
<1>1. /\ pc[p] = "free" /\ pc' = [pc EXCEPT ![p] = "freed"]
      /\ dinode' = [dinode EXCEPT ![inum[s]] = Node("free", 0)]
      /\ dir' = [dir EXCEPT ![inum[s]] = NoEntries]
      /\ UNCHANGED <<inum, after, has, call, rest, marked>>
  BY DEF IputFree, At, Goto, Iupdate
<1>2. {"ip", "dp", "old", "giving", "cwd", "file"} \subseteq Registers /\ Locks(p, "giving")
  BY <1>1 DEF Registers, Locks
<1>3. PICK i : i = Inode(p, "giving")
  OBVIOUS
<1>4. i = inum[s] /\ i \in Inums /\ s \in Slots /\ ref[s] > 0
  BY <1>2, <1>3, LockedIsMine DEF Inode
<1>5. /\ dinode'[i] = Node("free", 0) /\ dir'[i] = NoEntries
      /\ \A j : j # i => dinode'[j] = dinode[j] /\ dir'[j] = dir[j]
  BY <1>1, <1>4, Shape
<1>6. pc'[p] = "freed" /\ Still(p) /\ Kept
  BY <1>1, Shape DEF Still, Kept
<1>7. /\ Going(p) /\ InIput(p) /\ InIput(p)' /\ ~Raw(p) /\ ~Raw(p)' /\ Place(p)' = Place(p)
      /\ Place(p) = after[p]
  BY <1>1, <1>6 DEF Going, InIput, PutPlaces, Raw, Place
<1>8. /\ Leaving(p) /\ InHand(p) /\ Knows(p) /\ Directories /\ RegistersOf(p)
  BY Shape DEF NamesInv
<1>9. dinode[i].nlink = 0 /\ \A q \in Procs : Raw(q) => Newborn(q) # i
  BY <1>1, <1>3, <1>7, <1>8 DEF Leaving
<1>10. NamesOf(i) = {}
  BY <1>3, <1>4, <1>7, Linked DEF Settled
<1>11. \A q \in Procs : \A r \in Registers : Inode(q, r)' = Inode(q, r)
  BY <1>1 DEF Inode
<1>12. \A q \in Procs \ {p} : Same(q)
  BY <1>6, OthersSame
<1>13. LinksCounted'
  <2>1. SUFFICES ASSUME NEW j \in Inums PROVE Links(j)' <= dinode'[j].nlink
    BY DEF LinksCounted
  <2>2. \A k \in Inums : NamesOf(k)' \subseteq NamesOf(k)
    <3>1. \A n \in Names : dir'[i][n] = None
      BY <1>5 DEF NoEntries, Entries
    <3>2. QED
      BY <1>5, <3>1, InodesAssumption DEF NamesOf
  <2>3. Inside(j)' \subseteq Inside(j)
    <3>1. dir'[i][".."] = None
      BY <1>5 DEF NoEntries, Entries
    <3>2. QED
      BY <1>5, <2>2, <3>1, InodesAssumption DEF Inside
  <2>4. Owing(j)' \subseteq Owing(j)
    <3>1. Owes(p, j)' => Owes(p, j)
      BY <1>1, <1>2, <1>7, <1>11 DEF Owes
    <3>2. QED
      BY <1>6, <3>1, OwingStep
  <2>5. Shift(j, 0, 0, 0)
    BY <2>2, <2>3, <2>4 DEF Shift, Within
  <2>6. dinode'[j].nlink = dinode[j].nlink /\ dinode[j].nlink \in Int
    <3>1. dinode[j].nlink \in Int
      BY Shape
    <3>2. CASE j = i
      BY <1>5, <1>9, <3>1, <3>2 DEF Node
    <3>3. CASE j # i
      BY <1>5, <3>1, <3>3
    <3>4. QED
      BY <3>2, <3>3
  <2>7. dinode[j].nlink + 0 + 0 + 0 <= dinode'[j].nlink
    BY <2>6
  <2>8. QED
    BY <2>5, <2>7, CountKept
<1>14. Directories'
  <2>1. SUFFICES ASSUME NEW j \in Inums
                 PROVE  /\ dinode'[j].type # "dir" => dir'[j] = NoEntries
                        /\ dinode'[j].type = "free" => dinode'[j].nlink = 0
                        /\ dinode'[j].type = "dir" /\ (\A q \in Procs : Raw(q)' => Newborn(q)' # j) =>
                             dir'[j]["."] = j /\ dir'[j][".."] # None
                        /\ dinode'[j].type = "dir" =>
                             \A e \in Inums, m \in Names : dir'[e][m] = j =>
                               dir'[j][".."] = e /\ e # j /\ \A l \in Names : dir'[e][l] = j => l = m
    BY DEF Directories, NoEntries
  <2>2. CASE j = i
    BY <1>5, <2>2 DEF Node
  <2>3. CASE j # i
    <3>1. ASSUME \A q \in Procs : Raw(q)' => Newborn(q)' # j
          PROVE  \A q \in Procs : Raw(q) => Newborn(q) # j
      BY <1>7, <1>12, <3>1, MiddleFacts DEF Same
    <3>2. \A e \in Inums, m \in Names : dir'[e][m] = j => dir'[e] = dir[e]
      BY <1>5, InodesAssumption DEF NoEntries, Entries
    <3>3. dinode'[j] = dinode[j] /\ dir'[j] = dir[j]
      BY <1>5, <2>3
    <3>4. dinode'[j].type = "dir" =>
            \A e \in Inums, m \in Names : dir'[e][m] = j =>
              dir'[j][".."] = e /\ e # j /\ \A l \in Names : dir'[e][l] = j => l = m
      BY <1>8, <3>2, <3>3 DEF Directories
    <3>5. QED
      BY <1>8, <3>1, <3>3, <3>4 DEF Directories
  <2>4. QED
    BY <2>2, <2>3
<1>15. ASSUME NEW j, Settled(j) PROVE Settled(j)' /\ j # i
  <2>1. j # i
    BY <1>3, <1>7, <1>15 DEF Settled
  <2>2. dinode'[j].type # "free"
    BY <1>5, <1>15, <2>1 DEF Settled
  <2>3. /\ \A q \in Procs \ {p} : Raw(q) => Newborn(q) # j
        /\ \A q \in Procs \ {p} : Going(q) => Inode(q, "giving") # j
    BY <1>15 DEF Settled
  <2>4. Inode(p, "giving")' # j
    BY <1>2, <1>3, <1>11, <2>1
  <2>5. QED
    BY <1>6, <1>7, <2>1, <2>2, <2>3, <2>4, SettledStays
<1>16. ASSUME NEW q \in Procs \ {p} PROVE Spares(p, q)
  <2>1. Leaving(q) /\ InHand(q)
    BY DEF NamesInv
  <2>2. Raw(q) => /\ dinode'[Newborn(q)] = dinode[Newborn(q)]
                  /\ dir'[Newborn(q)] = dir[Newborn(q)]
    BY <1>5, <1>9
  <2>3. Going(q) => dinode'[Inode(q, "giving")].nlink = 0
    BY <1>5, <2>1 DEF Leaving, Node
  <2>5. \A r \in {"dp", "old"} :
          has[q][r] # None => dinode'[Inode(q, r)].type = dinode[Inode(q, r)].type
    BY <1>5, <1>15, HandSettled
  <2>6. pc[q] \in {"marked", "new", "fill", "victim", "remove"} =>
          dir'[Inode(q, "dp")][Head(rest[q])] = dir[Inode(q, "dp")][Head(rest[q])]
    <3>1. pc[q] \in {"marked", "new", "fill", "victim", "remove"} => has[q].dp # None
      BY MiddleFacts DEF Raw
    <3>2. QED
      BY <1>5, <1>15, <3>1, HandSettled
  <2>7. \A j : Has(q, j) => Settled(j)'
    BY <1>15, <2>1 DEF Has, InHand
  <2>8. QED
    BY <1>7, <2>2, <2>3, <2>5, <2>6, <2>7 DEF Spares
<1>17. \A q \in Procs \ {p} : Fine(q)'
  BY <1>6, <1>16, OthersStay
<1>18. Fresh(p)'
  BY <1>7 DEF Fresh
<1>19. Leaving(p)'
  BY <1>2, <1>3, <1>5, <1>6, <1>11 DEF Leaving, Node
<1>20. InHand(p)'
  <2>1. SUFFICES ASSUME NEW r \in Registers, Steady(p, r)' PROVE Settled(Inode(p, r))'
    BY DEF InHand
  <2>2. Steady(p, r)
    BY <1>1, <1>6, <1>7, <2>1 DEF Steady
  <2>3. PICK j : j = Inode(p, r)
    OBVIOUS
  <2>4. Settled(j)' /\ j = Inode(p, r)'
    BY <1>8, <1>11, <1>15, <2>2, <2>3 DEF InHand
  <2>5. QED
    BY <2>4 DEF Settled
<1>21. Knows(p)'
  <2>1. (has[p].dp # None => dinode[Inode(p, "dp")].type = "dir")'
    BY <1>1, <1>2, <1>5, <1>8, <1>11, <1>15, HandSettled DEF Knows
  <2>2. (has[p].old # None => dinode[Inode(p, "old")].type = "file")'
    BY <1>1, <1>2, <1>5, <1>8, <1>11, <1>15, HandSettled DEF Knows
  <2>3. Makes(p)' <=> Makes(p)
    BY <1>1 DEF Makes
  <2>4. QED
    BY <1>1, <1>6, <1>7, <1>8, <2>1, <2>2, <2>3 DEF Knows
<1>22. FreesUnused
  <2>1. SUFFICES ASSUME NEW j \in Inums, dinode[j].type # "free", dinode'[j].type = "free"
                 PROVE  /\ NamesOf(j) = {}
                        /\ \A t \in Cached(j), q \in Procs : t \notin {has[q].file, has[q].cwd}
    BY DEF FreesUnused
  <2>2. j = i
    BY <1>5, <2>1
  <2>3. \A t \in Cached(i) : t = s
    BY <1>4 DEF Cached, InodeInv, OneEntry
  <2>4. ASSUME NEW q \in Procs, NEW r \in {"file", "cwd"}, has[q][r] = s PROVE FALSE
    <3>1. s # None /\ has[q][r] # None
      BY <1>4, <2>4, InodesAssumption
    <3>2. Settled(Inode(q, r))
      BY <3>1, HandSettled
    <3>3. Inode(q, r) = i
      BY <1>4, <2>4 DEF Inode
    <3>4. QED
      BY <1>3, <1>7, <3>2, <3>3 DEF Settled
  <2>5. QED
    BY <1>10, <2>2, <2>3, <2>4
<1>23. QED
  BY <1>13, <1>14, <1>17, <1>18, <1>19, <1>20, <1>21, <1>22 DEF NamesInv, Fine

-----------------------------------------------------------------------------
(* Every step: NamesInv stays, and nothing is freed that is in use.        *)
LEMMA NoneFreed == FreesNothing => FreesUnused
  BY DEF FreesNothing, FreesUnused

LEMMA UseNames ==
    ASSUME InodeInv, InodeInv', NamesInv, NEW p \in Procs, Use(p) \/ Made(p)
    PROVE  NamesInv' /\ FreesNothing
<1>1. pc[p] \in {"made", "use"} /\ UNCHANGED <<disk, icache, marked>>
  BY DEF Use, Made, At
<1>2. \/ OpenFile(p) /\ call[p].op \in {"open", "create"}
      \/ Chdir(p) /\ call[p].op = "chdir"
      \/ GiveUp(p)
  BY DEF Use, Made
<1>3. CASE GiveUp(p)
  BY <1>1, <1>3, GiveUpStep, GivesUpNames
<1>4. CASE OpenFile(p) /\ call[p].op \in {"open", "create"}
  BY <1>1, <1>4, OpenQuiet
<1>5. CASE Chdir(p) /\ call[p].op = "chdir"
  BY <1>1, <1>5, OpenQuiet
<1>6. QED
  BY <1>2, <1>3, <1>4, <1>5

LEMMA MakingNames ==
    ASSUME InodeInv, InodeInv', NamesInv, NEW p \in Procs, Making(p)
    PROVE  NamesInv' /\ FreesNothing
<1>1. CASE Mark(p)
  <2>1. CASE FreeInums = {}
    <3>1. UNCHANGED <<disk, icache, proc>>
      BY <1>1, <2>1 DEF Mark, Panic
    <3>2. QED
      BY <3>1, NothingNames
  <2>2. CASE FreeInums # {}
    BY <1>1, <2>2, MarkNames
  <2>3. QED
    BY <2>1, <2>2
<1>2. CASE Fill(p)
  BY <1>2, FillNames
<1>3. CASE Made(p)
  BY <1>3, UseNames
<1>4. CASE \E s \in Slots : CreateExists(p, s)
  BY <1>4, ExistsNames
<1>5. CASE \E s \in Slots : Create(p, s)
  BY <1>5, CreateNames
<1>6. QED
  BY <1>1, <1>2, <1>3, <1>4, <1>5 DEF Making

LEMMA LinkingNames ==
    ASSUME NoClimbing, InodeInv, InodeInv', NamesInv, NEW p \in Procs, Linking(p)
    PROVE  NamesInv' /\ FreesNothing
<1>1. CASE LinkOld(p)
  BY <1>1, LinkOldNames
<1>2. CASE LinkNew(p)
  BY <1>2, LinkNewNames
<1>3. CASE Link(p)
  BY <1>3, LinkNames
<1>4. CASE LinkEnds(p)
  BY <1>4, LinkEndsStep, GivesUpNames
<1>5. CASE LinkUndone(p)
  BY <1>5, LinkUndoneNames
<1>6. CASE \E s \in Slots : LinkExists(p, s)
  BY <1>6, ExistsNames
<1>7. QED
  BY <1>1, <1>2, <1>3, <1>4, <1>5, <1>6 DEF Linking

LEMMA UnlinkingNames ==
    ASSUME InodeInv, InodeInv', NamesInv, NEW p \in Procs, Unlinking(p)
    PROVE  NamesInv' /\ FreesNothing
<1>1. CASE UnlinkRefused(p)
  BY <1>1, UnlinkRefusedStep, GivesUpNames
<1>2. CASE RemoveFails(p) /\ core[has[p].ip].nlink < 1
  <2>1. UNCHANGED <<disk, icache, proc>>
    BY <1>2 DEF RemoveFails, Panic
  <2>2. QED
    BY <2>1, NothingNames
<1>3. CASE \/ RemoveFails(p) /\ ~(core[has[p].ip].nlink < 1)
           \/ NotEmpty(p)
  BY <1>3, RemoveFailsStep, GivesUpNames
<1>4. CASE Remove(p)
  BY <1>4, RemoveNames
<1>5. CASE Removed(p)
  BY <1>5, RemovedNames
<1>6. CASE \E s \in Slots : UnlinkFinds(p, s)
  BY <1>6, ExistsNames
<1>7. QED
  BY <1>1, <1>2, <1>3, <1>4, <1>5, <1>6 DEF Unlinking

LEMMA IputNames ==
    ASSUME InodeInv, InodeInv', NamesInv, NEW p \in Procs, Iput(p)
    PROVE  NamesInv' /\ FreesUnused
<1>1. CASE IputFree(p)
  BY <1>1, IputFreeNames
<1>2. CASE IputTest(p) /\ pc'[p] = "free"
  BY <1>2, IputLast, NoneFreed
<1>3. CASE ~IputFree(p) /\ ~(IputTest(p) /\ pc'[p] = "free")
  <2>1. IputTest(p) \/ IputRelease(p) \/ IputDrop(p)
    BY <1>3 DEF Iput
  <2>2. pc'[p] # "free"
    <3>1. CASE IputTest(p)
      BY <1>3, <3>1
    <3>2. CASE IputRelease(p)
      BY <3>2, Shape DEF IputRelease, Goto
    <3>3. CASE IputDrop(p)
      <4>1. pc[p] = "drop" /\ pc' = [pc EXCEPT ![p] = after[p]]
        BY <3>3 DEF IputDrop, At, Goto
      <4>2. RegistersOf(p) /\ Place(p) = after[p]
        BY <4>1, Shape DEF Place, InIput, PutPlaces
      <4>3. QED
        BY <4>1, <4>2, Shape DEF RegistersOf, PutPlaces
    <3>4. QED
      BY <2>1, <3>1, <3>2, <3>3
  <2>3. QED
    BY <2>1, <2>2, IputQuiet, NoneFreed
<1>4. QED
  BY <1>1, <1>2, <1>3

LEMMA NamesNext ==
    ASSUME NoClimbing, InodeInv, InodeInv', NamesInv, [Next]_vars
    PROVE  NamesInv' /\ FreesUnused
<1>1. CASE UNCHANGED vars
  <2>1. UNCHANGED <<disk, icache, proc>>
    BY <1>1 DEF vars
  <2>2. QED
    BY <2>1, NothingNames, NoneFreed
<1>2. ASSUME NEW p \in Procs,
             \/ SystemCall(p) \/ IgetPanics(p) \/ Ilock(p) \/ Iput(p)
             \/ Lookup(p) \/ Use(p) \/ Making(p) \/ Linking(p) \/ Unlinking(p)
      PROVE  NamesInv' /\ FreesUnused
  <2>1. CASE Iput(p)
    BY <2>1, IputNames
  <2>2. CASE SystemCall(p)
    BY <2>2, CallNames, NoneFreed
  <2>3. CASE Ilock(p)
    BY <2>3, IlockNames, NoneFreed
  <2>4. CASE Lookup(p)
    BY <2>4, LookupNames, NoneFreed
  <2>5. CASE Use(p)
    BY <2>5, UseNames, NoneFreed
  <2>6. CASE Making(p)
    BY <2>6, MakingNames, NoneFreed
  <2>7. CASE Linking(p)
    BY <2>7, LinkingNames, NoneFreed
  <2>8. CASE Unlinking(p)
    BY <2>8, UnlinkingNames, NoneFreed
  <2>9. CASE IgetPanics(p)
    <3>1. UNCHANGED <<disk, icache, proc>>
      BY <2>9 DEF IgetPanics, Panic
    <3>2. QED
      BY <3>1, NothingNames, NoneFreed
  <2>10. QED
    BY <1>2, <2>1, <2>2, <2>3, <2>4, <2>5, <2>6, <2>7, <2>8, <2>9
<1>3. QED
  BY <1>1, <1>2 DEF Next

(* At first only the root is there.                                        *)
LEMMA NamesInit ==
    ASSUME Init
    PROVE  NamesInv
<1>1. /\ dinode = [i \in Inums |-> IF i = ROOTINO THEN Node("dir", 1) ELSE Node("free", 0)]
      /\ dir = [i \in Inums |-> IF i = ROOTINO
                                THEN [NoEntries EXCEPT !["."] = ROOTINO, ![".."] = ROOTINO]
                                ELSE NoEntries]
      /\ pc = [p \in Procs |-> "user"] /\ rest = [p \in Procs |-> <<>>]
  BY DEF Init, Begin
<1>9. PICK root \in Slots :
        /\ has = [p \in Procs |-> [r \in Registers |-> IF r = "cwd" THEN root ELSE None]]
        /\ inum = [s \in Slots |-> IF s = root THEN ROOTINO ELSE None]
  BY DEF Init, Begin
<1>2. \A p \in Procs :
        /\ \A r \in Registers : has[p][r] # None => r = "cwd"
        /\ has[p].ip = None /\ has[p].dp = None /\ has[p].old = None
        /\ rest[p] = <<>> /\ Inode(p, "cwd") = ROOTINO
        /\ pc[p] = "user" /\ Place(p) = "user" /\ ~Raw(p) /\ ~Going(p) /\ ~InIput(p)
  BY <1>1, <1>9 DEF Registers, Place, InIput, PutPlaces, Raw, Going, Inode
<1>3. NoEntries \in [Entries -> {None}] /\ {".", ".."} \subseteq Entries
  BY DEF NoEntries, Entries
<1>4. /\ dir[ROOTINO]["."] = ROOTINO /\ dir[ROOTINO][".."] = ROOTINO
      /\ \A i \in Inums \ {ROOTINO} : dir[i] = NoEntries
      /\ \A e \in Inums, n \in Names : dir[e][n] = None
  <2>1. /\ dir[ROOTINO] = [NoEntries EXCEPT !["."] = ROOTINO, ![".."] = ROOTINO]
        /\ \A i \in Inums \ {ROOTINO} : dir[i] = NoEntries
    BY <1>1, InodesAssumption
  <2>2. \A n \in Names : n # "." /\ n # ".." /\ n \in Entries /\ NoEntries[n] = None
    BY InodesAssumption DEF NoEntries, Entries
  <2>3. dir[ROOTINO]["."] = ROOTINO /\ dir[ROOTINO][".."] = ROOTINO
    BY <1>3, <2>1
  <2>4. \A n \in Names : dir[ROOTINO][n] = None
    BY <1>3, <2>1, <2>2
  <2>5. QED
    BY <2>1, <2>2, <2>3, <2>4
<1>5. LinksCounted
  <2>1. SUFFICES ASSUME NEW i \in Inums PROVE Links(i) <= dinode[i].nlink
    BY DEF LinksCounted
  <2>2. \A j \in Inums : NamesOf(j) = {}
    BY <1>4, InodesAssumption DEF NamesOf
  <2>3. Inside(i) = {}
    BY <2>2 DEF Inside
  <2>4. Owing(i) = {}
    BY <1>2 DEF Owing, Owes
  <2>5. Cardinality({}) = 0
    BY FS_EmptySet
  <2>6. Links(i) = IF i = ROOTINO THEN 1 ELSE 0
    BY <2>2, <2>3, <2>4, <2>5 DEF Links
  <2>7. dinode[i].nlink = IF i = ROOTINO THEN 1 ELSE 0
    BY <1>1 DEF Node
  <2>8. QED
    BY <2>6, <2>7
<1>6. Directories
  <2>1. \A e \in Inums, n \in Names, i \in Inums : dir[e][n] # i
    BY <1>4, InodesAssumption
  <2>2. /\ dinode[ROOTINO] = Node("dir", 1) /\ ROOTINO # None
        /\ \A i \in Inums \ {ROOTINO} : dinode[i] = Node("free", 0)
    BY <1>1, InodesAssumption
  <2>3. QED
    BY <1>4, <2>1, <2>2 DEF Directories, Node
<1>10. Settled(ROOTINO)
  BY <1>1, <1>2, InodesAssumption DEF Settled, Node
<1>7. ASSUME NEW p \in Procs PROVE InHand(p) /\ Fresh(p) /\ Leaving(p) /\ Knows(p)
  <2>1. InHand(p)
    BY <1>2, <1>10 DEF InHand, Steady
  <2>2. \A k \in DOMAIN rest[p] : rest[p][k] # ".."
    BY <1>2
  <2>3. QED
    BY <1>2, <2>1, <2>2 DEF Fresh, Leaving, Knows
<1>8. QED
  BY <1>5, <1>6, <1>7 DEF NamesInv

(***************************************************************************)
(* THEOREM: for paths without "..", what each call is in the middle of and *)
(* every link count agree (sysfile.c: create, link, unlink; fs.c: iput).   *)
(* The ".." of a removed directory that somebody is still in may lead to   *)
(* an inode that was freed and that another create() has just marked: the  *)
(* iput() of who follows it then frees the inode under create(), before or *)
(* after ialloc()'s iget(), and it is allocated a second time.             *)
(***************************************************************************)
THEOREM NamesInvariant ==
    ASSUME NoClimbing PROVE Spec => []NamesInv
<1>1. Init => NamesInv
  BY NamesInit
<1>2. InodeInv /\ InodeInv' /\ NamesInv /\ [Next]_vars => NamesInv'
  BY NamesNext
<1>3. QED
  BY <1>1, <1>2, InodeInvariant, PTL DEF Spec

(***************************************************************************)
(* THEOREM: then no name leads to a free inode, and no count is below the  *)
(* links that there are: unlink() of one name does not take the inode from *)
(* under another (sysfile.c: link, unlink).                                *)
(***************************************************************************)
THEOREM NamesAreCovered ==
    ASSUME NoClimbing PROVE Spec => []NamesCovered
<1>1. InodeInv /\ NamesInv => NamesCovered
  <2>1. SUFFICES ASSUME InodeInv, NamesInv, NEW i \in Inums
                 PROVE  /\ NamesOf(i) # {} => dinode[i].type # "free"
                        /\ Cardinality(NamesOf(i)) + Cardinality(Inside(i)) <= dinode[i].nlink
    BY DEF NamesCovered
  <2>2. NamesOf(i) # {} => dinode[i].type # "free"
    BY <2>1, Linked DEF Settled
  <2>3. PICK n, d, o, r : /\ n = Cardinality(NamesOf(i)) /\ d = Cardinality(Inside(i))
                          /\ o = Cardinality(Owing(i)) /\ r = IF i = ROOTINO THEN 1 ELSE 0
    OBVIOUS
  <2>4. n \in Nat /\ d \in Nat /\ o \in Nat /\ r \in Nat
    BY <2>3, LinksFinite, FS_CardinalityType
  <2>5. n + d + o + r <= dinode[i].nlink
    BY <2>1, <2>3 DEF NamesInv, LinksCounted, Links
  <2>6. dinode[i].nlink \in Int
    BY <2>1, Shape
  <2>7. n + d <= dinode[i].nlink
    BY <2>4, <2>5, <2>6
  <2>8. QED
    BY <2>2, <2>3, <2>7
<1>2. QED
  BY <1>1, InodeInvariant, NamesInvariant, PTL

(***************************************************************************)
(* THEOREM: then an inode is freed only when it has no name and nobody has *)
(* it open or for a current directory (fs.c: iput, ialloc).                *)
(***************************************************************************)
THEOREM NoneFreedInUse ==
    ASSUME NoClimbing PROVE Spec => FreedUnused
<1>1. InodeInv /\ InodeInv' /\ NamesInv /\ [Next]_vars => [FreesUnused]_vars
  BY NamesNext
<1>2. Spec => [][FreesUnused]_vars
  BY <1>1, InodeInvariant, NamesInvariant, PTL DEF Spec
<1>3. QED
  BY <1>2 DEF FreedUnused, FreesUnused
================================================================================
