--------------------------- MODULE LineInputProofs ---------------------------
(***************************************************************************)
(* The safety invariants of LineInput, that it implements Terminal, and    *)
(* how far HelpfulConsole breaks them, proved for every set of readers,    *)
(* every ring size and every bound.                                        *)
(***************************************************************************)
EXTENDS HelpfulConsole, FiniteSetTheorems, SequenceTheorems, WellFoundedInduction, TLAPS

(* Two indices less than a ring apart do not share a slot.                 *)
LEMMA SlotsDiffer ==
    ASSUME NEW i \in Int, NEW j \in Int, i < j, j - i < N
    PROVE  i % N # j % N
<1>1. N \in Nat /\ N > 0
  BY NAssumption
<1> DEFINE qi == i \div N
           qj == j \div N
<1>2. i = N * qi + (i % N) /\ j = N * qj + (j % N) /\ qi \in Int /\ qj \in Int
  BY <1>1
<1>3. SUFFICES ASSUME i % N = j % N PROVE FALSE
  OBVIOUS
<1> DEFINE d == qj - qi
<1>4. d \in Int /\ j - i = N * d
  BY <1>1, <1>2, <1>3
<1>5. CASE d <= 0
  BY <1>1, <1>4, <1>5
<1>6. CASE d >= 1
  BY <1>1, <1>4, <1>6
<1>7. QED
  BY <1>4, <1>5, <1>6

(* The remainder of an index is a slot of the ring.                        *)
LEMMA SlotInRing == \A i \in Int : i % N \in 0 .. N - 1
  BY NAssumption

-----------------------------------------------------------------------------
(* Outside a rollback the read index is what input.r says.                 *)
LEMMA ReadIndex ==
    ASSUME LockInv, holder \notin Readers
    PROVE  R = r /\ \A p \in Readers : ~InCritical(p)
  BY DEF LockInv, InCritical, R, Passed

(* The empty ring with nobody in the kernel satisfies the invariant.       *)
LEMMA InitInv == Init => IInv
<1> SUFFICES ASSUME Init PROVE IInv
  OBVIOUS
<1>1. TypeOK
  BY NAssumption DEF Init, TypeOK, Places, Char
<1>2. \A p \in Readers : pc[p] = "idle"
  BY DEF Init
<1>3. R = 0 /\ r = 0 /\ w = 0 /\ e = 0
  BY <1>2 DEF Init, R, Passed
<1>4. LockInv
  BY <1>2, HolderAssumption DEF Init, LockInv, InCritical
<1>5. QED
  BY <1>1, <1>2, <1>3, <1>4, NAssumption
  DEF IInv, ReaderInv, RingFilled, IndexOrder, FullIsCommitted, PendingIsOpen,
      NoLostWakeup

(* A step of the handler that only takes or gives back the lock.           *)
LEMMA LockStep ==
    ASSUME IInv, IntrAcquire \/ IntrRelease
    PROVE  IInv'
<1>1. R' = R /\ UNCHANGED <<buf, r, w, e, pc, target, got, killed>>
  BY DEF IntrAcquire, IntrRelease, R, Passed, ring, readers
<1>2. TypeOK'
  BY <1>1 DEF IInv, TypeOK, IntrAcquire, IntrRelease
<1>3. LockInv'
  BY <1>1, HolderAssumption DEF IInv, LockInv, InCritical, IntrAcquire, IntrRelease
<1>4. QED
  BY <1>1, <1>2, <1>3
  DEF IInv, ReaderInv, RingFilled, IndexOrder, FullIsCommitted, PendingIsOpen,
      NoLostWakeup, Slot

(* The slot the new character lands in is none of those in use.            *)
LEMMA PutSlots ==
    ASSUME TypeOK, e - r < N, NEW c \in Char \cup {CR}, PutChar(c)
    PROVE  \A i \in r .. e : buf'[i % N] = IF i = e THEN Stored(c) ELSE buf[i % N]
<1> SUFFICES ASSUME NEW i \in r .. e
             PROVE  buf'[i % N] = IF i = e THEN Stored(c) ELSE buf[i % N]
  OBVIOUS
<1>1. i \in Int /\ e \in Int /\ e - i < N /\ i <= e
  BY NAssumption DEF TypeOK
<1>2. i % N \in 0 .. N - 1 /\ e % N \in 0 .. N - 1
  BY <1>1, SlotInRing
<1>3. CASE i = e
  BY <1>2, <1>3 DEF PutChar, TypeOK
<1>4. CASE i < e
  <2>1. i % N # e % N
    BY <1>1, <1>4, SlotsDiffer
  <2>2. QED
    BY <2>1, <1>2, <1>4 DEF PutChar, TypeOK
<1>5. QED
  BY <1>1, <1>3, <1>4

(* The default case of consoleintr: the new character lands in a slot that *)
(* holds nothing a reader still needs, and a line's end wakes the sleepers.*)
LEMMA PutCharStep ==
    ASSUME IInv, NEW c \in Char \cup {CR}, PutChar(c)
    PROVE  IInv'
<1> DEFINE ch == Stored(c)
<1>1. TypeOK /\ LockInv /\ ReaderInv /\ IndexOrder
      /\ FullIsCommitted /\ PendingIsOpen /\ RingFilled /\ NoLostWakeup
  BY DEF IInv
<1>2. R = r /\ \A p \in Readers : ~InCritical(p)
  BY <1>1, ReadIndex, HolderAssumption DEF PutChar
<1>3. \A p \in Readers : pc'[p] = pc[p] \/ (pc[p] = "asleep" /\ pc'[p] = "acquire")
  BY <1>1 DEF PutChar, Wakeup, TypeOK
<1>4. \A p \in Readers : ~InCritical(p)' /\ pc'[p] \notin {"load", "unread", "tosleep"}
  BY <1>2, <1>3 DEF InCritical
<1>5. R' = r /\ r' = r /\ e' = e + 1 /\ w' \in {w, e + 1} /\ e - r < N
  BY <1>4 DEF R, Passed, PutChar, Room
<1>6. r \in Nat /\ w \in Nat /\ e \in Nat /\ r <= w /\ w <= e
  BY <1>1, <1>2 DEF TypeOK, ReaderInv, IndexOrder
<1>7. ch \in Char
  BY DEF Stored, Char
<1>8. TypeOK'
  <2>1. buf' \in [0 .. N - 1 -> Char \cup {NUL}]
    BY <1>1, <1>7 DEF TypeOK, PutChar
  <2>2. pc' \in [Readers -> Places]
    BY <1>1 DEF TypeOK, PutChar, Wakeup, Places
  <2>3. QED
    BY <2>1, <2>2, <1>1, <1>5, <1>6 DEF TypeOK, PutChar
<1>9. LockInv'
  BY <1>4, HolderAssumption DEF LockInv, PutChar
<1>10. ReaderInv' /\ IndexOrder' /\ FullIsCommitted'
  BY <1>4, <1>5, <1>6, NAssumption
  DEF ReaderInv, IndexOrder, FullIsCommitted, PutChar, Ends
<1>11. \A i \in r .. e : buf'[i % N] = IF i = e THEN ch ELSE buf[i % N]
  BY <1>1, <1>5, <1>6, PutSlots
<1>12. PendingIsOpen'
  <2>1. CASE Ends(ch)
    BY <2>1, <1>5, <1>6 DEF PutChar, PendingIsOpen
  <2>2. CASE ~Ends(ch)
    <3>1. w' = w /\ e' = e + 1 /\ ch \notin {NL, EOT}
      BY <2>2 DEF PutChar, Ends
    <3>2. QED
      BY <3>1, <1>1, <1>6, <1>11 DEF PendingIsOpen, Slot
  <2>3. QED
    BY <2>1, <2>2
<1>13. RingFilled'
  BY <1>1, <1>2, <1>5, <1>6, <1>7, <1>11 DEF RingFilled, Slot
<1>14. NoLostWakeup'
  <2>1. CASE Ends(ch)
    BY <2>1, <1>1 DEF PutChar, Wakeup, NoLostWakeup, TypeOK
  <2>2. CASE ~Ends(ch)
    BY <2>2, <1>1, <1>2, <1>5 DEF PutChar, NoLostWakeup
  <2>3. QED
    BY <2>1, <2>2
<1>15. QED
  BY <1>8, <1>9, <1>10, <1>12, <1>13, <1>14 DEF IInv

(* Taking characters back: e moves down, no further than w.                *)
LEMMA EditStep ==
    ASSUME IInv, Backspace \/ KillLine
    PROVE  IInv'
<1>1. TypeOK /\ LockInv /\ ReaderInv /\ IndexOrder
      /\ FullIsCommitted /\ PendingIsOpen /\ RingFilled /\ NoLostWakeup
  BY DEF IInv
<1>2. R' = R /\ R = r /\ UNCHANGED <<buf, r, w, holder, pc, target, got, killed>>
  BY <1>1, ReadIndex, HolderAssumption DEF Backspace, KillLine, R, Passed, readers
<1>3. r \in Nat /\ w \in Nat /\ e \in Nat /\ r <= w /\ w <= e /\ e - r <= N
  BY <1>1, <1>2 DEF TypeOK, IndexOrder
<1>4. e' \in w .. e
  BY <1>3 DEF Backspace, KillLine
<1>5. TypeOK' /\ LockInv' /\ ReaderInv' /\ NoLostWakeup'
  BY <1>1, <1>2, <1>3, <1>4
  DEF TypeOK, LockInv, InCritical, ReaderInv, NoLostWakeup
<1>6. IndexOrder' /\ FullIsCommitted' /\ PendingIsOpen' /\ RingFilled'
  BY <1>1, <1>2, <1>3, <1>4, NAssumption
  DEF IndexOrder, FullIsCommitted, PendingIsOpen, RingFilled, Slot
<1>7. QED
  BY <1>5, <1>6 DEF IInv

-----------------------------------------------------------------------------
(* The readers.  While p holds the lock no other reader is in its critical *)
(* section, so the read index depends on p's place alone.                  *)
LEMMA OwnReadIndex ==
    ASSUME TypeOK, LockInv, NEW p \in Readers, holder = p
    PROVE  /\ R = IF pc[p] \in {"load", "unread"} THEN r - 1 ELSE r
           /\ \A q \in Readers \ {p} : ~InCritical(q)
  BY DEF LockInv, InCritical, R, Passed

(* A step of a reader outside its critical section: it enters the kernel,  *)
(* takes the lock, or is killed.                                           *)
LEMMA OutsideStep ==
    ASSUME IInv, NEW p \in Readers,
           \/ \E n \in 0 .. MaxRead : ReadCall(p, n)
           \/ ReadAcquire(p)
           \/ KillProc(p)
    PROVE  IInv'
<1>1. TypeOK /\ LockInv /\ ReaderInv /\ IndexOrder
      /\ FullIsCommitted /\ PendingIsOpen /\ RingFilled /\ NoLostWakeup
  BY DEF IInv
<1>2. /\ UNCHANGED <<buf, r, w, e>>
      /\ \A q \in Readers : /\ (pc'[q] \in {"load", "unread"}) <=> (pc[q] \in {"load", "unread"})
                            /\ (pc'[q] = "load") => (pc[q] = "load" /\ got'[q] = got[q] /\ target'[q] = target[q])
                            /\ (pc'[q] = "tosleep") <=> (pc[q] = "tosleep")
                            /\ pc'[q] = "asleep" => pc[q] = "asleep"
  BY <1>1 DEF ReadCall, ReadAcquire, KillProc, TypeOK, ring
<1>3. R' = R
  BY <1>2 DEF R, Passed
<1>4. TypeOK'
  <2>1. CASE KillProc(p)
    BY <2>1, <1>1 DEF TypeOK, KillProc, ring, Places
  <2>2. CASE ReadAcquire(p)
    BY <2>2, <1>1 DEF TypeOK, ReadAcquire, ring, Places
  <2>3. ASSUME NEW n \in 0 .. MaxRead, ReadCall(p, n) PROVE TypeOK'
    <3>1. n \in Nat
      BY BoundAssumption
    <3>2. QED
      BY <2>3, <3>1, <1>1 DEF TypeOK, ReadCall, ring, Places
  <2>4. QED
    BY <2>1, <2>2, <2>3
<1>5. LockInv'
  <2>1. CASE ReadAcquire(p)
    BY <2>1, <1>1, HolderAssumption DEF ReadAcquire, LockInv, InCritical, TypeOK
  <2>2. CASE KillProc(p) \/ \E n \in 0 .. MaxRead : ReadCall(p, n)
    BY <2>2, <1>1 DEF ReadCall, KillProc, LockInv, InCritical, TypeOK
  <2>3. QED
    BY <2>1, <2>2
<1>6. ReaderInv' /\ IndexOrder' /\ FullIsCommitted' /\ PendingIsOpen' /\ RingFilled'
      /\ NoLostWakeup'
  BY <1>1, <1>2, <1>3
  DEF ReaderInv, IndexOrder, FullIsCommitted, PendingIsOpen, RingFilled, NoLostWakeup,
      Slot
<1>7. QED
  BY <1>1, <1>4, <1>5, <1>6 DEF IInv

(* A step inside the critical section.                                     *)
LEMMA InsideStep ==
    ASSUME IInv, NEW p \in Readers, ReadStep(p)
    PROVE  IInv'
<1>1. TypeOK /\ LockInv /\ ReaderInv /\ IndexOrder
      /\ FullIsCommitted /\ PendingIsOpen /\ RingFilled /\ NoLostWakeup
  BY DEF IInv
<1>2. InCritical(p) /\ holder = p
  BY <1>1
  DEF ReadStep, ReadFull, ReadEmpty, ReadAdvance, ReadByte, ReadUnread, ReadSleep, ReadReturn,
      LockInv, InCritical
<1>3. \A q \in Readers \ {p} : ~InCritical(q) /\ pc'[q] = pc[q]
  BY <1>1, <1>2, OwnReadIndex
  DEF ReadStep, ReadFull, ReadEmpty, ReadAdvance, ReadByte, ReadUnread, ReadSleep, ReadReturn, TypeOK
<1>4. UNCHANGED <<buf, w, e>>
  BY DEF ReadStep, ReadFull, ReadEmpty, ReadAdvance, ReadByte, ReadUnread, ReadSleep, ReadReturn, ring
<1>5. R = IF pc[p] \in {"load", "unread"} THEN r - 1 ELSE r
  BY <1>1, <1>2, OwnReadIndex
<1>6. R' = IF pc'[p] \in {"load", "unread"} THEN r' - 1 ELSE r'
  BY <1>3 DEF R, Passed, InCritical
<1>7. r \in Nat /\ w \in Nat /\ e \in Nat /\ r <= w /\ w <= e /\ e - R <= N
  BY <1>1, <1>5 DEF TypeOK, ReaderInv, IndexOrder
<1>8. /\ r' \in Nat /\ r' <= w
      /\ R' = R \/ (R' = R + 1 /\ R < w)
      /\ R' >= 0 /\ R' <= w
  BY <1>1, <1>5, <1>6, <1>7
  DEF ReadStep, ReadFull, ReadEmpty, ReadAdvance, ReadByte, ReadUnread, ReadSleep, ReadReturn,
      ring, TypeOK, ReaderInv, IndexOrder
<1>9. TypeOK'
  <2>1. got' \in [Readers -> Seq(Char)]
    <3>1. CASE ReadByte(p) /\ Slot(r - 1) # EOT
      <4>1. Slot(r - 1) \in Char
        BY <3>1, <1>1, <1>5, <1>7 DEF RingFilled, ReadByte
      <4>2. got' = [got EXCEPT ![p] = Append(got[p], Slot(r - 1))]
        BY <3>1 DEF ReadByte
      <4>3. got \in [Readers -> Seq(Char)] /\ Append(got[p], Slot(r - 1)) \in Seq(Char)
        BY <4>1, <1>1 DEF TypeOK
      <4>4. QED
        BY <4>2, <4>3
    <3>2. CASE ~(ReadByte(p) /\ Slot(r - 1) # EOT)
      <4>1. got' = got \/ got' = [got EXCEPT ![p] = <<>>] \/ ReadEmpty(p)
        BY <3>2 DEF ReadStep, ReadFull, ReadAdvance, ReadByte, ReadUnread, ReadSleep, ReadReturn
      <4>2. <<>> \in Seq(Char) /\ got \in [Readers -> Seq(Char)]
        BY <1>1 DEF TypeOK
      <4>3. QED
        BY <4>1, <4>2 DEF ReadEmpty
    <3>3. QED
      BY <3>1, <3>2
  <2>2. pc' \in [Readers -> Places] /\ holder' \in Readers \cup {Intr, Nobody}
        /\ UNCHANGED <<target, killed>>
    BY <1>1
    DEF ReadStep, ReadFull, ReadEmpty, ReadAdvance, ReadByte, ReadUnread, ReadSleep, ReadReturn,
        TypeOK, Places
  <2>3. QED
    BY <2>1, <2>2, <1>1, <1>4, <1>8 DEF TypeOK
<1>10. LockInv'
  <2>1. InCritical(p)' <=> holder' = p
    BY <1>1, <1>2, HolderAssumption
    DEF ReadStep, ReadFull, ReadEmpty, ReadAdvance, ReadByte, ReadUnread, ReadSleep, ReadReturn,
        InCritical, TypeOK
  <2>2. ASSUME NEW q \in Readers \ {p} PROVE ~InCritical(q)' /\ holder' # q
    BY <1>2, <1>3, HolderAssumption
    DEF ReadStep, ReadFull, ReadEmpty, ReadAdvance, ReadByte, ReadUnread, ReadSleep, ReadReturn,
        InCritical
  <2>3. QED
    BY <2>1, <2>2 DEF LockInv
<1>11. ReaderInv'
  <2>1. pc'[p] = "tosleep" => r' = w'
    BY <1>1
    DEF ReadStep, ReadFull, ReadEmpty, ReadAdvance, ReadByte, ReadUnread, ReadSleep, ReadReturn,
        TypeOK, ring
  <2>2. \A q \in Readers \ {p} : pc'[q] # "tosleep"
    BY <1>3 DEF InCritical
  <2>3. pc'[p] = "load" => Len(got'[p]) < target'[p]
    BY <1>1
    DEF ReadStep, ReadFull, ReadEmpty, ReadAdvance, ReadByte, ReadUnread, ReadSleep, ReadReturn,
        TypeOK
  <2>4. \A q \in Readers \ {p} : pc'[q] # "load"
    BY <1>3 DEF InCritical
  <2>5. QED
    BY <2>1, <2>2, <2>3, <2>4, <1>4, <1>8 DEF ReaderInv
<1>12. IndexOrder' /\ FullIsCommitted'
  BY <1>1, <1>4, <1>5, <1>7, <1>8, NAssumption DEF IndexOrder, FullIsCommitted
<1>13. PendingIsOpen' /\ RingFilled'
  BY <1>1, <1>4, <1>5, <1>7, <1>8 DEF PendingIsOpen, RingFilled, Slot
<1>14. NoLostWakeup'
  <2>1. CASE pc[p] = "tosleep"
    BY <2>1, <1>1, <1>2, <1>3, <1>4, <1>5, <1>6
    DEF ReadStep, ReadFull, ReadEmpty, ReadAdvance, ReadByte, ReadUnread, ReadSleep, ReadReturn,
        ReaderInv, NoLostWakeup, TypeOK, InCritical, ring
  <2>2. CASE pc[p] # "tosleep"
    <3>1. pc'[p] # "asleep"
      BY <2>2, <1>1
      DEF ReadStep, ReadFull, ReadEmpty, ReadAdvance, ReadByte, ReadUnread, ReadSleep, ReadReturn,
          TypeOK
    <3>2. ASSUME NEW q \in Readers \ {p}, pc'[q] = "asleep" PROVE R' = w'
      BY <3>2, <1>1, <1>3, <1>4, <1>5, <1>8 DEF NoLostWakeup
    <3>3. QED
      BY <3>1, <3>2 DEF NoLostWakeup
  <2>3. QED
    BY <2>1, <2>2
<1>15. QED
  BY <1>9, <1>10, <1>11, <1>12, <1>13, <1>14 DEF IInv
-----------------------------------------------------------------------------
(* Every step of the handler and of the readers preserves the invariant.   *)
LEMMA StepInv == IInv /\ [Next]_vars => IInv'
<1> SUFFICES ASSUME IInv, [Next]_vars PROVE IInv'
  OBVIOUS
<1>1. CASE Handler
  BY <1>1, LockStep, PutCharStep, EditStep DEF Handler
<1>2. ASSUME NEW p \in Readers, Reader(p) PROVE IInv'
  BY <1>2, OutsideStep, InsideStep DEF Reader
<1>3. CASE UNCHANGED vars
  BY <1>3
  DEF vars, ring, readers, IInv, TypeOK, LockInv, ReaderInv, RingFilled, IndexOrder,
      FullIsCommitted, PendingIsOpen, NoLostWakeup, InCritical, R, Passed, Slot
<1>4. QED
  BY <1>1, <1>2, <1>3 DEF Next

(* The inductive invariant holds in every reachable state.                 *)
THEOREM InvariantHolds == Spec => []IInv
<1>1. QED
  BY InitInv, StepInv, PTL DEF Spec

(* Indices, slots, places and holders stay in their ranges.                *)
THEOREM TypeCorrect == Spec => []TypeOK
<1>1. IInv => TypeOK
  BY DEF IInv
<1>2. QED
  BY <1>1, InvariantHolds, PTL

(* The typist never laps the readers and a full ring is always readable.   *)
THEOREM RingSafe == Spec => [](IndexOrder /\ FullIsCommitted)
<1>1. IInv => IndexOrder /\ FullIsCommitted
  BY DEF IInv
<1>2. QED
  BY <1>1, InvariantHolds, PTL

(* Nothing that ends a line is left uncommitted.                           *)
THEOREM LinesCommitted == Spec => []PendingIsOpen
<1>1. IInv => PendingIsOpen
  BY DEF IInv
<1>2. QED
  BY <1>1, InvariantHolds, PTL

(* No reader sleeps while there is committed input.                        *)
THEOREM WakeupsArrive == Spec => []NoLostWakeup
<1>1. IInv => NoLostWakeup
  BY DEF IInv
<1>2. QED
  BY <1>1, InvariantHolds, PTL

(* A commit is never undone, and no committed character changes before it  *)
(* is read: not by Backspace, not by C('U'), not by the reuse of slots.    *)
THEOREM CommittedStays == Spec => CommittedIsStable
<1> DEFINE Stable == /\ w' >= w
                     /\ \A i \in R .. w - 1 : i >= R' => buf'[i % N] = buf[i % N]
<1>1. ASSUME IInv, [Next]_vars PROVE [Stable]_vars
  <2>1. /\ TypeOK /\ LockInv /\ ReaderInv /\ IndexOrder
        /\ r \in Nat /\ w \in Nat /\ e \in Nat
    BY <1>1 DEF IInv, TypeOK
  <2>2. ASSUME NEW c \in Char \cup {CR}, PutChar(c) PROVE Stable
    <3>1. R = r /\ r <= w /\ w <= e /\ e - r < N
      BY <2>1, <2>2, ReadIndex, HolderAssumption DEF PutChar, IndexOrder, Room
    <3>2. w' >= w
      BY <2>1, <2>2, <3>1 DEF PutChar
    <3>3. ASSUME NEW i \in R .. w - 1 PROVE buf'[i % N] = buf[i % N]
      <4>1. i \in Int /\ e \in Int /\ i < e /\ e - i < N
        BY <2>1, <3>1, NAssumption
      <4>2. i % N # e % N /\ i % N \in 0 .. N - 1
        BY <4>1, SlotsDiffer, SlotInRing
      <4>3. QED
        BY <2>1, <2>2, <4>2 DEF PutChar, TypeOK
    <3>4. QED
      BY <3>2, <3>3
  <2>3. CASE UNCHANGED <<buf, w>>
    BY <2>1, <2>3
  <2>4. CASE Handler
    BY <2>2, <2>3, <2>4 DEF Handler, IntrAcquire, IntrRelease, Backspace, KillLine, ring
  <2>5. ASSUME NEW p \in Readers, Reader(p) PROVE UNCHANGED <<buf, w>>
    BY <2>5
    DEF Reader, ReadCall, ReadAcquire, KillProc, ReadStep, ReadFull, ReadEmpty, ReadAdvance, ReadByte,
        ReadUnread, ReadSleep, ReadReturn, ring
  <2>6. QED
    BY <1>1, <2>3, <2>4, <2>5 DEF Next
<1>2. QED
  BY <1>1, InvariantHolds, PTL DEF Spec, CommittedIsStable

-----------------------------------------------------------------------------
(* The refinement of Terminal.  A stretch of the ring as a sequence.       *)
LEMMA StretchIs ==
    ASSUME TypeOK, NEW i \in Nat, NEW n \in Nat
    PROVE  /\ Stretch(i, n) \in Seq(Char \cup {NUL}) /\ Len(Stretch(i, n)) = n
           /\ DOMAIN Stretch(i, n) = 1 .. n
           /\ \A k \in 1 .. n : Stretch(i, n)[k] = Slot(i + k - 1)
<1>1. \A k \in 1 .. n : Slot(i + k - 1) \in Char \cup {NUL}
  BY SlotInRing DEF Slot, TypeOK
<1>2. Stretch(i, n) \in [1 .. n -> Char \cup {NUL}]
  BY <1>1 DEF Stretch
<1>3. Stretch(i, n) \in Seq(Char \cup {NUL})
  BY <1>2, SeqDef
<1>4. Len(Stretch(i, n)) = n
  BY <1>2, <1>3, LenProperties
<1>5. QED
  BY <1>2, <1>3, <1>4 DEF Stretch

(* Two stretches that follow one another are one.                          *)
LEMMA StretchJoins ==
    ASSUME TypeOK, NEW i \in Nat, NEW n \in Nat, NEW m \in Nat
    PROVE  Stretch(i, n) \o Stretch(i + n, m) = Stretch(i, n + m)
<1> DEFINE s == Stretch(i, n)  t == Stretch(i + n, m)  u == Stretch(i, n + m)
<1>1. /\ i + n \in Nat /\ n + m \in Nat
      /\ s \in Seq(Char \cup {NUL}) /\ Len(s) = n /\ \A k \in 1 .. n : s[k] = Slot(i + k - 1)
      /\ u \in Seq(Char \cup {NUL}) /\ Len(u) = n + m /\ \A k \in 1 .. n + m : u[k] = Slot(i + k - 1)
  BY StretchIs
<1>2. t \in Seq(Char \cup {NUL}) /\ Len(t) = m /\ \A k \in 1 .. m : t[k] = Slot(i + n + k - 1)
  BY <1>1, StretchIs
<1> HIDE DEF s, t, u
<1>3. /\ s \o t \in Seq(Char \cup {NUL}) /\ Len(s \o t) = n + m
      /\ \A k \in 1 .. n + m : (s \o t)[k] = IF k <= n THEN s[k] ELSE t[k - n]
  BY <1>1, <1>2, ConcatProperties
<1>4. ASSUME NEW k \in 1 .. n + m PROVE (s \o t)[k] = u[k]
  <2>1. CASE k <= n
    BY <1>1, <1>3, <2>1
  <2>2. CASE k > n
    <3>1. k - n \in 1 .. m /\ i + n + (k - n) - 1 = i + k - 1
      BY <2>2
    <3>2. (s \o t)[k] = t[k - n] /\ t[k - n] = Slot(i + n + (k - n) - 1)
      BY <1>2, <1>3, <2>2, <3>1
    <3>3. QED
      BY <1>1, <3>1, <3>2
  <2>3. k <= n \/ k > n
    BY <1>1
  <2>4. QED
    BY <2>1, <2>2, <2>3
<1>5. s \o t = u
  BY <1>1, <1>3, <1>4, SeqEqual
<1>6. QED
  BY <1>5 DEF s, t, u

(* Its head and tail, and its beginning.                                   *)
LEMMA StretchCut ==
    ASSUME TypeOK, NEW i \in Nat, NEW n \in Nat, n > 0
    PROVE  /\ Stretch(i, n) # <<>> /\ Head(Stretch(i, n)) = Slot(i)
           /\ Tail(Stretch(i, n)) = Stretch(i + 1, n - 1)
<1> DEFINE s == Stretch(i, n)  t == Stretch(i + 1, n - 1)
<1>1. /\ i + 1 \in Nat /\ n - 1 \in Nat /\ 1 \in 1 .. n
      /\ s \in Seq(Char \cup {NUL}) /\ Len(s) = n /\ \A k \in 1 .. n : s[k] = Slot(i + k - 1)
  BY StretchIs
<1>2. t \in Seq(Char \cup {NUL}) /\ Len(t) = n - 1 /\ \A k \in 1 .. n - 1 : t[k] = Slot(i + 1 + k - 1)
  BY <1>1, StretchIs
<1> HIDE DEF s, t
<1>3. s # <<>>
  BY <1>1, EmptySeq
<1>4. Head(s) = Slot(i)
  <2>1. Head(s) = s[1] /\ i + 1 - 1 = i
    BY <1>1, <1>3
  <2>2. s[1] = Slot(i + 1 - 1)
    BY <1>1
  <2>3. QED
    BY <2>1, <2>2 DEF Slot
<1>5. /\ Tail(s) \in Seq(Char \cup {NUL}) /\ Len(Tail(s)) = n - 1
      /\ \A k \in 1 .. n - 1 : Tail(s)[k] = s[k + 1]
  BY <1>1, <1>3, HeadTailProperties
<1>6. ASSUME NEW k \in 1 .. n - 1 PROVE Tail(s)[k] = t[k]
  <2>1. k + 1 \in 1 .. n /\ i + (k + 1) - 1 = i + 1 + k - 1
    BY <1>1
  <2>2. QED
    BY <1>1, <1>2, <1>5, <2>1
<1>7. Tail(s) = t
  BY <1>2, <1>5, <1>6, SeqEqual
<1>8. QED
  BY <1>3, <1>4, <1>7 DEF s, t

(* A stretch cut short.                                                    *)
LEMMA StretchStart ==
    ASSUME TypeOK, NEW i \in Nat, NEW n \in Nat, NEW m \in 0 .. n
    PROVE  SubSeq(Stretch(i, n), 1, m) = Stretch(i, m)
<1> DEFINE s == Stretch(i, n)  t == Stretch(i, m)
<1>1. /\ m \in Nat /\ \A k \in 1 .. m : k \in 1 .. n
      /\ s \in Seq(Char \cup {NUL}) /\ Len(s) = n /\ \A k \in 1 .. n : s[k] = Slot(i + k - 1)
      /\ t \in Seq(Char \cup {NUL}) /\ Len(t) = m /\ \A k \in 1 .. m : t[k] = Slot(i + k - 1)
  BY StretchIs
<1> HIDE DEF s, t
<1>2. /\ SubSeq(s, 1, m) \in Seq(Char \cup {NUL}) /\ Len(SubSeq(s, 1, m)) = m
      /\ \A k \in 1 .. m : SubSeq(s, 1, m)[k] = s[k]
  <2>1. \A k \in 1 .. m : s[k] \in Char \cup {NUL}
    BY <1>1, ElementOfSeq
  <2>2. /\ SubSeq(s, 1, m) \in Seq(Char \cup {NUL})
        /\ Len(SubSeq(s, 1, m)) = IF 1 <= m THEN m - 1 + 1 ELSE 0
        /\ \A k \in 1 .. m - 1 + 1 : SubSeq(s, 1, m)[k] = s[1 + k - 1]
    BY <1>1, <2>1, SubSeqProperties
  <2>3. QED
    BY <1>1, <2>2
<1>3. SubSeq(s, 1, m) = t
  BY <1>1, <1>2, SeqEqual
<1>4. QED
  BY <1>3 DEF s, t

(* The numbers of the ring.                                                *)
LEMMA StreamFacts ==
    ASSUME IInv
    PROVE  /\ TypeOK /\ LockInv /\ r \in Nat /\ w \in Nat /\ e \in Nat /\ R \in Nat
           /\ R <= w /\ w <= e /\ e - R <= N /\ w - R \in Nat /\ e - w \in Nat
           /\ Ready \in Seq(Char \cup {NUL}) /\ Len(Ready) = w - R
           /\ Line \in Seq(Char \cup {NUL}) /\ Len(Line) = e - w
<1>1. TypeOK /\ LockInv /\ r \in Nat /\ w \in Nat /\ e \in Nat /\ R <= w /\ w <= e /\ e - R <= N /\ R >= 0
  BY DEF IInv, TypeOK, IndexOrder, ReaderInv
<1>2. R \in Nat
  BY <1>1 DEF R, Passed
<1>3. w - R \in Nat /\ e - w \in Nat
  BY <1>1, <1>2
<1>4. QED
  BY <1>1, <1>2, <1>3, StretchIs DEF Ready, Line

(* Steps that leave the characters where they are.                         *)
LEMMA StreamSame ==
    ASSUME UNCHANGED <<buf, w, e>>, R' = R PROVE Ready' = Ready /\ Line' = Line
BY DEF Ready, Line, Stretch, Slot

(* A character at the end of a stretch that ends where the typist is.      *)
LEMMA StretchGrows ==
    ASSUME IInv, NEW c \in Char \cup {CR}, PutChar(c), NEW i \in r .. e, R = r
    PROVE  /\ \A n \in 0 .. e - i : [k \in 1 .. n |-> buf'[(i + k - 1) % N]] = Stretch(i, n)
           /\ [k \in 1 .. e + 1 - i |-> buf'[(i + k - 1) % N]] = Append(Stretch(i, e - i), Stored(c))
<1>1. TypeOK /\ r \in Nat /\ e \in Nat /\ e - r < N /\ i \in Nat /\ e - i \in Nat
  BY StreamFacts DEF PutChar, Room
<1>2. \A j \in r .. e : buf'[j % N] = IF j = e THEN Stored(c) ELSE buf[j % N]
  BY <1>1, PutSlots
<1>3. \A k \in 1 .. e - i : buf'[(i + k - 1) % N] = Slot(i + k - 1)
  <2>1. \A k \in 1 .. e - i : i + k - 1 \in r .. e /\ i + k - 1 # e
    BY <1>1
  <2>2. QED
    BY <1>2, <2>1 DEF Slot
<1>4. ASSUME NEW n \in 0 .. e - i PROVE [k \in 1 .. n |-> buf'[(i + k - 1) % N]] = Stretch(i, n)
  <2>1. \A k \in 1 .. n : k \in 1 .. e - i
    BY <1>1
  <2>2. QED
    BY <1>3, <2>1 DEF Stretch
<1>5. buf'[e % N] = Stored(c)
  BY <1>1, <1>2
<1> DEFINE s == Stretch(i, e - i)  n == e - i
<1>6. s \in Seq(Char \cup {NUL}) /\ Len(s) = n /\ \A k \in 1 .. n : s[k] = Slot(i + k - 1)
  BY <1>1, StretchIs
<1>7. n \in Nat /\ i + (n + 1) - 1 = e /\ e + 1 - i = n + 1
  BY <1>1
<1>8. \A k \in 1 .. n + 1 : buf'[(i + k - 1) % N] = IF k = n + 1 THEN Stored(c) ELSE s[k]
  <2>1. \A k \in 1 .. n : buf'[(i + k - 1) % N] = s[k]
    BY <1>3, <1>6
  <2>2. buf'[(i + (n + 1) - 1) % N] = Stored(c)
    BY <1>5, <1>7
  <2> HIDE DEF s, n
  <2>3. \A k \in 1 .. n + 1 : k = n + 1 \/ k \in 1 .. n
    BY <1>7
  <2>4. QED
    BY <2>1, <2>2, <2>3
<1> DEFINE t == [k \in 1 .. n + 1 |-> IF k = n + 1 THEN Stored(c) ELSE s[k]]
<1>9. Append(s, Stored(c)) = t
  <2>1. Stored(c) \in Char \cup {NUL} /\ \A k \in 1 .. n : s[k] \in Char \cup {NUL}
    BY <1>6, ElementOfSeq DEF Stored, Char
  <2> HIDE DEF s, n
  <2>2. t \in [1 .. n + 1 -> Char \cup {NUL}]
    <3>1. \A k \in 1 .. n + 1 : k = n + 1 \/ k \in 1 .. n
      BY <1>7
    <3>2. QED
      BY <2>1, <3>1
  <2>3. t \in Seq(Char \cup {NUL}) /\ Len(t) = n + 1
    BY <2>2, <1>7, SeqDef, LenProperties
  <2>4. /\ Append(s, Stored(c)) \in Seq(Char \cup {NUL})
        /\ Len(Append(s, Stored(c))) = n + 1
        /\ \A k \in 1 .. n : Append(s, Stored(c))[k] = s[k]
        /\ Append(s, Stored(c))[n + 1] = Stored(c)
    BY <1>6, <2>1, AppendProperties
  <2>5. \A k \in 1 .. n + 1 : Append(s, Stored(c))[k] = t[k]
    <3>1. \A k \in 1 .. n + 1 : k = n + 1 \/ (k \in 1 .. n /\ k # n + 1)
      BY <1>7
    <3>2. QED
      BY <2>4, <3>1
  <2>6. QED
    BY <2>3, <2>4, <2>5, SeqEqual
<1>10. [k \in 1 .. e + 1 - i |-> buf'[(i + k - 1) % N]] = Append(s, Stored(c))
  <2> HIDE DEF s, n
  <2>1. QED
    BY <1>7, <1>8, <1>9
<1>11. QED
  BY <1>4, <1>10

(* What Terminal sees of a step in the places of the readers.              *)
LEMMA PhaseMoves ==
    ASSUME TypeOK, NEW p \in Readers, NEW ph,
           Phase'[p] = ph, \A q \in Readers \ {p} : pc'[q] = pc[q]
    PROVE  Phase' = [Phase EXCEPT ![p] = ph]
  BY DEF Phase

(* Wake-ups, and a reader's way to the lock and to sleep, are not seen.    *)
LEMMA PhaseSame ==
    ASSUME TypeOK,
           \A q \in Readers :
             \/ pc'[q] = pc[q]
             \/ {pc[q], pc'[q]} \subseteq {"acquire", "test", "load", "tosleep", "asleep"}
             \/ {pc[q], pc'[q]} \subseteq {"unread", "release"}
    PROVE  Phase' = Phase
<1>1. \A q \in Readers : Phase'[q] = Phase[q]
  BY DEF Phase
<1>2. QED
  BY <1>1 DEF Phase

(* Storing a character types it; if it ends a line, all of it is ready.    *)
LEMMA TypesCharacter ==
    ASSUME IInv, NEW c \in Char \cup {CR}, PutChar(c)
    PROVE  Promised!Next
<1> DEFINE ch == Stored(c)
           After(i, n) == [k \in 1 .. n |-> buf'[(i + k - 1) % N]]
<1>1. /\ TypeOK /\ r \in Nat /\ w \in Nat /\ e \in Nat
      /\ R <= w /\ w <= e /\ w - R \in Nat /\ e - w \in Nat
      /\ Ready \in Seq(Char \cup {NUL}) /\ Len(Ready) = w - R
      /\ Line \in Seq(Char \cup {NUL}) /\ Len(Line) = e - w
  BY StreamFacts
<1>2. R = r /\ \A p \in Readers : ~InCritical(p)
  BY StreamFacts, ReadIndex, HolderAssumption DEF PutChar
<1>3. \A p \in Readers : pc'[p] = pc[p] \/ (pc[p] = "asleep" /\ pc'[p] = "acquire")
  BY <1>1 DEF PutChar, Wakeup, TypeOK
<1>4. R' = r /\ r' = r /\ e' = e + 1 /\ e - r < N
  BY <1>2, <1>3 DEF R, Passed, PutChar, Room, InCritical
<1>5. ch \in Char
  BY DEF Stored, Char
<1>6. /\ \A n \in 0 .. e - r : After(r, n) = Stretch(r, n)
      /\ After(r, e + 1 - r) = Append(Stretch(r, e - r), ch)
      /\ After(w, e + 1 - w) = Append(Stretch(w, e - w), ch)
  <2>1. r \in r .. e /\ w \in r .. e
    BY <1>1, <1>2
  <2>2. QED
    BY <1>2, <2>1, StretchGrows
<1>7. Append(Line, ch) = Line \o <<ch>> /\ Append(Stretch(r, e - r), ch) = Stretch(r, e - r) \o <<ch>>
  <2>1. e - r \in Nat /\ ch \in Char \cup {NUL}
    BY <1>1, <1>2, <1>5
  <2>2. QED
    BY <2>1, <1>1, StretchIs, AppendIsConcat
<1>8. Len(Append(Line, ch)) = e + 1 - w
  BY <1>1, <1>5, AppendProperties
<1>9. /\ \A i, j : R' = i /\ w' = j => Ready' = After(i, j - i)
      /\ \A i, j : w' = i /\ e' = j => Line' = After(i, j - i)
  BY DEF Ready, Line, Stretch, Slot
<1> HIDE DEF After
<1>10. CASE Ends(ch)
  <2>1. w' = e + 1
    BY <1>10 DEF PutChar
  <2>2. Line' = <<>>
    <3>1. e' - w' = 0 /\ 1 .. 0 = {}
      BY <1>1, <1>4, <2>1
    <3>2. QED
      BY <3>1 DEF Line, Stretch
  <2>3. Ready' = Append(Stretch(r, e - r), ch)
    <3>1. R' = r /\ w' = e + 1 /\ r \in Int /\ e \in Int
      BY <1>1, <1>4, <2>1
    <3>2. Ready' = After(r, e + 1 - r)
      BY <3>1, <1>9
    <3>3. QED
      BY <1>6, <3>2
  <2>4. Stretch(r, e - r) = Ready \o Line
    <3>1. r + (w - r) = w /\ (w - r) + (e - w) = e - r /\ w - r \in Nat
      BY <1>1, <1>2
    <3>2. Stretch(r, w - r) \o Stretch(r + (w - r), e - w) = Stretch(r, (w - r) + (e - w))
      BY <1>1, <3>1, StretchJoins
    <3>3. QED
      BY <1>2, <3>1, <3>2 DEF Ready, Line
  <2>5. Ready' = Ready \o Append(Line, ch)
    <3>1. <<ch>> \in Seq(Char \cup {NUL})
      BY <1>5
    <3>2. (Ready \o Line) \o <<ch>> = Ready \o (Line \o <<ch>>)
      BY <1>1, <3>1, ConcatAssociative
    <3>3. QED
      BY <1>7, <2>3, <2>4, <3>2
  <2>6. ch \in {NL, EOT} \/ Len(Ready) + Len(Append(Line, ch)) = N
    BY <1>1, <1>2, <1>8, <1>10, NAssumption DEF Ends
  <2>7. UNCHANGED <<Phase, target, got>>
    BY <1>1, <1>3, PhaseSame DEF PutChar
  <2>8. Promised!Type(ch)
    BY <1>1, <1>2, <1>4, <2>2, <2>5, <2>6, <2>7, NAssumption DEF Promised!Type
  <2>9. QED
    BY <1>5, <2>8 DEF Promised!Next, Promised!Char, Char
<1>11. CASE ~Ends(ch)
  <2>1. w' = w
    BY <1>11 DEF PutChar
  <2>2. Line' = Append(Line, ch)
    <3>1. e' = e + 1 /\ w \in Int /\ e \in Int
      BY <1>1, <1>4
    <3>2. Line' = After(w, e + 1 - w)
      BY <2>1, <3>1, <1>9
    <3>3. QED
      BY <1>6, <3>2 DEF Line
  <2>3. Ready' = Ready
    <3>1. w - r \in 0 .. e - r
      BY <1>1, <1>2
    <3>2. QED
      BY <1>2, <1>4, <1>6, <1>9, <2>1, <3>1 DEF Ready
  <2>4. ~(ch \in {NL, EOT} \/ Len(Ready) + Len(Append(Line, ch)) = N)
    BY <1>1, <1>2, <1>8, <1>11, NAssumption DEF Ends
  <2>5. UNCHANGED <<Phase, target, got>>
    BY <1>1, <1>3, PhaseSame DEF PutChar
  <2>6. Promised!Type(ch)
    BY <1>1, <1>2, <1>4, <2>2, <2>3, <2>4, <2>5, NAssumption DEF Promised!Type
  <2>7. QED
    BY <1>5, <2>6 DEF Promised!Next, Promised!Char, Char
<1>12. QED
  BY <1>10, <1>11

(* Backspace and C('U') shorten the line.                                  *)
LEMMA EditsLine ==
    ASSUME IInv, Backspace \/ KillLine
    PROVE  Promised!Next \/ UNCHANGED Promised!vars
<1>1. /\ TypeOK /\ w \in Nat /\ e \in Nat /\ w <= e /\ e - w \in Nat
      /\ Line \in Seq(Char \cup {NUL}) /\ Len(Line) = e - w
  BY StreamFacts
<1>2. R' = R /\ UNCHANGED <<buf, r, w, pc, target, got>>
  BY DEF Backspace, KillLine, R, Passed, readers
<1>3. Ready' = Ready /\ Phase' = Phase
  BY <1>2 DEF Ready, Stretch, Slot, Phase
<1>4. PICK k \in w .. e : e' = k
  BY <1>1 DEF Backspace, KillLine
<1>5. w \in Int /\ e \in Int /\ k - w \in 0 .. e - w
  BY <1>1
<1>6. Line' = SubSeq(Line, 1, k - w)
  <2>1. Line' = Stretch(w, k - w)
    BY <1>2, <1>4 DEF Line, Stretch, Slot
  <2>2. QED
    BY <1>1, <1>5, <2>1, StretchStart DEF Line
<1>7. CASE k = e
  BY <1>2, <1>3, <1>4, <1>7, StreamSame DEF Promised!vars
<1>8. CASE k # e
  <2>1. k - w \in 0 .. Len(Line) - 1
    BY <1>1, <1>5, <1>8
  <2>2. Promised!Edit
    BY <1>2, <1>3, <1>6, <2>1 DEF Promised!Edit
  <2>3. QED
    BY <2>2 DEF Promised!Next
<1>9. QED
  BY <1>7, <1>8

(* A reader asks, takes the lock or is killed: only the asking is seen.    *)
LEMMA AsksOrWaits ==
    ASSUME IInv, NEW p \in Readers,
           \/ \E n \in 0 .. MaxRead : ReadCall(p, n)
           \/ ReadAcquire(p)
           \/ KillProc(p)
    PROVE  Promised!Next \/ UNCHANGED Promised!vars
<1>1. TypeOK
  BY DEF IInv
<1>2. /\ UNCHANGED <<buf, r, w, e>>
      /\ \A q \in Readers : (pc'[q] \in {"load", "unread"}) <=> (pc[q] \in {"load", "unread"})
  BY <1>1 DEF ReadCall, ReadAcquire, KillProc, TypeOK, ring
<1>3. Ready' = Ready /\ Line' = Line
  BY <1>2, StreamSame DEF R, Passed
<1>4. ASSUME NEW n \in 0 .. MaxRead, ReadCall(p, n) PROVE Promised!Next
  <2>1. pc'[p] = "acquire" /\ \A q \in Readers \ {p} : pc'[q] = pc[q]
    BY <1>1, <1>4 DEF ReadCall, TypeOK
  <2>2. Phase'[p] = "reading" /\ Phase[p] = "idle"
    BY <1>4, <2>1 DEF Phase, ReadCall
  <2>3. Phase' = [Phase EXCEPT ![p] = "reading"]
    BY <1>1, <2>1, <2>2, PhaseMoves
  <2>4. Promised!Ask(p, n)
    BY <1>3, <1>4, <2>2, <2>3 DEF Promised!Ask, ReadCall
  <2>5. QED
    BY <2>4 DEF Promised!Next
<1>5. CASE ReadAcquire(p) \/ KillProc(p)
  <2>1. \A q \in Readers : \/ pc'[q] = pc[q]
                           \/ {pc[q], pc'[q]} \subseteq {"acquire", "test", "load", "tosleep", "asleep"}
    BY <1>1, <1>5 DEF ReadAcquire, KillProc, TypeOK
  <2>2. Phase' = Phase
    BY <1>1, <2>1, PhaseSame
  <2>3. QED
    BY <1>3, <1>5, <2>2 DEF Promised!vars, ReadAcquire, KillProc
<1>6. QED
  BY <1>4, <1>5

(* The reader takes what is first in the stream; a ^D that it has to give  *)
(* back stays there.                                                       *)
LEMMA TakesFirst ==
    ASSUME IInv, NEW p \in Readers, ReadByte(p)
    PROVE  Promised!Next
<1>1. /\ TypeOK /\ LockInv /\ r \in Nat /\ w \in Nat /\ e \in Nat /\ w - R \in Nat
      /\ Len(Ready) = w - R
  BY StreamFacts
<1>2. pc[p] = "load" /\ holder = p
  BY <1>1 DEF ReadByte, LockInv, InCritical
<1>3. R = r - 1 /\ \A q \in Readers \ {p} : ~InCritical(q) /\ pc'[q] = pc[q]
  BY <1>1, <1>2, OwnReadIndex DEF ReadByte, TypeOK
<1>4. R' = IF pc'[p] \in {"load", "unread"} THEN r' - 1 ELSE r'
  BY <1>3 DEF R, Passed, InCritical
<1>5. R \in Nat /\ w - R > 0
  BY <1>1, <1>3, StreamFacts DEF IInv, ReaderInv
<1>6. Ready # <<>> /\ Head(Ready) = Slot(r - 1) /\ Tail(Ready) = Stretch(R + 1, w - R - 1)
  BY <1>1, <1>3, <1>5, StretchCut DEF Ready
<1>7. UNCHANGED <<buf, r, w, e, target>>
  BY DEF ReadByte, ring
<1>8. Line' = Line
  BY <1>7 DEF Line, Stretch, Slot
<1>9. pc'[p] \notin {"load", "unread"} => Ready' = Tail(Ready)
  <2> SUFFICES ASSUME pc'[p] \notin {"load", "unread"} PROVE Ready' = Tail(Ready)
    OBVIOUS
  <2>1. R' = R + 1 /\ w - (R + 1) = w - R - 1
    BY <1>1, <1>3, <1>4, <1>7
  <2>2. Ready' = Stretch(R + 1, w - (R + 1))
    BY <1>7, <2>1 DEF Ready, Stretch, Slot
  <2>3. QED
    BY <1>6, <2>1, <2>2
<1>10. pc'[p] = "unread" => Ready' = Ready
  BY <1>1, <1>3, <1>4, <1>7, StreamSame
<1>11. Phase[p] = "reading" /\ Len(got[p]) < target[p]
  BY <1>2 DEF Phase, IInv, ReaderInv
<1>12. pc' \in [Readers -> Places]
  BY <1>1 DEF ReadByte, TypeOK, Places
<1>13. CASE Slot(r - 1) = EOT
  <2>1. pc'[p] = (IF got[p] = <<>> THEN "release" ELSE "unread") /\ UNCHANGED got
    BY <1>1, <1>13 DEF ReadByte, TypeOK
  <2>2. Phase' = [Phase EXCEPT ![p] = "done"]
    <3>1. Phase'[p] = "done"
      BY <2>1 DEF Phase
    <3>2. QED
      BY <1>1, <1>3, <3>1, PhaseMoves
  <2>3. Ready' = IF got[p] = <<>> THEN Tail(Ready) ELSE Ready
    BY <1>9, <1>10, <2>1
  <2>4. Promised!EndOfFile(p)
    BY <1>6, <1>7, <1>8, <1>11, <1>13, <2>1, <2>2, <2>3 DEF Promised!EndOfFile
  <2>5. QED
    BY <2>4 DEF Promised!Next
<1>14. CASE Slot(r - 1) # EOT
  <2>1. /\ pc'[p] = IF Slot(r - 1) = NL THEN "release" ELSE "test"
        /\ got' = [got EXCEPT ![p] = Append(got[p], Slot(r - 1))]
    BY <1>1, <1>14 DEF ReadByte, TypeOK
  <2>2. Phase' = [Phase EXCEPT ![p] = IF Slot(r - 1) = NL THEN "done" ELSE Phase[p]]
    <3>1. Phase'[p] = IF Slot(r - 1) = NL THEN "done" ELSE Phase[p]
      BY <1>2, <2>1 DEF Phase
    <3>2. QED
      BY <1>1, <1>3, <3>1, PhaseMoves
  <2>3. Ready' = Tail(Ready)
    BY <1>9, <2>1
  <2>4. Promised!Take(p)
    BY <1>6, <1>7, <1>8, <1>11, <1>14, <2>1, <2>2, <2>3 DEF Promised!Take
  <2>5. QED
    BY <2>4 DEF Promised!Next
<1>15. QED
  BY <1>13, <1>14

(* The other steps under the lock: they finish an answer or are not seen.  *)
LEMMA FinishesOrWaits ==
    ASSUME IInv, NEW p \in Readers, ReadStep(p), ~ReadByte(p)
    PROVE  Promised!Next \/ UNCHANGED Promised!vars
<1>1. /\ TypeOK /\ LockInv /\ r \in Nat /\ w \in Nat /\ w - R \in Nat /\ Len(Ready) = w - R
      /\ Ready \in Seq(Char \cup {NUL})
  BY StreamFacts
<1>2. InCritical(p) /\ holder = p
  BY <1>1
  DEF ReadStep, ReadFull, ReadEmpty, ReadAdvance, ReadUnread, ReadSleep, ReadReturn, LockInv, InCritical
<1>3. /\ R = IF pc[p] \in {"load", "unread"} THEN r - 1 ELSE r
      /\ \A q \in Readers \ {p} : ~InCritical(q) /\ pc'[q] = pc[q]
  BY <1>1, <1>2, OwnReadIndex
  DEF ReadStep, ReadFull, ReadEmpty, ReadAdvance, ReadUnread, ReadSleep, ReadReturn, TypeOK
<1>4. R' = IF pc'[p] \in {"load", "unread"} THEN r' - 1 ELSE r'
  BY <1>3 DEF R, Passed, InCritical
<1>5. UNCHANGED <<buf, w, e, target>>
  BY DEF ReadStep, ReadFull, ReadEmpty, ReadAdvance, ReadUnread, ReadSleep, ReadReturn, ring
<1>6. R' = R
  BY <1>1, <1>3, <1>4
  DEF ReadStep, ReadFull, ReadEmpty, ReadAdvance, ReadUnread, ReadSleep, ReadReturn, ring, TypeOK
<1>7. Ready' = Ready /\ Line' = Line
  BY <1>5, <1>6, StreamSame
<1>8. CASE ReadFull(p)
  <2>1. Phase[p] = "reading" /\ Phase'[p] = "done"
    BY <1>1, <1>8 DEF Phase, ReadFull, TypeOK
  <2>2. Phase' = [Phase EXCEPT ![p] = "done"]
    BY <1>1, <1>3, <2>1, PhaseMoves
  <2>3. Promised!Satisfied(p)
    BY <1>5, <1>7, <1>8, <2>1, <2>2 DEF Promised!Satisfied, ReadFull
  <2>4. QED
    BY <2>3 DEF Promised!Next
<1>9. CASE ReadReturn(p)
  <2>1. Phase[p] = "done" /\ Phase'[p] = "idle"
    BY <1>1, <1>9 DEF Phase, ReadReturn, TypeOK
  <2>2. Phase' = [Phase EXCEPT ![p] = "idle"]
    BY <1>1, <1>3, <2>1, PhaseMoves
  <2>3. Promised!Answer(p)
    BY <1>5, <1>7, <1>9, <2>1, <2>2 DEF Promised!Answer, ReadReturn
  <2>4. QED
    BY <2>3 DEF Promised!Next
<1>10. CASE ReadEmpty(p) /\ killed[p]
  <2>1. pc[p] = "test" /\ r = w /\ got' = [got EXCEPT ![p] = <<>>]
    BY <1>10 DEF ReadEmpty
  <2>2. Ready = <<>>
    <3>1. Len(Ready) = 0
      BY <1>1, <1>3, <2>1
    <3>2. QED
      BY <1>1, <3>1, EmptySeq
  <2>3. Phase[p] = "reading" /\ Phase'[p] = "done"
    BY <1>1, <1>10, <2>1 DEF Phase, ReadEmpty, TypeOK
  <2>4. Phase' = [Phase EXCEPT ![p] = "done"]
    BY <1>1, <1>3, <2>3, PhaseMoves
  <2>5. Promised!GiveUp(p)
    BY <1>5, <1>7, <2>1, <2>2, <2>3, <2>4 DEF Promised!GiveUp
  <2>6. QED
    BY <2>5 DEF Promised!Next
<1>11. CASE ReadAdvance(p) \/ ReadUnread(p) \/ ReadSleep(p) \/ (ReadEmpty(p) /\ ~killed[p])
  <2>1. got' = got
    BY <1>1, <1>11 DEF ReadAdvance, ReadUnread, ReadSleep, ReadEmpty, TypeOK
  <2>2. \/ {pc[p], pc'[p]} \subseteq {"acquire", "test", "load", "tosleep", "asleep"}
        \/ {pc[p], pc'[p]} \subseteq {"unread", "release"}
    BY <1>1, <1>11 DEF ReadAdvance, ReadUnread, ReadSleep, ReadEmpty, TypeOK
  <2>3. Phase' = Phase
    BY <1>1, <1>3, <2>2, PhaseSame
  <2>4. QED
    BY <1>5, <1>7, <2>1, <2>3 DEF Promised!vars
<1>12. QED
  BY <1>8, <1>9, <1>10, <1>11 DEF ReadStep

(* The empty ring is an empty stream.                                      *)
LEMMA StartsAsTerminal == Init => Promised!Init
<1> SUFFICES ASSUME Init PROVE Promised!Init
  OBVIOUS
<1>1. \A p \in Readers : pc[p] = "idle"
  BY DEF Init
<1>2. R = 0 /\ w = 0 /\ e = 0
  BY <1>1 DEF Init, R, Passed
<1>3. Ready = <<>> /\ Line = <<>>
  BY <1>2 DEF Ready, Line, Stretch
<1>4. Phase = [p \in Readers |-> "idle"]
  BY <1>1 DEF Phase
<1>5. QED
  BY <1>3, <1>4 DEF Promised!Init, Init

(* Every step of the ring is a step of Terminal or is not seen there.      *)
LEMMA StepsAsTerminal == IInv /\ [Next]_vars => [Promised!Next]_(Promised!vars)
<1> SUFFICES ASSUME IInv, [Next]_vars PROVE Promised!Next \/ UNCHANGED Promised!vars
  OBVIOUS
<1>1. CASE IntrAcquire \/ IntrRelease
  <2>1. R' = R /\ UNCHANGED <<buf, w, e, pc, target, got>>
    BY <1>1 DEF IntrAcquire, IntrRelease, R, Passed, ring, readers
  <2>2. QED
    BY <2>1, StreamSame DEF Promised!vars, Phase
<1>2. CASE Handler
  BY <1>1, <1>2, TypesCharacter, EditsLine DEF Handler
<1>3. ASSUME NEW p \in Readers, Reader(p) PROVE Promised!Next \/ UNCHANGED Promised!vars
  BY <1>3, AsksOrWaits, TakesFirst, FinishesOrWaits DEF Reader
<1>4. CASE UNCHANGED vars
  <2>1. R' = R /\ UNCHANGED <<buf, w, e, pc, target, got>>
    BY <1>4 DEF vars, ring, readers, R, Passed
  <2>2. QED
    BY <2>1, StreamSame DEF Promised!vars, Phase
<1>5. QED
  BY <1>2, <1>3, <1>4 DEF Next

(* The ring, the lock and the sleeping readers implement one stream of     *)
(* lines: what consoleread copies out is what consoleintr committed, each  *)
(* character to one reader and in the order typed, a line or an end of     *)
(* file ending the answer.                                                 *)
THEOREM ConsoleIsTerminal == Spec => ImplementsTerminal
<1>1. QED
  BY StartsAsTerminal, StepsAsTerminal, InvariantHolds, PTL
  DEF Spec, ImplementsTerminal, Promised!Spec

-----------------------------------------------------------------------------
(* A loop upwards stops at the first index there is.                       *)
LEMMA SmallestOf ==
    ASSUME NEW S, S \subseteq Nat, S # {}
    PROVE  \E m \in S : \A k \in S : m <= k
<1>1. PICK top \in S : TRUE
  OBVIOUS
<1> DEFINE T == {1 .. x : x \in {y \in S : y <= top}}
<1>2. top \in Nat /\ \A x \in S : x \in Nat
  OBVIOUS
<1>3. \A x \in Nat : IsFiniteSet(1 .. x)
  BY FS_Interval
<1>4. T \subseteq FiniteSubsetsOf(1 .. top) /\ T # {}
  BY <1>2, <1>3 DEF FiniteSubsetsOf
<1>5. PICK i \in T : \A j \in T : ~(<<j, i>> \in StrictSubsetOrdering(1 .. top))
  BY <1>4, FS_StrictSubsetOrderingWellFounded, WFMin
<1>6. PICK m \in S : i = 1 .. m /\ m <= top
  OBVIOUS
<1>7. ASSUME NEW k \in S, k < m PROVE FALSE
  <2>1. 1 .. k \subseteq 1 .. m /\ m \in 1 .. m /\ m \notin 1 .. k /\ k <= top
    BY <1>2, <1>6, <1>7
  <2>2. 1 .. k \in T /\ <<1 .. k, 1 .. m>> \in StrictSubsetOrdering(1 .. top)
    BY <1>2, <1>3, <1>6, <2>1 DEF StrictSubsetOrdering, FiniteSubsetsOf
  <2>3. QED
    BY <1>5, <1>6, <2>2
<1>8. \A k \in S : m <= k
  BY <1>2, <1>7
<1>9. QED
  BY <1>8

(* The end at which auto_complete stops erasing is not below input.w.      *)
LEMMA ErasesUncommitted ==
    ASSUME w \in Nat, e \in Nat, w <= e
    PROVE  EraseTo \in w .. e
<1> DEFINE Stop(k) == k = w \/ Slot(k - 1) \in {NL, SP}
           Ends0 == {d \in 0 .. e - w : Stop(e - d)}
<1>1. e - w \in Ends0 /\ Ends0 \subseteq Nat
  OBVIOUS
<1>2. PICK d \in Ends0 : \A other \in Ends0 : d <= other
  BY <1>1, SmallestOf
<1> DEFINE k == e - d
<1>3. k \in w .. e /\ Stop(k)
  BY <1>2
<1>4. \A i \in k .. e - 1 : ~Stop(i + 1)
  <2> SUFFICES ASSUME NEW i \in k .. e - 1, Stop(i + 1) PROVE FALSE
    OBVIOUS
  <2> DEFINE other == e - (i + 1)
  <2>1. other \in 0 .. e - w /\ other < d /\ e - other = i + 1
    BY <1>3
  <2>2. other \in Ends0
    BY <2>1
  <2>3. QED
    BY <1>2, <2>1, <2>2
<1>5. \A i \in k .. e - 1 : Slot(i) \notin {NL, SP}
  <2> SUFFICES ASSUME NEW i \in k .. e - 1 PROVE Slot(i) \notin {NL, SP}
    OBVIOUS
  <2>1. i + 1 - 1 = i /\ ~Stop(i + 1)
    BY <1>3, <1>4
  <2>2. QED
    BY <2>1
<1>6. QED
  BY <1>3, <1>5 DEF EraseTo

(* The text of an array is at most as long as the array.                   *)
LEMMA TextLength ==
    ASSUME NEW array
    PROVE  Len(Text(array)) \in 0 .. N
<1> DEFINE Stop(n) == n = N \/ array[n] = NUL
           First(n) == Stop(n) /\ \A i \in 0 .. n - 1 : array[i] # NUL
           n0 == CHOOSE n \in 0 .. N : First(n)
<1>1. N \in {n \in 0 .. N : Stop(n)} /\ {n \in 0 .. N : Stop(n)} \subseteq Nat
  BY NAssumption
<1>2. PICK n \in {n \in 0 .. N : Stop(n)} : \A k \in {k \in 0 .. N : Stop(k)} : n <= k
  BY <1>1, SmallestOf
<1>3. \A i \in 0 .. n - 1 : array[i] # NUL
  BY <1>2, NAssumption
<1>4. n \in 0 .. N /\ First(n)
  BY <1>2, <1>3
<1>5. n0 \in 0 .. N
  BY <1>4
<1>6. Text(array) = [i \in 1 .. n0 |-> array[i - 1]]
  BY DEF Text
<1> HIDE DEF n0
<1>7. Len([i \in 1 .. n0 |-> array[i - 1]]) = n0
  BY <1>5, NAssumption
<1>8. QED
  BY <1>5, <1>6, <1>7

(* Waking sleepers moves nobody into or out of a critical section.         *)
LEMMA WakeKeeps ==
    ASSUME pc \in [Readers -> Places], pc' \in {pc, Wakeup}
    PROVE  /\ pc' \in [Readers -> Places]
           /\ \A p \in Readers : /\ InCritical(p)' <=> InCritical(p)
                                 /\ (pc'[p] \in {"load", "unread"}) <=> (pc[p] \in {"load", "unread"})
                                 /\ pc'[p] = "tosleep" <=> pc[p] = "tosleep"
                                 /\ pc'[p] = "asleep" => pc[p] = "asleep" /\ pc' = pc
BY DEF Wakeup, Places, InCritical

(* The read index is input.r, or one less during a rollback.               *)
LEMMA ReadIndexIs == r \in Nat => R \in {r, r - 1}
BY DEF R, Passed

(* A committed slot before input.r is one that a reader has passed.        *)
LEMMA SlotsPassed ==
    ASSUME HelpfulInv
    PROVE  \A i \in R .. w - 1 : i \in r .. w - 1 \/ AtRisk(i)
BY DEF HelpfulInv, RingShape, R, AtRisk

(* What a step of the handler may do to the ring: move the edit index back *)
(* to the last commit at most, and forward to a ring after what is unread  *)
(* and one more at most.                                                   *)
HandlerEdits ==
    /\ buf' = [i \in 0 .. N - 1 |-> buf'[i]]
    /\ \A i \in R .. w - 1 : AtRisk(i) \/ buf'[i % N] = buf[i % N]
    /\ e' \in Nat /\ w' \in {w, e'} /\ w <= e' /\ (e' <= e \/ e' - R <= N + 1)
    /\ pc' \in {pc, Wakeup}
    /\ UNCHANGED <<r, holder>>

(* Such a step keeps the invariant, if it is no store to come.             *)
LEMMA EditsKeep ==
    ASSUME HelpfulInv, HandlerEdits,
           (stage = "loop" <=> holder = Intr)',
           (stage \in {"filling", "recalling"} => e - R <= N)'
    PROVE  HelpfulInv'
<1> USE DEF HelpfulInv, HandlerEdits
<1>1. RingShape' /\ \A p \in Readers : InCritical(p)' <=> InCritical(p)
  BY WakeKeeps DEF RingShape
<1>2. LockInv'
  BY <1>1 DEF LockInv
<1>3. R' = R
  BY WakeKeeps DEF R, Passed, RingShape
<1>4. R \in Int /\ R >= r - 1
  BY ReadIndexIs DEF RingShape
<1>5. Overrun' /\ r' <= w' /\ (R >= 0)'
  BY <1>3, <1>4, NAssumption DEF Overrun, RingShape
<1>6. QED
  BY <1>1, <1>2, <1>5

(* One character into a ring with room, or that seems to have some.        *)
LEMMA PutEdits ==
    ASSUME HelpfulInv, NEW ch, Room, buf' = [buf EXCEPT ![e % N] = ch], e' = e + 1,
           w' \in {w, e'}, pc' \in {pc, Wakeup}, UNCHANGED <<r, holder>>
    PROVE  HandlerEdits
<1>1. /\ buf = [i \in 0 .. N - 1 |-> buf[i]] /\ r \in Nat /\ w \in Nat /\ e \in Nat
      /\ R \in Int /\ w <= e /\ N \in Nat /\ N > 0 /\ e - r < N
  BY ReadIndexIs, NAssumption DEF HelpfulInv, RingShape, Overrun, Room
<1>2. ASSUME NEW i \in r .. w - 1 PROVE buf'[i % N] = buf[i % N]
  <2>1. i \in Int /\ e \in Int /\ i < e /\ e - i < N
    BY <1>1
  <2>2. i % N # e % N /\ i % N \in 0 .. N - 1
    BY <2>1, SlotsDiffer, SlotInRing
  <2>3. QED
    BY <1>1, <2>2
<1>3. buf' = [i \in 0 .. N - 1 |-> buf'[i]]
  BY <1>1
<1>4. e' \in Nat /\ w <= e' /\ e' - R <= N + 1
  BY <1>1, ReadIndexIs
<1>5. QED
  BY <1>2, <1>3, <1>4, SlotsPassed DEF HandlerEdits

(* ... and one that is stored after the room was seen: only what comes     *)
(* first may be lost, and only if it was passed or given back since.       *)
LEMMA StoreEdits ==
    ASSUME HelpfulInv, EofInv, Store
    PROVE  HandlerEdits
<1>1. /\ buf = [i \in 0 .. N - 1 |-> buf[i]] /\ r \in Nat /\ w \in Nat /\ e \in Nat
      /\ R \in Int /\ R >= 0 /\ R <= w /\ w <= e /\ N \in Nat /\ N > 0 /\ e - R <= N
  BY ReadIndexIs, NAssumption DEF HelpfulInv, RingShape, Overrun, Store
<1>2. /\ stage \in {"filling", "recalling"} /\ UNCHANGED <<r, w, holder, pc>>
      /\ buf' = [buf EXCEPT ![e % N] = Head(todo)] /\ e' = e + 1
  BY DEF Store, readers
<1>3. ASSUME NEW i \in R .. w - 1 PROVE AtRisk(i) \/ buf'[i % N] = buf[i % N]
  <2>1. CASE e - i < N
    <3>1. i \in Int /\ e \in Int /\ i < e
      BY <1>1
    <3>2. i % N # e % N /\ i % N \in 0 .. N - 1
      BY <2>1, <3>1, SlotsDiffer, SlotInRing
    <3>3. QED
      BY <1>1, <1>2, <3>2
  <2>2. CASE e - i = N
    <3>1. i = R /\ e = i + N
      BY <1>1, <2>2
    <3>2. Passed \/ (r = R /\ e = r + N)
      BY <3>1 DEF R
    <3>3. QED
      BY <1>2, <3>1, <3>2 DEF AtRisk, EofInv
  <2>3. QED
    BY <1>1, <2>1, <2>2
<1>4. buf' = [i \in 0 .. N - 1 |-> buf'[i]]
  BY <1>1, <1>2
<1>5. e' \in Nat /\ w <= e' /\ e' - R <= N + 1
  BY <1>1, <1>2
<1>6. QED
  BY <1>2, <1>3, <1>4, <1>5 DEF HandlerEdits

(* The clipboard goes into the free slots, at most.                        *)
LEMMA PasteEdits ==
    ASSUME HelpfulInv, Paste PROVE HandlerEdits
<1> DEFINE text == Text(clipboard)
           n == IF Room THEN Min({Len(text), r + N - e}) ELSE 0
<1>1. /\ buf = [i \in 0 .. N - 1 |-> buf[i]] /\ r \in Nat /\ w \in Nat /\ e \in Nat
      /\ w <= e /\ N \in Nat /\ N > 0
  BY NAssumption DEF HelpfulInv, RingShape, Overrun
<1>2. n \in Nat /\ (n = 0 \/ e + n <= r + N)
  <2>1. Len(text) \in Nat
    BY TextLength, NAssumption
  <2>2. CASE ~Room
    BY <2>2
  <2>3. CASE Room
    <3> DEFINE a == Len(text)
               b == r + N - e
    <3>1. a \in Nat /\ b \in Nat /\ e + b = r + N
      BY <1>1, <2>1, <2>3 DEF Room
    <3> HIDE DEF a, b
    <3>2. Min({a, b}) \in {a, b} /\ Min({a, b}) <= b
      BY <3>1 DEF Min
    <3>3. n = Min({a, b})
      BY <2>3 DEF a, b
    <3>4. QED
      BY <1>1, <3>1, <3>2, <3>3
  <2>4. QED
    BY <2>2, <2>3
<1>3. /\ buf' = [s \in 0 .. N - 1 |->
                   IF \E i \in 1 .. n : (e + i - 1) % N = s
                   THEN text[CHOOSE i \in 1 .. n : (e + i - 1) % N = s]
                   ELSE buf[s]]
      /\ e' = e + n /\ UNCHANGED <<r, w, holder, pc>>
  BY DEF Paste, readers
<1> HIDE DEF n, text
<1>4. ASSUME NEW i \in r .. w - 1, n # 0 PROVE buf'[i % N] = buf[i % N]
  <2>1. ASSUME NEW k \in 1 .. n PROVE (e + k - 1) % N # i % N
    <3> DEFINE j == e + k - 1
    <3>1. i \in Int /\ j \in Int /\ i < j /\ j - i < N
      BY <1>1, <1>2, <1>4
    <3> HIDE DEF j
    <3>2. i % N # j % N
      BY <3>1, SlotsDiffer
    <3>3. QED
      BY <3>2 DEF j
  <2>2. i % N \in 0 .. N - 1
    BY <1>1, SlotInRing
  <2>3. QED
    BY <1>3, <2>1, <2>2
<1>5. buf' = [s \in 0 .. N - 1 |-> buf'[s]]
  BY <1>3
<1>6. n = 0 => buf' = buf
  BY <1>1, <1>2, <1>3
<1>7. \A i \in r .. w - 1 : buf'[i % N] = buf[i % N]
  BY <1>4, <1>6
<1>8. e' \in Nat /\ w <= e' /\ (e' <= e \/ e' - R <= N + 1)
  BY <1>1, <1>2, <1>3, ReadIndexIs
<1>9. QED
  BY <1>3, <1>5, <1>7, <1>8, SlotsPassed DEF HandlerEdits

(* The key that is served is one that was noted.                           *)
LEMMA ChosenWasNoted ==
    \/ Chosen = "off"
    \/ Chosen \in flags \cap {"tab", "clear", "up", "guide", "cipher", "devil", "layout"}
<1> DEFINE order == <<"tab", "clear", "up", "guide", "cipher", "devil", "layout">>
           first == {i \in 1 .. Len(order) : order[i] \in flags}
<1>1. CASE first = {}
  BY <1>1 DEF Chosen
<1>2. CASE first # {}
  <2>1. first \subseteq Nat
    OBVIOUS
  <2>2. \E m \in first : \A k \in first : m <= k
    BY <2>1, <1>2, SmallestOf
  <2>3. Min(first) \in first
    BY <2>2 DEF Min
  <2>4. PICK m \in first : m = Min(first)
    BY <2>3
  <2>5. Chosen = order[m]
    BY <1>2, <2>4 DEF Chosen
  <2>6. m \in 1 .. 7 /\ order[m] \in flags
    OBVIOUS
  <2>7. order[m] \in {"tab", "clear", "up", "guide", "cipher", "devil", "layout"}
    BY <2>6
  <2>8. QED
    BY <2>5, <2>6, <2>7
<1>3. QED
  BY <1>1, <1>2

(* The handler is in its loop while it has the lock, and about to store    *)
(* only after it has seen room.                                            *)
LEMMA HandlerStages ==
    ASSUME HelpfulInv, HelpfulHandler
    PROVE  /\ (stage = "loop" <=> holder = Intr)'
           /\ stage' \in {"filling", "recalling"} => Insert
           /\ stage' \in {"tab", "up"} => stage' = stage \/ holder = Intr
<1>1. stage = "loop" <=> holder = Intr
  BY DEF HelpfulInv
<1>2. CASE Begin
  BY <1>2, HolderAssumption DEF Begin, IntrAcquire
<1>3. CASE End
  <2>1. stage' \in {"off", Chosen} /\ holder' = Nobody /\ holder = Intr
    BY <1>3 DEF End, IntrRelease
  <2>2. QED
    BY <2>1, ChosenWasNoted, HolderAssumption
<1>4. ASSUME NEW c \in Char \cup {CR}, Type(c) PROVE UNCHANGED <<stage, holder>> /\ holder = Intr
  BY <1>4 DEF Type, PutChar
<1>5. CASE Erase \/ Paste \/ Copy
  BY <1>5, <1>1 DEF Erase, Backspace, KillLine, Paste, Copy, Pressed, special, vars
<1>6. CASE WakeAll \/ EndCipher \/ Collect \/ Complete \/ Recall
  BY <1>6, <1>1 DEF WakeAll, EndCipher, Collect, Complete, Recall, vars
<1>7. CASE Insert
  BY <1>7, <1>1 DEF Insert, Storing, vars
<1>8. CASE Store \/ TestFull \/ CommitFull \/ WakeFull \/ Done
  BY <1>8, <1>1 DEF Store, TestFull, CommitFull, WakeFull, Done, vars
<1>9. ASSUME NEW c \in Plain \cup {NL, NUL}, Cipher(c) \/ Devil(c)
      PROVE  UNCHANGED <<stage, holder>> /\ holder = Intr
  BY <1>9 DEF Cipher, Devil, Pressed, vars
<1>10. ASSUME NEW key \in {"tab", "clear", "up", "guide", "layout"}, Note(key)
       PROVE  UNCHANGED <<stage, holder>> /\ holder = Intr
  BY <1>10 DEF Note, Pressed, vars
<1>11. QED
  BY <1>1, <1>2, <1>3, <1>4, <1>5, <1>6, <1>7, <1>8, <1>9, <1>10 DEF HelpfulHandler, Unlocked

(* A step of the handler is such an edit, or takes or gives back the lock. *)
LEMMA HandlerStep ==
    ASSUME HelpfulInv, EofInv, HelpfulHandler
    PROVE  HandlerEdits \/ ((IntrAcquire \/ IntrRelease) /\ UNCHANGED <<ring, readers>>)
<1>1. /\ buf = [i \in 0 .. N - 1 |-> buf[i]] /\ r \in Nat /\ w \in Nat /\ e \in Nat
      /\ w <= e
  BY DEF HelpfulInv, RingShape, Overrun
<1>2. UNCHANGED <<ring, holder, readers>> => HandlerEdits
  BY <1>1 DEF HandlerEdits, ring, readers
<1>3. CASE Begin \/ End
  BY <1>3 DEF Begin, End, IntrAcquire, IntrRelease
<1>4. ASSUME NEW c \in Char \cup {CR}, Type(c) PROVE HandlerEdits
  <2>1. PutChar(c)
    BY <1>4 DEF Type
  <2>2. Room /\ buf' = [buf EXCEPT ![e % N] = Stored(c)] /\ e' = e + 1 /\ w' \in {w, e'}
        /\ pc' \in {pc, Wakeup} /\ UNCHANGED <<r, holder>>
    BY <2>1 DEF PutChar
  <2>3. QED
    BY <2>2, PutEdits
<1>5. CASE Erase
  <2>1. e' \in w .. e /\ UNCHANGED <<buf, r, w, holder, pc>>
    BY <1>1, <1>5 DEF Erase, Backspace, KillLine, readers
  <2>2. QED
    BY <1>1, <2>1 DEF HandlerEdits
<1>6. CASE Paste
  BY <1>6, PasteEdits
<1>7. CASE Complete
  <2>1. e' \in {e, EraseTo} /\ UNCHANGED <<buf, r, w, holder, pc>>
    BY <1>7 DEF Complete, readers
  <2>2. e' \in w .. e
    BY <1>1, <2>1, ErasesUncommitted
  <2>3. QED
    BY <1>1, <2>1, <2>2 DEF HandlerEdits
<1>8. CASE Store
  BY <1>8, StoreEdits
<1>9. CASE CommitFull
  <2>1. w' \in {w, e'} /\ pc' \in {pc, Wakeup} /\ UNCHANGED <<buf, r, e, holder>>
    BY <1>9 DEF CommitFull, readers
  <2>2. QED
    BY <1>1, <2>1 DEF HandlerEdits
<1>10. CASE WakeAll \/ EndCipher \/ WakeFull
  <2>1. pc' \in {pc, Wakeup} /\ UNCHANGED <<buf, r, w, e, holder>>
    BY <1>10 DEF WakeAll, EndCipher, WakeFull, ring
  <2>2. QED
    BY <1>1, <2>1 DEF HandlerEdits
<1>11. CASE Collect \/ Recall \/ Insert \/ TestFull \/ Done \/ Copy
  BY <1>2, <1>11 DEF Collect, Recall, Insert, TestFull, Done, Copy, vars
<1>12. ASSUME NEW c \in Plain \cup {NL, NUL}, Cipher(c) \/ Devil(c) PROVE HandlerEdits
  BY <1>2, <1>12 DEF Cipher, Devil, vars
<1>13. ASSUME NEW key \in {"tab", "clear", "up", "guide", "layout"}, Note(key) PROVE HandlerEdits
  BY <1>2, <1>13 DEF Note, vars
<1>14. QED
  BY <1>3, <1>4, <1>5, <1>6, <1>7, <1>8, <1>9, <1>10, <1>11, <1>12, <1>13 DEF HelpfulHandler, Unlocked

(* Taking the lock or giving it back.                                      *)
LEMMA HelpfulLockStep ==
    ASSUME HelpfulInv, IntrAcquire \/ IntrRelease,
           (stage = "loop" <=> holder = Intr)', stage' \notin {"filling", "recalling"}
    PROVE  HelpfulInv'
<1>1. R' = R /\ UNCHANGED <<buf, r, w, e, pc>>
  BY DEF IntrAcquire, IntrRelease, R, Passed, ring, readers
<1>2. holder' \in Readers \cup {Intr, Nobody} /\ RingShape'
  BY <1>1 DEF HelpfulInv, RingShape, IntrAcquire, IntrRelease
<1>3. LockInv'
  BY <1>1, HolderAssumption DEF HelpfulInv, LockInv, InCritical, IntrAcquire, IntrRelease
<1>4. QED
  BY <1>1, <1>2, <1>3 DEF HelpfulInv, Overrun

(* What a step of a reader may do: take one character, or give one back.   *)
LEMMA HelpfulReaderStep ==
    ASSUME HelpfulInv, NEW p \in Readers, Reader(p), UNCHANGED special
    PROVE  HelpfulInv' /\ UNCHANGED <<buf, w, e>> /\ R' \in {R, R + 1}
<1>0. stage' = stage /\ (holder' = Intr <=> holder = Intr)
  BY HolderAssumption DEF HelpfulInv, LockInv, InCritical, special, Reader, ReadCall, ReadAcquire, KillProc,
     ReadStep, ReadFull, ReadEmpty, ReadAdvance, ReadByte, ReadUnread, ReadSleep, ReadReturn
<1>1. /\ RingShape /\ LockInv /\ r \in Nat /\ w \in Nat /\ e \in Nat /\ R \in Int
      /\ r <= w /\ R >= 0 /\ Overrun
  BY ReadIndexIs DEF HelpfulInv, RingShape
<1>2. CASE KillProc(p) \/ ReadAcquire(p) \/ \E n \in 0 .. MaxRead : ReadCall(p, n)
  <2>1. /\ UNCHANGED <<buf, r, w, e>> /\ pc' \in [Readers -> Places]
        /\ holder' \in Readers \cup {Intr, Nobody}
        /\ \A q \in Readers : (pc'[q] \in {"load", "unread"}) <=> (pc[q] \in {"load", "unread"})
    BY <1>1, <1>2 DEF ReadCall, ReadAcquire, KillProc, RingShape, ring, Places
  <2>2. R' = R
    BY <2>1 DEF R, Passed
  <2>3. LockInv'
    <3>1. CASE ReadAcquire(p)
      BY <3>1, <1>1, HolderAssumption DEF ReadAcquire, LockInv, InCritical, RingShape
    <3>2. CASE KillProc(p) \/ \E n \in 0 .. MaxRead : ReadCall(p, n)
      BY <3>2, <1>1 DEF ReadCall, KillProc, LockInv, InCritical, RingShape
    <3>3. QED
      BY <1>2, <3>1, <3>2
  <2>4. QED
    BY <1>0, <1>1, <2>1, <2>2, <2>3 DEF HelpfulInv, RingShape, Overrun
<1>3. CASE ReadStep(p)
  <2>1. InCritical(p) /\ holder = p
    BY <1>1, <1>3
    DEF ReadStep, ReadFull, ReadEmpty, ReadAdvance, ReadByte, ReadUnread, ReadSleep, ReadReturn,
        LockInv, InCritical
  <2>2. \A q \in Readers \ {p} : ~InCritical(q) /\ pc'[q] = pc[q]
    BY <1>1, <1>3, <2>1
    DEF ReadStep, ReadFull, ReadEmpty, ReadAdvance, ReadByte, ReadUnread, ReadSleep, ReadReturn,
        RingShape, LockInv
  <2>3. UNCHANGED <<buf, w, e>>
    BY <1>3
    DEF ReadStep, ReadFull, ReadEmpty, ReadAdvance, ReadByte, ReadUnread, ReadSleep, ReadReturn, ring
  <2>4. R = IF pc[p] \in {"load", "unread"} THEN r - 1 ELSE r
    BY <2>1, <2>2 DEF R, Passed, InCritical
  <2>5. R' = IF pc'[p] \in {"load", "unread"} THEN r' - 1 ELSE r'
    BY <2>2 DEF R, Passed, InCritical
  <2>6. /\ r' \in Nat /\ r' <= w
        /\ R' = R \/ (R' = R + 1 /\ R < w)
    BY <1>1, <1>3, <2>4, <2>5
    DEF ReadStep, ReadFull, ReadEmpty, ReadAdvance, ReadByte, ReadUnread, ReadSleep, ReadReturn,
        ring, RingShape
  <2>7. pc' \in [Readers -> Places] /\ holder' \in Readers \cup {Intr, Nobody}
    BY <1>1, <1>3
    DEF ReadStep, ReadFull, ReadEmpty, ReadAdvance, ReadByte, ReadUnread, ReadSleep, ReadReturn,
        RingShape, Places
  <2>8. LockInv'
    <3>1. InCritical(p)' <=> holder' = p
      BY <1>1, <1>3, <2>1, HolderAssumption
      DEF ReadStep, ReadFull, ReadEmpty, ReadAdvance, ReadByte, ReadUnread, ReadSleep, ReadReturn,
          InCritical, RingShape
    <3>2. ASSUME NEW q \in Readers \ {p} PROVE ~InCritical(q)' /\ holder' # q
      BY <1>3, <2>1, <2>2, HolderAssumption
      DEF ReadStep, ReadFull, ReadEmpty, ReadAdvance, ReadByte, ReadUnread, ReadSleep, ReadReturn,
          InCritical
    <3>3. QED
      BY <3>1, <3>2 DEF LockInv
  <2>9. RingShape'
    BY <1>1, <2>3, <2>6, <2>7 DEF RingShape
  <2>10. Overrun' /\ R' >= 0
    <3>1. R' \in Int /\ R' >= R /\ R' <= w /\ N \in Nat
      BY <1>1, <2>6, NAssumption DEF Overrun
    <3>2. R <= w /\ w <= e /\ e - R <= N + 1 /\ w' = w /\ e' = e
      BY <1>1, <2>3 DEF Overrun
    <3>3. R' <= w' /\ w' <= e' /\ R' >= 0
      BY <1>1, <3>1, <3>2
    <3>4. w' = w /\ e' = e /\ w \in Nat /\ e \in Nat /\ R \in Int /\ R' \in Int /\ N \in Nat /\ R' >= R /\ e - R <= N + 1
      BY <1>1, <3>1, <3>2
    <3>5. \A a, b \in Int : b >= a /\ e - a <= N + 1 => e - b <= N + 1
      BY <3>4
    <3>8. e - R' <= N + 1
      BY <3>4, <3>5
    <3>7. e' - R' <= N + 1
      BY <3>4, <3>8
    <3>9. stage \in {"filling", "recalling"} => e - R' <= N
      <4>1. ASSUME stage \in {"filling", "recalling"} PROVE e - R' <= N
        <5>1. e - R <= N
          BY <1>1, <4>1 DEF Overrun
        <5>2. \A a, b \in Int : b >= a /\ e - a <= N => e - b <= N
          BY <3>4
        <5>3. QED
          BY <3>4, <5>1, <5>2
      <4>2. QED
        BY <4>1
    <3>6. QED
      BY <1>0, <3>3, <3>4, <3>7, <3>9 DEF Overrun
  <2>11. QED
    BY <1>0, <2>3, <2>6, <2>8, <2>9, <2>10, <1>1 DEF HelpfulInv
<1>4. QED
  BY <1>2, <1>3 DEF Reader

(* A reader that gives a character back has one that was a ^D.             *)
LEMMA EofReader ==
    ASSUME HelpfulInv, EofInv, NEW p \in Readers, Reader(p), UNCHANGED special
    PROVE  EofInv'
<1>1. /\ RingShape /\ LockInv /\ r \in Nat /\ e \in Nat /\ N \in Nat /\ stage' = stage
      /\ UNCHANGED <<buf, e>> /\ Overrun
  BY HelpfulReaderStep, NAssumption DEF HelpfulInv, RingShape, special
<1>2. CASE KillProc(p) \/ ReadAcquire(p) \/ \E n \in 0 .. MaxRead : ReadCall(p, n)
  <2>1. /\ UNCHANGED r
        /\ \A q \in Readers : /\ pc'[q] = "unread" <=> pc[q] = "unread"
                              /\ pc'[q] = "load" <=> pc[q] = "load"
    BY <1>1, <1>2 DEF ReadCall, ReadAcquire, KillProc, RingShape, ring
  <2>2. Passed' <=> Passed
    BY <2>1 DEF Passed
  <2>3. QED
    BY <1>1, <2>1, <2>2 DEF EofInv, Slot
<1>3. CASE ReadStep(p)
  <2>1. InCritical(p) /\ holder = p
    BY <1>1, <1>3
    DEF ReadStep, ReadFull, ReadEmpty, ReadAdvance, ReadByte, ReadUnread, ReadSleep, ReadReturn,
        LockInv, InCritical
  <2>2. \A q \in Readers \ {p} : ~InCritical(q) /\ pc'[q] = pc[q]
    BY <1>1, <1>3, <2>1
    DEF ReadStep, ReadFull, ReadEmpty, ReadAdvance, ReadByte, ReadUnread, ReadSleep, ReadReturn,
        RingShape, LockInv
  <2>3. ASSUME NEW q \in Readers, pc'[q] = "unread" PROVE Slot(r - 1)' = EOT
    <3>1. q = p
      BY <2>2, <2>3 DEF InCritical
    <3>2. Slot(r - 1) = EOT /\ UNCHANGED <<buf, r>>
      BY <1>1, <1>3, <2>3, <3>1
      DEF ReadStep, ReadFull, ReadEmpty, ReadAdvance, ReadByte, ReadUnread, ReadSleep, ReadReturn,
          RingShape, ring
    <3>3. QED
      BY <3>2 DEF Slot
  <2>4. ASSUME stage \in {"filling", "recalling"}, e = r' + N, ~Passed' PROVE Slot(r') = EOT
    <3>1. e - R <= N
      BY <1>1, <2>4 DEF Overrun
    <3>2. CASE ReadUnread(p)
      <4>1. pc[p] = "unread" /\ r' = r - 1
        BY <3>2 DEF ReadUnread
      <4>2. e - r # N
        BY <1>1, <2>4, <4>1
      <4>3. QED
        BY <4>1, <4>2 DEF EofInv
    <3>3. CASE ReadByte(p)
      <4>1. Passed /\ R = r - 1 /\ r' = r
        BY <3>3 DEF Passed, R, ReadByte, ring
      <4>2. QED
        BY <1>1, <2>4, <3>1, <4>1
    <3>4. CASE ReadAdvance(p)
      <4>1. pc'[p] = "load"
        BY <1>1, <3>4 DEF ReadAdvance, RingShape
      <4>2. QED
        BY <2>4, <4>1 DEF Passed
    <3>5. CASE ReadFull(p) \/ ReadEmpty(p) \/ ReadSleep(p) \/ ReadReturn(p)
      <4>1. r' = r /\ pc[p] \notin {"load", "unread"}
        BY <3>5 DEF ReadFull, ReadEmpty, ReadSleep, ReadReturn, ring
      <4>2. ~Passed
        BY <2>2, <4>1 DEF Passed, InCritical
      <4>3. QED
        BY <2>4, <4>1, <4>2 DEF EofInv
    <3>6. QED
      BY <1>3, <3>2, <3>3, <3>4, <3>5 DEF ReadStep
  <2>5. QED
    BY <1>1, <2>3, <2>4 DEF EofInv, Slot
<1>4. QED
  BY <1>2, <1>3 DEF Reader

(* A store outside the lock over the ^D that is being given back fills the *)
(* ring as the reader sees it, and is the last of its completion.          *)
LEMMA EofStore ==
    ASSUME HelpfulInv, EofInv, Store
    PROVE  EofInv'
<1>1. /\ buf = [i \in 0 .. N - 1 |-> buf[i]] /\ r \in Nat /\ w \in Nat /\ e \in Nat
      /\ R \in Int /\ R >= 0 /\ r <= w /\ w <= e /\ N \in Nat /\ N > 0 /\ e - R <= N
  BY ReadIndexIs, NAssumption DEF HelpfulInv, RingShape, Overrun, Store
<1>2. /\ stage \in {"filling", "recalling"} /\ UNCHANGED <<r, w, holder, pc>>
      /\ buf' = [buf EXCEPT ![e % N] = Head(todo)] /\ e' = e + 1
      /\ stage' \in {"commit", "recall"}
  BY DEF Store, readers
<1>3. ASSUME NEW p \in Readers, pc[p] = "unread"
      PROVE  Slot(r - 1)' = EOT \/ e' - r' = N
  <2>1. R = r - 1
    BY <1>3 DEF R, Passed
  <2>2. e - r # N
    BY <1>1, <2>1
  <2>3. Slot(r - 1) = EOT
    BY <1>3, <2>2 DEF EofInv
  <2>4. CASE e - (r - 1) < N
    <3>1. r - 1 \in Int /\ e \in Int /\ r - 1 < e
      BY <1>1
    <3>2. (r - 1) % N # e % N /\ (r - 1) % N \in 0 .. N - 1
      BY <2>4, <3>1, SlotsDiffer, SlotInRing
    <3>3. buf'[(r - 1) % N] = buf[(r - 1) % N]
      BY <1>1, <1>2, <3>2
    <3>4. QED
      BY <1>2, <2>3, <3>3 DEF Slot
  <2>5. CASE e - (r - 1) = N
    BY <1>1, <1>2, <2>5
  <2>6. QED
    BY <1>1, <2>1, <2>4, <2>5
<1>4. QED
  BY <1>2, <1>3 DEF EofInv

(* Every other step of the handler without the lock leaves the ring alone  *)
(* or edits what follows; with the lock no reader is giving anything back. *)
LEMMA EofHandler ==
    ASSUME HelpfulInv, EofInv, HelpfulHandler
    PROVE  EofInv'
<1>1. /\ RingShape /\ LockInv /\ r \in Nat /\ e \in Nat /\ N \in Nat
      /\ (stage = "loop" <=> holder = Intr)
  BY NAssumption DEF HelpfulInv, RingShape
<1>2. UNCHANGED r /\ pc' \in {pc, Wakeup}
  BY HandlerStep DEF HandlerEdits, ring, readers
<1>3. /\ \A p \in Readers : pc'[p] = "unread" <=> pc[p] = "unread"
      /\ Passed' <=> Passed
  BY <1>1, <1>2 DEF RingShape, Wakeup, Passed
<1>4. /\ stage' \in {"filling", "recalling"} => Insert
      /\ stage' \in {"tab", "up"} => stage' = stage \/ holder = Intr
  BY HandlerStages
<1>5. ASSUME stage' \in {"filling", "recalling"} PROVE e' # r' + N
  BY <1>1, <1>2, <1>4, <1>5 DEF Insert, RoomSeen, Room, vars, ring
<1>6. ASSUME holder = Intr \/ IntrAcquire PROVE EofInv'
  <2>1. \A p \in Readers : pc[p] # "unread"
    BY <1>1, <1>6, HolderAssumption DEF LockInv, InCritical, IntrAcquire
  <2>2. QED
    BY <1>3, <1>5, <2>1 DEF EofInv
<1>7. CASE UNCHANGED <<buf, e>>
  BY <1>2, <1>3, <1>4, <1>5, <1>6, <1>7 DEF EofInv, Slot
<1>8. CASE Complete
  <2>1. stage = "tab" /\ UNCHANGED <<buf, r>>
    BY <1>8 DEF Complete
  <2>2. \A p \in Readers : pc[p] = "unread" => Slot(r - 1) = EOT
    BY <2>1 DEF EofInv
  <2>3. QED
    BY <1>3, <1>5, <2>1, <2>2 DEF EofInv, Slot
<1>9. CASE Begin \/ End
  BY <1>6, <1>9 DEF Begin, End, IntrRelease
<1>10. ASSUME NEW c \in Char \cup {CR}, Type(c) PROVE holder = Intr
  BY <1>10 DEF Type, PutChar
<1>11. CASE Erase \/ Paste
  BY <1>6, <1>11 DEF Erase, Backspace, KillLine, Paste, Pressed
<1>12. CASE WakeAll \/ EndCipher \/ Collect \/ Recall \/ Insert \/ TestFull \/ CommitFull \/ WakeFull \/ Done \/ Copy
  BY <1>7, <1>12
  DEF WakeAll, EndCipher, Collect, Recall, Insert, TestFull, CommitFull, WakeFull, Done, Copy, vars, ring
<1>13. ASSUME NEW c \in Plain \cup {NL, NUL}, Cipher(c) \/ Devil(c) PROVE UNCHANGED <<buf, e>>
  BY <1>13 DEF Cipher, Devil, vars, ring
<1>14. ASSUME NEW key \in {"tab", "clear", "up", "guide", "layout"}, Note(key) PROVE UNCHANGED <<buf, e>>
  BY <1>14 DEF Note, vars, ring
<1>15. QED
  BY <1>6, <1>7, <1>8, <1>9, <1>10, <1>11, <1>12, <1>13, <1>14, EofStore DEF HelpfulHandler, Unlocked

(* Every step of HelpfulConsole preserves the two together.                *)
LEMMA HelpfulStep == HelpfulInv /\ EofInv /\ [HelpfulNext]_hvars => (HelpfulInv /\ EofInv)'
<1> SUFFICES ASSUME HelpfulInv, EofInv, [HelpfulNext]_hvars PROVE HelpfulInv' /\ EofInv'
  OBVIOUS
<1>1. CASE HelpfulHandler
  <2>1. (stage = "loop" <=> holder = Intr)' /\ (stage' \in {"filling", "recalling"} => Insert)
    BY <1>1, HandlerStages
  <2>2. CASE Insert
    <3>1. (stage \in {"filling", "recalling"} => e - R <= N)'
      <4>1. r' = r /\ e' = e /\ pc' = pc /\ e - r < N
        BY <2>2 DEF Insert, RoomSeen, Room, vars, ring, readers
      <4>2. R' \in {r, r - 1} /\ r \in Nat /\ e \in Nat /\ N \in Nat
        BY <4>1, ReadIndexIs, NAssumption DEF R, Passed, HelpfulInv, RingShape
      <4>3. e - r <= N /\ e - (r - 1) <= N
        BY <4>1, <4>2
      <4>4. e' - R' <= N
        BY <4>1, <4>2, <4>3
      <4>5. QED
        BY <4>4
    <3>2. HandlerEdits \/ UNCHANGED <<ring, holder, readers>>
      BY <2>2 DEF Insert, vars
    <3>3. HandlerEdits
      BY <3>2 DEF HelpfulInv, RingShape, Overrun, HandlerEdits, ring, readers
    <3>4. QED
      BY <1>1, <2>1, <3>1, <3>3, EditsKeep, EofHandler
  <2>3. CASE ~Insert
    BY <1>1, <2>1, <2>3, HandlerStep, EditsKeep, HelpfulLockStep, EofHandler
  <2>4. QED
    BY <2>2, <2>3
<1>2. ASSUME NEW p \in Readers, Reader(p), UNCHANGED special PROVE HelpfulInv' /\ EofInv'
  BY <1>2, HelpfulReaderStep, EofReader
<1>3. CASE UNCHANGED hvars
  <2>1. HelpfulInv'
    BY <1>3
    DEF hvars, vars, ring, readers, special, HelpfulInv, RingShape, LockInv, InCritical, Overrun, R, Passed
  <2>2. EofInv'
    BY <1>3 DEF hvars, vars, ring, readers, special, EofInv, Slot, Passed
  <2>3. QED
    BY <2>1, <2>2
<1>4. QED
  BY <1>1, <1>2, <1>3 DEF HelpfulNext

(* The two hold in every reachable state.                                  *)
LEMMA HelpfulReaches == HelpfulSpec => [](HelpfulInv /\ EofInv)
<1>1. HelpfulInit => HelpfulInv /\ EofInv
  <2> SUFFICES ASSUME HelpfulInit PROVE HelpfulInv /\ EofInv
    OBVIOUS
  <2>1. Init /\ IInv /\ stage = "off"
    BY InitInv DEF HelpfulInit
  <2>2. r = 0 /\ w = 0 /\ e = 0 /\ R = 0 /\ holder = Nobody
    BY <2>1 DEF Init, R, Passed
  <2>3. RingShape /\ LockInv
    BY <2>1 DEF IInv, TypeOK, RingShape
  <2>4. HelpfulInv
    BY <2>1, <2>2, <2>3, NAssumption, HolderAssumption DEF HelpfulInv, Overrun
  <2>5. EofInv
    BY <2>1, <2>2, NAssumption DEF EofInv, Init
  <2>6. QED
    BY <2>4, <2>5
<1>2. QED
  BY <1>1, HelpfulStep, PTL DEF HelpfulSpec

(* The handler that edits without the lock outruns the readers by at most  *)
(* the one slot a reader gives back: Overrun, and what it rests on.        *)
THEOREM HelpfulHolds == HelpfulSpec => []HelpfulInv
<1>1. QED
  BY HelpfulReaches, PTL

(* A reader that gives a character back gives back a ^D, unless the last   *)
(* character of a completion or a recall has just taken its slot; and who  *)
(* is about to store over the first character to be read saw room that a   *)
(* ^D has taken back.                                                      *)
THEOREM EofHolds == HelpfulSpec => []EofInv
<1>1. QED
  BY HelpfulReaches, PTL

(* Whatever is typed, pasted, completed or recalled, no commit is undone   *)
(* and an unread committed character is overwritten only while a reader    *)
(* has passed it, or if it is a ^D that was given back: all others stay.   *)
THEOREM OthersStay == HelpfulSpec => OnlyPassedAtRisk
<1> DEFINE Stable == /\ w' >= w
                     /\ \A i \in R .. w - 1 : i >= R' => AtRisk(i) \/ buf'[i % N] = buf[i % N]
<1>1. ASSUME HelpfulInv, EofInv, [HelpfulNext]_hvars PROVE [Stable]_hvars
  <2>1. w \in Nat /\ e \in Nat /\ w <= e
    BY <1>1 DEF HelpfulInv, RingShape, Overrun
  <2>2. CASE HandlerEdits
    <3>1. w' >= w
      BY <2>1, <2>2 DEF HandlerEdits
    <3>2. ASSUME NEW i \in R .. w - 1 PROVE AtRisk(i) \/ buf'[i % N] = buf[i % N]
      BY <2>2 DEF HandlerEdits
    <3>3. QED
      BY <3>1, <3>2
  <2>3. CASE UNCHANGED <<buf, w>>
    BY <2>1, <2>3
  <2>4. CASE HelpfulHandler
    BY <1>1, <2>2, <2>3, <2>4, HandlerStep DEF ring
  <2>5. ASSUME NEW p \in Readers, Reader(p), UNCHANGED special PROVE [Stable]_hvars
    BY <1>1, <2>3, <2>5, HelpfulReaderStep
  <2>6. QED
    BY <1>1, <2>4, <2>5 DEF HelpfulNext
<1>2. QED
  BY <1>1, HelpfulReaches, PTL DEF HelpfulSpec, OnlyPassedAtRisk

-----------------------------------------------------------------------------
(* Without completion the lock still does its work: only auto_complete     *)
(* moves input.w outside it, where a reader may be between its test of the *)
(* ring and its sleep.                                                     *)
WakeInv ==
    /\ flags \subseteq Keys /\ stage \notin {"tab", "fill", "filling", "commit", "full", "wake"}
    /\ \A p \in Readers : pc[p] = "tosleep" => r = w
    /\ NoLostWakeup

(* A step of the handler moves input.w under the lock, and then wakes the  *)
(* readers, or not at all.                                                 *)
LEMMA HandlerWakes ==
    ASSUME HelpfulInv, EofInv, WakeInv, HelpfulHandler, "tab" \notin Keys
    PROVE  /\ flags' \subseteq Keys /\ stage' \notin {"tab", "fill", "filling", "commit", "full", "wake"}
           /\ \/ pc' \in {pc, Wakeup} /\ w' = w
              \/ pc' = Wakeup /\ holder = Intr
<1>1. CASE Begin
  BY <1>1 DEF WakeInv, Begin, IntrAcquire, ring, readers
<1>2. CASE End
  <2>1. stage' \in {"off", Chosen}
    BY <1>2 DEF End
  <2>2. Chosen \notin {"tab", "fill", "filling", "commit", "full", "wake"}
    BY ChosenWasNoted DEF WakeInv
  <2>3. QED
    BY <1>2, <2>1, <2>2 DEF WakeInv, End, IntrRelease, ring, readers
<1>3. ASSUME NEW c \in Char \cup {CR}, Type(c) PROVE /\ UNCHANGED <<flags, stage>>
                                                  /\ \/ pc' = pc /\ w' = w
                                                     \/ pc' = Wakeup /\ holder = Intr
  BY <1>3 DEF Type, PutChar
<1>4. CASE Erase \/ Copy \/ Paste
  BY <1>4 DEF WakeInv, Erase, Backspace, KillLine, Copy, Paste, vars, ring, readers, special
<1>5. CASE WakeAll \/ EndCipher
  BY <1>5 DEF WakeInv, WakeAll, EndCipher, ring
<1>6. CASE Collect \/ Complete \/ TestFull \/ CommitFull \/ WakeFull
  BY <1>6 DEF WakeInv, Collect, Complete, TestFull, CommitFull, WakeFull
<1>7. CASE Recall \/ Done
  BY <1>7 DEF WakeInv, Recall, Done, vars, ring, readers
<1>8. CASE Insert \/ Store
  BY <1>8 DEF WakeInv, Insert, Store, Storing, vars, ring, readers
<1>9. ASSUME NEW c \in Plain \cup {NL, NUL}, Cipher(c) \/ Devil(c)
      PROVE  flags' \subseteq Keys /\ UNCHANGED <<stage, pc, w>>
  BY <1>9 DEF WakeInv, Cipher, Devil, Pressed, vars, ring, readers
<1>10. ASSUME NEW key \in {"tab", "clear", "up", "guide", "layout"}, Note(key)
       PROVE  flags' \subseteq Keys /\ UNCHANGED <<stage, pc, w>>
  BY <1>10 DEF WakeInv, Note, Pressed, vars, ring, readers
<1>11. QED
  BY <1>1, <1>2, <1>3, <1>4, <1>5, <1>6, <1>7, <1>8, <1>9, <1>10
  DEF HelpfulHandler, Unlocked, WakeInv

(* Every step keeps a sleeping reader's ring empty.                        *)
LEMMA WakeStep ==
    ASSUME HelpfulInv, EofInv, WakeInv, [HelpfulNext]_hvars, "tab" \notin Keys
    PROVE  WakeInv'
<1>1. /\ RingShape /\ LockInv /\ r \in Nat /\ w \in Nat
      /\ \A p \in Readers : pc[p] = "tosleep" => r = w
  BY DEF HelpfulInv, RingShape, WakeInv
<1>2. CASE HelpfulHandler
  <2>1. /\ flags' \subseteq Keys /\ stage' \notin {"tab", "fill", "filling", "commit", "full", "wake"}
        /\ pc' \in {pc, Wakeup} /\ (w' = w \/ (pc' = Wakeup /\ holder = Intr))
    BY <1>2, HandlerWakes
  <2>2. UNCHANGED r
    BY <1>2, HandlerStep DEF HandlerEdits, ring
  <2>3. /\ R' = R
        /\ \A p \in Readers : /\ pc'[p] = "tosleep" <=> pc[p] = "tosleep"
                              /\ pc'[p] = "asleep" => pc[p] = "asleep" /\ pc' = pc
    BY <1>1, <2>1, <2>2, WakeKeeps DEF RingShape, R, Passed
  <2>4. CASE w' = w
    BY <2>1, <2>2, <2>3, <2>4, <1>1 DEF WakeInv, NoLostWakeup
  <2>5. CASE pc' = Wakeup /\ holder = Intr
    <3>1. \A p \in Readers : pc'[p] # "asleep"
      BY <2>5 DEF Wakeup
    <3>2. \A p \in Readers : pc[p] # "tosleep"
      BY <2>5, <1>1, HolderAssumption DEF LockInv, InCritical
    <3>3. QED
      BY <2>1, <2>3, <3>1, <3>2 DEF WakeInv, NoLostWakeup
  <2>6. QED
    BY <2>1, <2>4, <2>5
<1>3. ASSUME NEW p \in Readers, Reader(p), UNCHANGED special PROVE WakeInv'
  <2>1. UNCHANGED <<flags, stage, w>> /\ R' \in {R, R + 1} /\ HelpfulInv' /\ R \in Int
    BY <1>3, <1>1, HelpfulReaderStep, ReadIndexIs DEF special
  <2>2. CASE KillProc(p) \/ ReadAcquire(p) \/ \E n \in 0 .. MaxRead : ReadCall(p, n)
    <3>1. UNCHANGED r /\ \A q \in Readers : /\ pc'[q] = "tosleep" <=> pc[q] = "tosleep"
                                            /\ (pc'[q] \in {"load", "unread"}) <=> (pc[q] \in {"load", "unread"})
                                            /\ pc'[q] = "asleep" => pc[q] = "asleep"
      BY <1>1, <2>2 DEF KillProc, ReadAcquire, ReadCall, RingShape, ring
    <3>2. R' = R
      BY <3>1 DEF R, Passed
    <3>3. QED
      BY <2>1, <3>1, <3>2 DEF WakeInv, NoLostWakeup
  <2>3. CASE ReadStep(p)
    <3>1. InCritical(p) /\ holder = p
      BY <1>1, <2>3
      DEF ReadStep, ReadFull, ReadEmpty, ReadAdvance, ReadByte, ReadUnread, ReadSleep, ReadReturn,
          LockInv, InCritical
    <3>2. \A q \in Readers \ {p} : ~InCritical(q) /\ pc'[q] = pc[q]
      BY <1>1, <2>3, <3>1
      DEF ReadStep, ReadFull, ReadEmpty, ReadAdvance, ReadByte, ReadUnread, ReadSleep, ReadReturn,
          RingShape, LockInv
    <3>3. pc'[p] = "tosleep" => r' = w'
      BY <1>1, <2>3
      DEF ReadStep, ReadFull, ReadEmpty, ReadAdvance, ReadByte, ReadUnread, ReadSleep, ReadReturn,
          RingShape, ring
    <3>4. pc'[p] = "asleep" => r = w /\ r' = r /\ pc[p] = "tosleep"
      BY <1>1, <2>3
      DEF ReadStep, ReadFull, ReadEmpty, ReadAdvance, ReadByte, ReadUnread, ReadSleep, ReadReturn,
          RingShape, ring
    <3>5. pc'[p] = "asleep" => R' = w'
      BY <2>1, <3>2, <3>4 DEF R, Passed, InCritical
    <3>6. R' # R => R # w
      BY <1>1, <2>1 DEF HelpfulInv, Overrun
    <3>7. ASSUME NEW q \in Readers \ {p}, pc'[q] = "asleep" PROVE R' = w'
      BY <2>1, <3>2, <3>6, <3>7 DEF WakeInv, NoLostWakeup
    <3>8. QED
      BY <2>1, <3>2, <3>3, <3>5, <3>7 DEF WakeInv, NoLostWakeup, InCritical
  <2>4. QED
    BY <1>3, <2>2, <2>3 DEF Reader
<1>4. CASE UNCHANGED hvars
  BY <1>4 DEF hvars, vars, ring, readers, special, WakeInv, NoLostWakeup, R, Passed
<1>5. QED
  BY <1>2, <1>3, <1>4 DEF HelpfulNext

(* Recall, paste and the modes lose no wake-up: with the Tab key left out, *)
(* no reader sleeps while there is committed input.                        *)
THEOREM WakeupsWithoutTab ==
    ASSUME "tab" \notin Keys
    PROVE  HelpfulSpec => []NoLostWakeup
<1>1. HelpfulInit => WakeInv
  BY DEF HelpfulInit, Init, WakeInv, NoLostWakeup
<1>2. HelpfulInv /\ EofInv /\ WakeInv /\ [HelpfulNext]_hvars => WakeInv'
  BY WakeStep
<1>3. WakeInv => NoLostWakeup
  BY DEF WakeInv
<1>4. QED
  BY <1>1, <1>2, <1>3, HelpfulReaches, PTL DEF HelpfulSpec
=============================================================================
