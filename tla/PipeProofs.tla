------------------------------ MODULE PipeProofs ------------------------------
(***************************************************************************)
(* For any number of readers and writers, any size of the ring and any     *)
(* width of the counters that is a multiple of it: the writers never lap   *)
(* the readers, no wake-up is lost, and the pipe implements ByteStream.    *)
(***************************************************************************)
EXTENDS PipeUsers, SequenceTheorems, TLAPS

-----------------------------------------------------------------------------
(* The remainder that unsigned counters leave.                             *)
LEMMA DivMod ==
    ASSUME NEW P \in Nat, P > 0, NEW a \in Int
    PROVE  a = P * (a \div P) + (a % P) /\ a % P \in 0 .. P - 1 /\ a \div P \in Int
  OBVIOUS

LEMMA PlusMod ==
    ASSUME NEW W \in Nat, NEW n \in 0 .. W - 1, NEW k \in 0 .. W - 1
    PROVE  (n + k) % W = IF n + k >= W THEN n + k - W ELSE n + k
  OBVIOUS

LEMMA MinusMod ==
    ASSUME NEW W \in Nat, NEW n \in 0 .. W - 1, NEW k \in 0 .. W - 1
    PROVE  (n - k) % W = IF n >= k THEN n - k ELSE n - k + W
  OBVIOUS

(* Quotient and remainder are unique.                                      *)
LEMMA Unique ==
    ASSUME NEW P \in Nat, P > 0, NEW a \in Int, NEW q \in Int, NEW r \in 0 .. P - 1, a = P * q + r
    PROVE  a % P = r
<1>1. a = P * (a \div P) + (a % P) /\ a % P \in 0 .. P - 1 /\ a \div P \in Int
  BY DivMod
<1> DEFINE d == q - (a \div P)
<1>2. d \in Int /\ P * d = (a % P) - r
  BY <1>1
<1>3. d >= 1 => P * d >= P
  <2>1. ASSUME d >= 1 PROVE P * d >= P
    <3>1. d - 1 \in Nat
      BY <1>2, <2>1
    <3>2. P * (d - 1) \in Nat /\ P * d = P * (d - 1) + P
      BY <3>1, <1>2
    <3>3. QED
      BY <3>2
  <2>2. QED
    BY <2>1
<1>4. d <= -1 => P * d <= -P
  <2>1. ASSUME d <= -1 PROVE P * d <= -P
    <3>1. -1 - d \in Nat
      BY <1>2, <2>1
    <3>2. P * (-1 - d) \in Nat /\ P * d = -P - P * (-1 - d)
      BY <3>1, <1>2
    <3>3. QED
      BY <3>2
  <2>2. QED
    BY <2>1
<1>5. d = 0
  BY <1>1, <1>2, <1>3, <1>4
<1>6. QED
  BY <1>1, <1>2, <1>5

(* The counters wrap at a multiple of the ring.                            *)
LEMMA Multiple ==
    ASSUME NEW P \in Nat, P > 0, NEW W \in Nat, W % P = 0, NEW a \in Int
    PROVE  (a + W) % P = a % P
<1>1. a = P * (a \div P) + (a % P) /\ a % P \in 0 .. P - 1 /\ a \div P \in Int
  BY DivMod
<1>2. W = P * (W \div P) /\ W \div P \in Int
  BY DivMod
<1> DEFINE q == (a \div P) + (W \div P)
<1>3. q \in Int /\ P * q = P * (a \div P) + P * (W \div P)
  BY <1>1, <1>2
<1>4. a + W = P * q + (a % P) /\ a + W \in Int
  BY <1>1, <1>2, <1>3
<1> HIDE DEF q
<1>5. QED
  BY <1>1, <1>3, <1>4, Unique

(* Fewer places apart than the ring has are different places.              *)
LEMMA Distinct ==
    ASSUME NEW P \in Nat, P > 0, NEW a \in Int, NEW k \in 1 .. P - 1
    PROVE  (a + k) % P # a % P
<1>1. a = P * (a \div P) + (a % P) /\ a % P \in 0 .. P - 1 /\ a \div P \in Int
  BY DivMod
<1> DEFINE r == a % P  q == a \div P
<1>2. CASE r + k < P
  <2>1. a + k = P * q + (r + k) /\ r + k \in 0 .. P - 1 /\ q \in Int
    BY <1>1, <1>2
  <2>2. (a + k) % P = r + k
    BY <2>1, Unique
  <2>3. QED
    BY <2>2, <1>1
<1>3. CASE r + k >= P
  <2>1. a + k = P * (q + 1) + (r + k - P) /\ r + k - P \in 0 .. P - 1 /\ q + 1 \in Int
    BY <1>1, <1>3
  <2>2. (a + k) % P = r + k - P
    <3>1. \A b \in Int : b = P * (q + 1) + (r + k - P) => b % P = r + k - P
      BY <2>1, Unique
    <3>2. QED
      BY <2>1, <3>1
  <2>3. QED
    BY <2>2, <1>1
<1>4. QED
  BY <1>1, <1>2, <1>3

-----------------------------------------------------------------------------
(* The counters.                                                           *)
Index == nread \in 0 .. Wrap - 1 /\ nwrite \in 0 .. Wrap - 1

LEMMA Sizes == Wrap \in Nat /\ PIPESIZE \in 1 .. Wrap - 1 /\ 1 \in 0 .. Wrap - 1
  BY SizeAssumption

(* The count in terms of the counters, wrapped or not.                     *)
LEMMA Counting ==
    ASSUME Index
    PROVE  /\ Count = IF nwrite >= nread THEN nwrite - nread ELSE nwrite - nread + Wrap
           /\ Count \in 0 .. Wrap - 1
           /\ Empty <=> Count = 0
           /\ Full <=> Count = PIPESIZE
<1>1. Count = IF nwrite >= nread THEN nwrite - nread ELSE nwrite - nread + Wrap
  BY MinusMod, Sizes DEF Count, Index
<1>2. Advance(nread, PIPESIZE) = IF nread + PIPESIZE >= Wrap THEN nread + PIPESIZE - Wrap ELSE nread + PIPESIZE
  <2>1. PIPESIZE \in 0 .. Wrap - 1 /\ nread \in 0 .. Wrap - 1 /\ Wrap \in Nat
    BY Sizes DEF Index
  <2>2. QED
    BY <2>1, PlusMod DEF Advance
<1>3. QED
  BY <1>1, <1>2, Sizes DEF Empty, Full, Index

(* A byte more.                                                            *)
LEMMA OneMore ==
    ASSUME Index, Count < PIPESIZE, nwrite' = Advance(nwrite, 1), nread' = nread
    PROVE  Index' /\ Count' = Count + 1
<1>1. nwrite' = IF nwrite + 1 >= Wrap THEN nwrite + 1 - Wrap ELSE nwrite + 1
  <2>1. 1 \in 0 .. Wrap - 1 /\ nwrite \in 0 .. Wrap - 1 /\ Wrap \in Nat
    BY Sizes DEF Index
  <2>2. QED
    BY <2>1, PlusMod DEF Advance
<1>2. Index'
  BY <1>1, Sizes DEF Index
<1>3. Count' = IF nwrite' >= nread' THEN nwrite' - nread' ELSE nwrite' - nread' + Wrap
  BY <1>2, MinusMod, Sizes DEF Count, Index
<1>4. QED
  BY <1>1, <1>2, <1>3, Counting, Sizes DEF Index

(* n bytes fewer.                                                          *)
LEMMA SomeFewer ==
    ASSUME Index, NEW n \in 0 .. Count, nread' = Advance(nread, n), nwrite' = nwrite
    PROVE  Index' /\ Count' = Count - n
<1>1. nread' = IF nread + n >= Wrap THEN nread + n - Wrap ELSE nread + n
  <2>1. n \in 0 .. Wrap - 1 /\ nread \in 0 .. Wrap - 1 /\ Wrap \in Nat
    BY Sizes, Counting DEF Index
  <2>2. QED
    BY <2>1, PlusMod DEF Advance
<1>2. Index'
  BY <1>1, Sizes, Counting DEF Index
<1>3. Count' = IF nwrite' >= nread' THEN nwrite' - nread' ELSE nwrite' - nread' + Wrap
  BY <1>2, MinusMod, Sizes DEF Count, Index
<1>4. QED
  BY <1>1, <1>2, <1>3, Counting, Sizes DEF Index

-----------------------------------------------------------------------------
(* The invariant.                                                          *)
LEMMA Roles ==
    ASSUME PipeInv, NEW p \in Procs
    PROVE  /\ p \in Readers <=> p \notin Writers
           /\ End(p) \in {"read", "write"} /\ (End(p) = "read" <=> p \in Readers)
           /\ op[p] = "read" => p \in Readers
           /\ op[p] = "write" => p \in Writers
           /\ Index
  BY UserAssumption DEF PipeInv, PipeTypeOK, UsersAgree, End, Index

LEMMA InitPipe == Init => PipeInv
<1> SUFFICES ASSUME Init PROVE PipeInv
  OBVIOUS
<1>1. /\ nread = 0 /\ nwrite = 0 /\ readopen = TRUE /\ writeopen = TRUE /\ inuse = TRUE /\ plock = Nobody
      /\ \A p \in Procs : pc[p] = "user" /\ op[p] = "none"
  BY DEF Init, PipeInit
<1>2. PipeTypeOK
  <2>1. (CHOOSE p \in Procs : TRUE) \in Procs
    BY UserAssumption
  <2>2. data \in [0 .. PIPESIZE - 1 -> Procs]
    BY <2>1 DEF Init, PipeInit
  <2>3. QED
    BY <1>1, <2>2, Sizes DEF Init, PipeInit, PipeTypeOK, Places
<1>3. Count = 0
  BY <1>1, Counting, Sizes DEF Index, Empty
<1>4. NeverLapped
  BY <1>3, Sizes DEF NeverLapped
<1>5. UsersAgree /\ WakeupsArrive
  BY <1>1, UserAssumption, NobodyAssumption DEF UsersAgree, WakeupsArrive, Working
<1>6. QED
  BY <1>2, <1>4, <1>5 DEF PipeInv

(* A call begins.                                                          *)
LEMMA UseStep ==
    ASSUME PipeInv, NEW p \in Procs, Use(p) PROVE PipeInv'
<1> USE UserAssumption, NobodyAssumption DEF PipeInv, Use, Call, ring, ends, call
<1>1. PipeTypeOK' /\ NeverLapped'
  <2>1. PICK n \in Nat : Call(p, End(p), n)
    BY CountAssumption
  <2>2. op' \in [Procs -> {"none", "read", "write", "pipe", "close", "exit"}]
    BY <2>1, Roles DEF PipeTypeOK
  <2>3. left' \in [Procs -> Nat] /\ pc' \in [Procs -> Places]
    BY <2>1 DEF PipeTypeOK, Places
  <2>4. QED
    BY <2>1, <2>2, <2>3 DEF PipeTypeOK, NeverLapped, Count
<1>2. UsersAgree'
  BY DEF PipeTypeOK, UsersAgree, Working, End, Empty, Full
<1>3. WakeupsArrive'
  BY DEF PipeTypeOK, UsersAgree, Working, End, WakeupsArrive, AboutToWake, Holding, Empty, Full
<1>4. QED
  BY <1>1, <1>2, <1>3

(* The lock is taken.                                                      *)
LEMMA AcquireStep ==
    ASSUME PipeInv, NEW p \in Procs, Acquire(p) PROVE PipeInv'
<1> USE UserAssumption, NobodyAssumption DEF PipeInv, Acquire, ring, ends, call
<1>1. PipeTypeOK' /\ NeverLapped'
  BY CountAssumption DEF PipeTypeOK, Places, NeverLapped, Count, Working
<1>2. UsersAgree'
  BY DEF PipeTypeOK, UsersAgree, Working, End, Empty, Full
<1>3. WakeupsArrive'
  BY DEF PipeTypeOK, UsersAgree, Working, End, WakeupsArrive, AboutToWake, Holding, Empty, Full
<1>4. QED
  BY <1>1, <1>2, <1>3

(* pipewrite gives up.                                                     *)
LEMMA WriteGivesUpStep ==
    ASSUME PipeInv, NEW p \in Procs, WriteGivesUp(p) PROVE PipeInv'
<1> USE UserAssumption, NobodyAssumption DEF PipeInv, WriteGivesUp, Holding, Return, ring, ends, call
<1>1. PipeTypeOK' /\ NeverLapped'
  BY CountAssumption DEF PipeTypeOK, Places, NeverLapped, Count, Working
<1>2. UsersAgree'
  BY DEF PipeTypeOK, UsersAgree, Working, End, Empty, Full
<1>3. WakeupsArrive'
  BY DEF PipeTypeOK, UsersAgree, Working, End, WakeupsArrive, AboutToWake, Holding, Empty, Full
<1>4. QED
  BY <1>1, <1>2, <1>3

(* A writer over a full pipe wakes the readers.                            *)
LEMMA WriteFullStep ==
    ASSUME PipeInv, NEW p \in Procs, WriteFull(p) PROVE PipeInv'
<1> USE UserAssumption, NobodyAssumption DEF PipeInv, WriteFull, Holding, Wakeup, Sleeping, ring, ends, call
<1>1. PipeTypeOK' /\ NeverLapped'
  BY CountAssumption DEF PipeTypeOK, Places, NeverLapped, Count, Working
<1>2. UsersAgree'
  BY DEF PipeTypeOK, UsersAgree, Working, End, Empty, Full
<1>3. WakeupsArrive'
  BY DEF PipeTypeOK, UsersAgree, Working, End, WakeupsArrive, AboutToWake, Holding, Empty, Full
<1>4. QED
  BY <1>1, <1>2, <1>3

(* So does one that is done.                                               *)
LEMMA WriteEndStep ==
    ASSUME PipeInv, NEW p \in Procs, WriteEnd(p) PROVE PipeInv'
<1> USE UserAssumption, NobodyAssumption DEF PipeInv, WriteEnd, Holding, Return, Wakeup, Sleeping, ring, ends, call
<1>1. PipeTypeOK' /\ NeverLapped'
  BY CountAssumption DEF PipeTypeOK, Places, NeverLapped, Count, Working
<1>2. UsersAgree'
  BY DEF PipeTypeOK, UsersAgree, Working, End, Empty, Full
<1>3. WakeupsArrive'
  BY DEF PipeTypeOK, UsersAgree, Working, End, WakeupsArrive, AboutToWake, Holding, Empty, Full
<1>4. QED
  BY <1>1, <1>2, <1>3

(* piperead gives up.                                                      *)
LEMMA ReadGivesUpStep ==
    ASSUME PipeInv, NEW p \in Procs, ReadGivesUp(p) PROVE PipeInv'
<1> USE UserAssumption, NobodyAssumption DEF PipeInv, ReadGivesUp, Holding, Return, ring, ends, call
<1>1. PipeTypeOK' /\ NeverLapped'
  BY CountAssumption DEF PipeTypeOK, Places, NeverLapped, Count, Working
<1>2. UsersAgree'
  BY DEF PipeTypeOK, UsersAgree, Working, End, Empty, Full
<1>3. WakeupsArrive'
  BY DEF PipeTypeOK, UsersAgree, Working, End, WakeupsArrive, AboutToWake, Holding, Empty, Full
<1>4. QED
  BY <1>1, <1>2, <1>3

(* piperead finds nothing.                                                 *)
LEMMA ReadEmptyStep ==
    ASSUME PipeInv, NEW p \in Procs, ReadEmpty(p) PROVE PipeInv'
<1> USE UserAssumption, NobodyAssumption DEF PipeInv, ReadEmpty, Holding, ring, ends, call
<1>1. PipeTypeOK' /\ NeverLapped'
  BY CountAssumption DEF PipeTypeOK, Places, NeverLapped, Count, Working
<1>2. UsersAgree'
  BY DEF PipeTypeOK, UsersAgree, Working, End, Empty, Full
<1>3. WakeupsArrive'
  BY DEF PipeTypeOK, UsersAgree, Working, End, WakeupsArrive, AboutToWake, Holding, Empty, Full
<1>4. QED
  BY <1>1, <1>2, <1>3

(* sleep() gives the lock up.                                              *)
LEMMA SleepStep ==
    ASSUME PipeInv, NEW p \in Procs, Sleep(p) PROVE PipeInv'
<1> USE UserAssumption, NobodyAssumption DEF PipeInv, Sleep, ring, ends, call
<1>1. PipeTypeOK' /\ NeverLapped'
  BY CountAssumption DEF PipeTypeOK, Places, NeverLapped, Count, Working
<1>2. UsersAgree'
  BY DEF PipeTypeOK, UsersAgree, Working, End, Empty, Full
<1>3. WakeupsArrive'
  BY DEF PipeTypeOK, UsersAgree, Working, End, WakeupsArrive, AboutToWake, Holding, Empty, Full
<1>4. QED
  BY <1>1, <1>2, <1>3

(* kill().                                                                 *)
LEMMA KillStep ==
    ASSUME PipeInv, NEW p \in Procs, pc[p] # "busy", Kill(p) PROVE PipeInv'
<1> USE UserAssumption, NobodyAssumption DEF PipeInv, Kill, ring, ends, call
<1>1. PipeTypeOK' /\ NeverLapped'
  BY CountAssumption DEF PipeTypeOK, Places, NeverLapped, Count, Working
<1>2. UsersAgree'
  BY DEF PipeTypeOK, UsersAgree, Working, End, Empty, Full
<1>3. WakeupsArrive'
  BY DEF PipeTypeOK, UsersAgree, Working, End, WakeupsArrive, AboutToWake, Holding, Empty, Full
<1>4. QED
  BY <1>1, <1>2, <1>3

(* The last to leave an end closes it.                                     *)
LEMMA LeaveStep ==
    ASSUME PipeInv, NEW p \in Procs, Leave(p) PROVE PipeInv'
<1> USE UserAssumption, NobodyAssumption DEF PipeInv, ring, ends, call
<1> DEFINE Last == \A q \in Procs \ {p} : End(q) = End(p) => pc[q] = "busy"
<1>1. pc[p] = "user" /\ ~Working(p) /\ plock # p
  BY DEF Leave, UsersAgree, Working
<1>2. CASE ~Last
  <2>1. pc' = [pc EXCEPT ![p] = "busy"] /\ UNCHANGED <<ring, ends, plock, call, killed>>
    BY <1>2 DEF Leave
  <2>2. PipeTypeOK' /\ NeverLapped'
    BY <2>1 DEF PipeTypeOK, Places, NeverLapped, Count
  <2>3. UsersAgree'
    BY <2>1, <1>1 DEF PipeTypeOK, UsersAgree, Working, End, Empty, Full
  <2>4. WakeupsArrive'
    BY <2>1, <1>1 DEF PipeTypeOK, WakeupsArrive, AboutToWake, Holding, Empty, Full
  <2>5. QED
    BY <2>2, <2>3, <2>4
<1>3. CASE Last
  <2>1. CloseEnd(p, End(p))
    BY <1>3 DEF Leave
  <2>2. /\ plock = Nobody /\ UNCHANGED <<data, nread, nwrite, plock, op, left, killed>>
        /\ writeopen' \in BOOLEAN /\ readopen' \in BOOLEAN /\ inuse' \in BOOLEAN
        /\ p \in Readers => (writeopen' <=> writeopen) /\ ~readopen'
        /\ p \in Writers => (readopen' <=> readopen) /\ ~writeopen'
    BY <2>1, Roles DEF CloseEnd, StillUsed, PipeTypeOK
  <2>3. /\ pc' \in [Procs -> Places] /\ pc'[p] = "busy"
        /\ \A q \in Procs \ {p} :
             pc'[q] = IF pc[q] = "asleep" /\ op[q] # End(p) THEN "acquire" ELSE pc[q]
    <3>1. \A q \in Procs : pc[q] = "asleep" => op[q] = End(q)
      BY DEF UsersAgree, Working
    <3>2. \A q \in Procs : Sleeping(q, Opposite(End(p))) <=> (pc[q] = "asleep" /\ op[q] # End(p))
      BY <3>1, Roles DEF Sleeping, Opposite
    <3>3. QED
      BY <2>1, <3>2 DEF CloseEnd, Wakeup, PipeTypeOK, Places
  <2>4. PipeTypeOK' /\ NeverLapped'
    BY <2>2, <2>3 DEF PipeTypeOK, NeverLapped, Count
  <2>5. \A q \in Procs \ {p} : pc[q] # "busy" => End(q) # End(p)
    BY <1>3
  <2>6. UsersAgree'
    <3> SUFFICES ASSUME NEW q \in Procs
                 PROVE  /\ pc'[q] \in {"user", "acquire", "hold", "drowsy", "asleep", "busy"}
                        /\ op'[q] = IF Working(q)' THEN End(q) ELSE "none"
                        /\ plock' = q <=> pc'[q] \in {"hold", "drowsy"}
                        /\ pc'[q] # "busy" => (IF q \in Readers THEN readopen' ELSE writeopen')
                        /\ pc'[q] = "drowsy" =>
                             IF q \in Readers THEN Empty' /\ writeopen' ELSE Full' /\ readopen'
      BY DEF UsersAgree, End
    <3>1. CASE q = p
      BY <1>1, <2>2, <2>3, <3>1 DEF UsersAgree, Working
    <3>2. CASE q # p
      <4>1. pc'[q] \in {"user", "acquire", "hold", "drowsy", "asleep", "busy"}
        BY <2>3, <3>2 DEF UsersAgree
      <4>2. Working(q)' <=> Working(q)
        BY <2>3, <3>2 DEF Working
      <4>3. plock = Nobody /\ pc[q] \notin {"hold", "drowsy"}
        BY <2>2 DEF UsersAgree
      <4>4. pc'[q] \notin {"hold", "drowsy"}
        BY <2>3, <3>2, <4>3
      <4>5. pc'[q] # "busy" => (IF q \in Readers THEN readopen' ELSE writeopen')
        BY <2>2, <2>3, <2>5, <3>2 DEF UsersAgree, End
      <4>6. QED
        BY <2>2, <4>1, <4>2, <4>3, <4>4, <4>5 DEF UsersAgree
    <3>3. QED
      BY <3>1, <3>2
  <2>7. WakeupsArrive'
    <3>1. \A q \in Procs : pc'[q] = "asleep" => q # p /\ pc[q] = "asleep" /\ End(q) = End(p)
      BY <2>3 DEF UsersAgree, Working
    <3>2. \A q \in Procs : pc'[q] # "asleep"
      BY <3>1, <2>5
    <3>3. QED
      BY <3>2 DEF WakeupsArrive
  <2>8. QED
    BY <2>4, <2>6, <2>7
<1>4. QED
  BY <1>2, <1>3

(* A byte is stored.                                                       *)
LEMMA WriteByteStep ==
    ASSUME PipeInv, NEW p \in Procs, WriteByte(p) PROVE PipeInv'
<1> USE UserAssumption, NobodyAssumption DEF PipeInv, WriteByte, ends, Holding
<1>1. Index' /\ Count' = Count + 1 /\ Count < PIPESIZE
  <2>1. Index /\ Count \in 0 .. Wrap - 1 /\ Count # PIPESIZE
    BY Roles, Counting
  <2>2. Count < PIPESIZE
    BY <2>1, Sizes DEF NeverLapped
  <2>3. QED
    BY <2>1, <2>2, OneMore
<1>2. PipeTypeOK'
  <2>1. nwrite % PIPESIZE \in 0 .. PIPESIZE - 1
    BY DivMod, Sizes DEF PipeTypeOK
  <2>2. data' \in [0 .. PIPESIZE - 1 -> Procs] /\ left' \in [Procs -> Nat]
    BY <2>1 DEF PipeTypeOK
  <2>3. QED
    BY <1>1, <2>2 DEF PipeTypeOK, Index
<1>3. NeverLapped'
  BY <1>1, Roles, Counting, Sizes DEF NeverLapped
<1>4. UsersAgree'
  BY DEF PipeTypeOK, UsersAgree, Working, End
<1>5. WakeupsArrive'
  <2>1. \A q \in Writers : pc[q] # "asleep"
    BY DEF WakeupsArrive
  <2>2. AboutToWake("write")'
    BY DEF AboutToWake, UsersAgree
  <2>3. QED
    BY <2>1, <2>2 DEF WakeupsArrive
<1>6. QED
  BY <1>2, <1>3, <1>4, <1>5

(* What is there is taken, and the writers are woken.                      *)
LEMMA ReadBytesStep ==
    ASSUME PipeInv, NEW p \in Procs, ReadBytes(p) PROVE PipeInv'
<1> USE UserAssumption, NobodyAssumption DEF PipeInv, ReadBytes, ends, Holding, Return, Wakeup, Sleeping
<1>1. PICK n \in 0 .. Count : n = Least(left[p], Count) /\ nread' = Advance(nread, n)
  BY Roles, Counting DEF Least, PipeTypeOK
<1>2. Index' /\ Count' = Count - n
  BY <1>1, Roles, SomeFewer
<1>3. PipeTypeOK'
  BY <1>2 DEF PipeTypeOK, Index, Places
<1>4. NeverLapped'
  BY <1>1, <1>2, Roles, Counting, Sizes DEF NeverLapped
<1>5. UsersAgree'
  BY DEF PipeTypeOK, UsersAgree, Working, End
<1>6. WakeupsArrive'
  <2>1. \A q \in Writers : pc'[q] # "asleep"
    BY DEF PipeTypeOK, UsersAgree, Working, End
  <2>2. \A q \in Readers : pc'[q] = "asleep" => pc[q] = "asleep"
    BY DEF PipeTypeOK
  <2>3. Count = 0 => Count' = 0
    BY <1>1, <1>2
  <2>4. Empty => Empty'
    <3>1. ASSUME Empty PROVE Empty'
      <4>1. Count = 0 /\ Count' = 0
        BY <3>1, <2>3, Roles, Counting
      <4>2. Count' = IF nwrite' >= nread' THEN nwrite' - nread' ELSE nwrite' - nread' + Wrap
        BY <1>2, MinusMod, Sizes DEF Count, Index
      <4>3. QED
        BY <1>2, <4>1, <4>2, Sizes DEF Empty, Index
    <3>2. QED
      BY <3>1
  <2>5. ~AboutToWake("write")
    BY DEF AboutToWake, UsersAgree
  <2>6. QED
    BY <2>1, <2>2, <2>4, <2>5 DEF WakeupsArrive
<1>7. QED
  BY <1>3, <1>4, <1>5, <1>6

LEMMA StepPipe == PipeInv /\ [Next]_vars => PipeInv'
<1> SUFFICES ASSUME PipeInv, [Next]_vars PROVE PipeInv'
  OBVIOUS
<1>1. ASSUME NEW p \in Procs, InKernel(p) PROVE PipeInv'
  BY <1>1, WriteByteStep, WriteGivesUpStep, WriteFullStep, WriteEndStep, ReadGivesUpStep,
     ReadEmptyStep, SleepStep, ReadBytesStep DEF InKernel, Silent
<1>2. ASSUME NEW p \in Procs, Use(p) \/ Acquire(p) \/ Leave(p) \/ (pc[p] # "busy" /\ Kill(p))
      PROVE  PipeInv'
  BY <1>2, UseStep, AcquireStep, LeaveStep, KillStep
<1>3. CASE UNCHANGED vars
  BY <1>3 DEF vars, pvars, ring, ends, call, PipeInv, PipeTypeOK, NeverLapped, Count, UsersAgree,
              Working, End, Empty, Full, WakeupsArrive, AboutToWake, Holding
<1>4. QED
  BY <1>1, <1>2, <1>3 DEF Next

(* The invariant of the pipe: its type, that the writers never lap the     *)
(* readers, that places, calls, lock and open ends agree, and that who     *)
(* sleeps has a reason to (pipe.c).                                        *)
THEOREM PipeInvariant == Spec => []PipeInv
<1>1. QED
  BY InitPipe, StepPipe, PTL DEF Spec

(* However the two counters wrap, the ring never holds more than PIPESIZE  *)
(* bytes (pipewrite, pipe.c).                                              *)
THEOREM RingBound == Spec => []NeverLapped
<1>1. PipeInv => NeverLapped
  BY DEF PipeInv
<1>2. QED
  BY <1>1, PipeInvariant, PTL

(* No wake-up is lost between pipewrite, piperead and pipeclose: a writer  *)
(* sleeps only while the pipe is full and open, a reader only while it is  *)
(* empty and open, or about to be woken, or after a writer was killed.     *)
THEOREM NoWakeupLost == Spec => []WakeupsArrive
<1>1. PipeInv => WakeupsArrive
  BY DEF PipeInv
<1>2. QED
  BY <1>1, PipeInvariant, PTL

-----------------------------------------------------------------------------
(* The ring as a queue: the place after the last byte.                     *)
LEMMA Place ==
    ASSUME Index PROVE nwrite % PIPESIZE = (nread + Count) % PIPESIZE
<1>1. Wrap \in Nat /\ PIPESIZE \in Nat /\ PIPESIZE > 0 /\ Wrap % PIPESIZE = 0 /\ nwrite \in Int /\ nread \in Int
  BY SizeAssumption DEF Index
<1>2. (nwrite + Wrap) % PIPESIZE = nwrite % PIPESIZE
  BY <1>1, Multiple
<1>3. nread + Count = nwrite \/ nread + Count = nwrite + Wrap
  BY <1>1, Counting
<1>4. QED
  BY <1>2, <1>3

(* It holds none of the bytes of the pipe, unless that is full.            *)
LEMMA Apart ==
    ASSUME Index, Count < PIPESIZE, NEW i \in 1 .. Count
    PROVE  (nread + i - 1) % PIPESIZE # nwrite % PIPESIZE
<1> DEFINE a == nread + i - 1  k == Count - i + 1
<1>1. a \in Int /\ k \in 1 .. PIPESIZE - 1 /\ a + k = nread + Count
  BY Counting, Sizes DEF Index
<1>2. (a + k) % PIPESIZE # a % PIPESIZE
  <2> HIDE DEF a, k
  <2>1. QED
    BY <1>1, Distinct, Sizes
<1>3. QED
  BY <1>1, <1>2, Place

(* The bytes of the pipe are a sequence.                                   *)
LEMMA Queue ==
    ASSUME PipeTypeOK, NEW n \in Nat
    PROVE  Oldest(n) \in Seq(Procs) /\ Len(Oldest(n)) = n /\ DOMAIN Oldest(n) = 1 .. n
<1>1. \A i \in 1 .. n : (nread + i - 1) % PIPESIZE \in 0 .. PIPESIZE - 1
  BY DivMod, Sizes DEF PipeTypeOK
<1>2. Oldest(n) \in [1 .. n -> Procs]
  BY <1>1 DEF Oldest, PipeTypeOK
<1>3. QED
  BY <1>2, SeqDef, LenProperties

(* A byte stored is the last one.                                          *)
LEMMA Stored ==
    ASSUME PipeInv, NEW p \in Procs, Count < PIPESIZE, nread' = nread,
           nwrite' = Advance(nwrite, 1), data' = [data EXCEPT ![nwrite % PIPESIZE] = p]
    PROVE  Oldest(Count)' = Append(Oldest(Count), p)
<1>1. PipeTypeOK /\ Index
  BY DEF PipeInv, PipeTypeOK, Index
<1>2. Count' = Count + 1 /\ Count \in Nat
  BY <1>1, OneMore, Counting
<1> DEFINE q == Oldest(Count)
<1>3. q \in Seq(Procs) /\ Len(q) = Count /\ q = [i \in 1 .. Count |-> data[(nread + i - 1) % PIPESIZE]]
  BY <1>1, <1>2, Queue DEF Oldest
<1>4. Oldest(Count)' = [i \in 1 .. Count + 1 |-> data'[(nread + i - 1) % PIPESIZE]]
  BY <1>2 DEF Oldest
<1>5. \A i \in 1 .. Count : data'[(nread + i - 1) % PIPESIZE] = q[i]
  <2> SUFFICES ASSUME NEW i \in 1 .. Count PROVE data'[(nread + i - 1) % PIPESIZE] = q[i]
    OBVIOUS
  <2>1. (nread + i - 1) % PIPESIZE \in 0 .. PIPESIZE - 1 /\ (nread + i - 1) % PIPESIZE # nwrite % PIPESIZE
    <3>1. nread + i - 1 \in Int /\ PIPESIZE \in Nat /\ PIPESIZE > 0
      BY <1>1, <1>2, SizeAssumption DEF Index
    <3>2. (nread + i - 1) % PIPESIZE \in 0 .. PIPESIZE - 1
      BY <3>1, DivMod
    <3>3. QED
      BY <1>1, <3>2, Apart
  <2>2. QED
    BY <1>1, <1>3, <2>1 DEF PipeTypeOK
<1>6. data'[(nread + (Count + 1) - 1) % PIPESIZE] = p
  <2>1. nwrite % PIPESIZE \in 0 .. PIPESIZE - 1
    BY <1>1, DivMod, Sizes DEF Index
  <2>2. nread + (Count + 1) - 1 = nread + Count
    BY <1>1, <1>2 DEF Index
  <2>3. (nread + (Count + 1) - 1) % PIPESIZE = nwrite % PIPESIZE
    BY <1>1, <2>2, Place
  <2>4. QED
    BY <1>1, <2>1, <2>3 DEF PipeTypeOK
<1>7. Append(q, p) = [i \in 1 .. Count + 1 |-> IF i = Count + 1 THEN p ELSE q[i]]
  <2> HIDE DEF q
  <2>1. QED
    BY <1>2, <1>3
<1>8. \A i \in 1 .. Count + 1 : data'[(nread + i - 1) % PIPESIZE] = IF i = Count + 1 THEN p ELSE q[i]
  <2> HIDE DEF q
  <2>1. \A i \in 1 .. Count + 1 : i = Count + 1 \/ i \in 1 .. Count
    BY <1>2
  <2>2. QED
    BY <1>5, <1>6, <2>1
<1> HIDE DEF q
<1>9. QED
  BY <1>4, <1>7, <1>8 DEF q

(* What is taken is the first n bytes, and the rest remain.                *)
LEMMA Taken ==
    ASSUME PipeInv, NEW n \in 0 .. Count, nread' = Advance(nread, n), nwrite' = nwrite, data' = data
    PROVE  /\ Oldest(n) = SubSeq(Oldest(Count), 1, n)
           /\ Oldest(Count)' = SubSeq(Oldest(Count), n + 1, Count)
<1>1. PipeTypeOK /\ Index
  BY DEF PipeInv, PipeTypeOK, Index
<1>2. Count' = Count - n /\ Count \in Nat /\ n \in Nat
  BY <1>1, SomeFewer, Counting
<1> DEFINE q == Oldest(Count)
<1>3. q \in Seq(Procs) /\ Len(q) = Count /\ q = [i \in 1 .. Count |-> data[(nread + i - 1) % PIPESIZE]]
  BY <1>1, <1>2, Queue DEF Oldest
<1>4. SubSeq(q, 1, n) = [i \in 1 .. n |-> q[i]]
  <2> HIDE DEF q
  <2>1. SubSeq(q, 1, n) = [i \in 1 .. (1 + n - 1) |-> q[i + 1 - 1]]
    BY <1>2, <1>3
  <2>2. QED
    BY <2>1, <1>2
<1>5. Oldest(n) = SubSeq(q, 1, n)
  BY <1>2, <1>3, <1>4 DEF Oldest
<1>6. SubSeq(q, n + 1, Count) = [i \in 1 .. Count - n |-> q[i + n]]
  <2> HIDE DEF q
  <2>1. QED
    BY <1>2, <1>3
<1>7. \A i \in 1 .. Count - n : (nread' + i - 1) % PIPESIZE = (nread + (i + n) - 1) % PIPESIZE
  <2> SUFFICES ASSUME NEW i \in 1 .. Count - n
               PROVE  (nread' + i - 1) % PIPESIZE = (nread + (i + n) - 1) % PIPESIZE
    OBVIOUS
  <2>1. nread' = nread + n \/ nread' = nread + n - Wrap
    <3>1. n \in 0 .. Wrap - 1 /\ nread \in 0 .. Wrap - 1 /\ Wrap \in Nat
      BY <1>1, <1>2, Counting, Sizes DEF Index
    <3>2. QED
      BY <3>1, PlusMod DEF Advance
  <2>2. nread' \in Int /\ nread \in Int /\ i \in Int /\ n \in Int /\ Wrap \in Int
    BY <1>1, <1>2, <2>1, Sizes DEF Index
  <2>3. nread + (i + n) - 1 = nread' + i - 1 \/ nread + (i + n) - 1 = (nread' + i - 1) + Wrap
    BY <2>1, <2>2
  <2>4. ((nread' + i - 1) + Wrap) % PIPESIZE = (nread' + i - 1) % PIPESIZE
    <3> DEFINE a == nread' + i - 1
    <3>1. a \in Int /\ PIPESIZE \in Nat /\ PIPESIZE > 0 /\ Wrap \in Nat /\ Wrap % PIPESIZE = 0
      BY <2>2, SizeAssumption
    <3> HIDE DEF a
    <3>2. (a + Wrap) % PIPESIZE = a % PIPESIZE
      BY <3>1, Multiple
    <3>3. QED
      BY <3>2 DEF a
  <2>5. QED
    BY <2>3, <2>4
<1>8. Oldest(Count)' = [i \in 1 .. Count - n |-> data[(nread + (i + n) - 1) % PIPESIZE]]
  <2>1. Oldest(Count)' = [i \in 1 .. Count - n |-> data[(nread' + i - 1) % PIPESIZE]]
    BY <1>2 DEF Oldest
  <2>2. QED
    BY <2>1, <1>7
<1>9. \A i \in 1 .. Count - n : i + n \in 1 .. Count
  BY <1>2
<1>10. QED
  BY <1>3, <1>5, <1>6, <1>8, <1>9

-----------------------------------------------------------------------------
Asked == [p \in Readers |-> left[p]]

(* The steps that move no byte are silent, or end a call of a reader, or   *)
(* close an end.                                                           *)
LEMMA Unseen ==
    ASSUME UNCHANGED <<ring, Asked>>,
           readopen' \in {FALSE, readopen}, writeopen' \in {FALSE, writeopen}, out' = NoResult
    PROVE  S!Next
<1>1. Oldest(Count)' = Oldest(Count)
  BY DEF ring, Oldest, Count
<1>2. S!Close
  BY <1>1 DEF S!Close, S!Quiet, S!Result, NoResult, Result, Asked
<1>3. QED
  BY <1>2 DEF S!Next

(* A read that begins or gives up.                                         *)
LEMMA Begins ==
    ASSUME PipeInv, UNCHANGED <<ring, readopen, writeopen>>, NEW p \in Readers, NEW n \in ReadCounts \cup {0},
           left' = [left EXCEPT ![p] = n], out' = NoResult
    PROVE  S!Next
<1>1. Oldest(Count)' = Oldest(Count)
  BY DEF ring, Oldest, Count
<1>2. Asked' = [Asked EXCEPT ![p] = n]
  BY UserAssumption DEF PipeInv, PipeTypeOK, Asked
<1>3. S!Ask(p)
  BY <1>1, <1>2 DEF S!Ask, S!Quiet, S!Result, NoResult, Result, Asked
<1>4. QED
  BY <1>3 DEF S!Next

LEMMA PutStep ==
    ASSUME PipeInv, NEW p \in Procs, WriteByte(p), out' = NoResult PROVE S!Next
<1>1. p \in Writers /\ p \notin Readers /\ Index
  BY Roles DEF WriteByte, Holding
<1>2. Count \in Nat /\ Count < PIPESIZE
  BY <1>1, Counting, Sizes DEF WriteByte, PipeInv, NeverLapped
<1>3. Oldest(Count)' = Append(Oldest(Count), p)
  BY <1>2, Stored DEF WriteByte
<1>4. Len(Oldest(Count)) = Count
  BY <1>2, Queue DEF PipeInv
<1>5. writeopen
  BY <1>1 DEF WriteByte, Holding, PipeInv, UsersAgree
<1>6. Asked' = Asked
  BY <1>1, UserAssumption DEF WriteByte, PipeInv, PipeTypeOK, Asked
<1>7. S!Put(p)
  BY <1>2, <1>3, <1>4, <1>5, <1>6 DEF S!Put, S!Quiet, S!Result, NoResult, Result, WriteByte, ends, Asked
<1>8. QED
  BY <1>1, <1>7 DEF S!Next

LEMMA TakeStep ==
    ASSUME PipeInv, NEW p \in Procs, ReadBytes(p) PROVE S!Next
<1>1. p \in Readers /\ Index
  BY Roles DEF ReadBytes, Holding
<1>2. Count \in Nat /\ left[p] \in Nat /\ PipeTypeOK
  BY <1>1, Counting DEF PipeInv, PipeTypeOK
<1> DEFINE n == Least(left[p], Count)  q == Oldest(Count)
<1>3. n \in 0 .. Count
  BY <1>2 DEF Least
<1>4. nread' = Advance(nread, n) /\ nwrite' = nwrite /\ data' = data /\ out' = Result(p, Oldest(n))
  BY DEF ReadBytes
<1>5. Oldest(n) = SubSeq(q, 1, n) /\ Oldest(Count)' = SubSeq(q, n + 1, Count)
  <2> HIDE DEF n
  <2>1. QED
    BY <1>3, <1>4, Taken
<1>6. Len(q) = Count
  BY <1>2, Queue
<1>7. q # <<>> \/ ~writeopen
  <2>1. Empty <=> Count = 0
    BY <1>1, Counting
  <2>2. Count = 0 \/ q # <<>>
    <3>1. Len(<<>>) = 0
      BY EmptySeq
    <3>2. QED
      BY <1>6, <3>1
  <2>3. QED
    BY <2>1, <2>2 DEF ReadBytes
<1>8. Asked' = [Asked EXCEPT ![p] = 0] /\ Asked[p] = left[p]
  BY <1>1, UserAssumption DEF ReadBytes, Return, PipeInv, PipeTypeOK, Asked
<1>9. n = IF Asked[p] < Len(q) THEN Asked[p] ELSE Len(q)
  BY <1>6, <1>8 DEF Least
<1>10. UNCHANGED <<readopen, writeopen>>
  BY DEF ReadBytes, ends
<1> HIDE DEF n
<1>11. S!Take(p)
  BY <1>4, <1>5, <1>6, <1>7, <1>8, <1>9, <1>10 DEF S!Take, S!Result, Result, Asked
<1>12. QED
  BY <1>1, <1>11 DEF S!Next

LEMMA SilentStep ==
    ASSUME PipeInv, NEW p \in Procs, Silent(p), out' = NoResult PROVE S!Next
<1> USE DEF ring, ends, call
<1>1. CASE WriteByte(p)
  BY <1>1, PutStep
<1>2. CASE WriteGivesUp(p) \/ WriteEnd(p)
  <2>1. p \notin Readers
    BY <1>2, Roles DEF WriteGivesUp, WriteEnd, Holding
  <2>2. Asked' = Asked
    BY <1>2, <2>1, UserAssumption DEF WriteGivesUp, WriteEnd, Return, Asked, PipeInv, PipeTypeOK
  <2>3. QED
    BY <1>2, <2>2, Unseen DEF WriteGivesUp, WriteEnd
<1>3. CASE WriteFull(p) \/ ReadEmpty(p) \/ Sleep(p)
  BY <1>3, Unseen DEF WriteFull, ReadEmpty, Sleep, Asked
<1>4. CASE ReadGivesUp(p)
  <2>1. p \in Readers
    BY <1>4, Roles DEF ReadGivesUp, Holding
  <2>2. QED
    BY <1>4, <2>1, Begins DEF ReadGivesUp, Return
<1>5. QED
  BY <1>1, <1>2, <1>3, <1>4 DEF Silent

LEMMA OtherStep ==
    ASSUME PipeInv, NEW p \in Procs,
           Use(p) \/ Acquire(p) \/ Leave(p) \/ (pc[p] # "busy" /\ Kill(p)), out' = NoResult
    PROVE  S!Next
<1> USE DEF ring, ends, call
<1>1. CASE Use(p)
  <2>1. CASE p \in Readers
    <3>1. PICK n \in ReadCounts : Call(p, End(p), n)
      BY <1>1, <2>1 DEF Use
    <3>2. QED
      BY <3>1, <2>1, Begins DEF Call
  <2>2. CASE p \notin Readers
    <3>1. Asked' = Asked
      BY <1>1, <2>2, UserAssumption DEF Use, Call, Asked, PipeInv, PipeTypeOK
    <3>2. QED
      BY <1>1, <3>1, Unseen DEF Use, Call
  <2>3. QED
    BY <2>1, <2>2
<1>2. CASE Acquire(p) \/ Kill(p)
  BY <1>2, Unseen DEF Acquire, Kill, Asked
<1>3. CASE Leave(p)
  <2>1. UNCHANGED <<data, nread, nwrite, left>>
    BY <1>3 DEF Leave, CloseEnd
  <2>2. readopen' \in {FALSE, readopen} /\ writeopen' \in {FALSE, writeopen}
    BY <1>3 DEF Leave, CloseEnd, PipeInv, PipeTypeOK
  <2>3. QED
    BY <2>1, <2>2, Unseen DEF Asked
<1>4. QED
  BY <1>1, <1>2, <1>3

(* The pipe implements the stream of bytes: what is read is what was       *)
(* written, in order and once each, and an end of file comes after the     *)
(* last byte (pipewrite, piperead, pipeclose).                             *)
THEOREM PipeIsStream == Spec => ImplementsByteStream
<1>1. Init => S!Init
  <2> SUFFICES ASSUME Init PROVE S!Init
    OBVIOUS
  <2>1. PipeInv /\ Count = 0
    BY InitPipe, Counting DEF Init, PipeInit, PipeInv, PipeTypeOK, Index, Empty
  <2>2. Oldest(Count) = <<>>
    <3>1. Oldest(0) \in Seq(Procs) /\ Len(Oldest(0)) = 0
      BY <2>1, Queue DEF PipeInv
    <3>2. QED
      BY <2>1, <3>1, EmptySeq
  <2>3. readopen = TRUE /\ writeopen = TRUE /\ out = NoResult /\ Asked = [p \in Readers |-> 0]
    BY UserAssumption DEF Init, PipeInit, Asked
  <2>4. QED
    BY <2>2, <2>3 DEF S!Init, S!Quiet, S!Result, NoResult, Result, Asked
<1>2. PipeInv /\ [Next]_vars => [S!Next]_(S!vars)
  <2> SUFFICES ASSUME PipeInv, [Next]_vars PROVE [S!Next]_(S!vars)
    OBVIOUS
  <2>1. ASSUME NEW p \in Procs, InKernel(p) PROVE S!Next
    BY <2>1, TakeStep, SilentStep DEF InKernel
  <2>2. ASSUME NEW p \in Procs, out' = NoResult,
               Use(p) \/ Acquire(p) \/ Leave(p) \/ (pc[p] # "busy" /\ Kill(p))
        PROVE  S!Next
    BY <2>2, OtherStep
  <2>3. CASE UNCHANGED vars
    BY <2>3 DEF vars, pvars, ring, ends, call, S!vars, Oldest, Count
  <2>4. QED
    BY <2>1, <2>2, <2>3 DEF Next
<1>3. QED
  BY <1>1, <1>2, PipeInvariant, PTL DEF Spec, ImplementsByteStream, S!Spec
===============================================================================
