------------------------------- MODULE LogProofs -------------------------------
(***************************************************************************)
(* For any number of processes, blocks and any size of the log: a commit   *)
(* overlaps no operation, nobody is left asleep in begin_op, and what      *)
(* begin_op reserves suffices.                                             *)
(***************************************************************************)
EXTENDS Log, FiniteSetTheorems, TLAPS

(* The set of processes inside an operation is finite, so log.outstanding  *)
(* counts them.                                                            *)
LEMMA InsideFinite ==
    IsFiniteSet(Inside) /\ Cardinality(Inside) \in Nat /\ (Cardinality(Inside) = 0 <=> Inside = {})
<1>1. Inside \subseteq Ops
  BY DEF Inside
<1>2. IsFiniteSet(Inside)
  BY <1>1, OpsAssumption, FS_Subset
<1>3. QED
  BY <1>2, FS_CardinalityType, FS_EmptySet

(* A machine that has just been started, before its recovery.              *)
LEMMA InitLog == Init => LogInv
<1> SUFFICES ASSUME Init PROVE LogInv
  OBVIOUS
<1>1. Inside = {} /\ \A p \in Ops : pc[p] = "out"
  BY DEF Init, Boot, Inside
<1>2. Cardinality(Inside) = 0
  BY <1>1, FS_EmptySet
<1>3. QED
  BY <1>1, <1>2 DEF Init, Boot, LogInv, CountsAgree, LogInUse, NobodyStranded, Committing, Places

(* A crash forgets the counters and the processes alike.                   *)
LEMMA CrashStep ==
    ASSUME LogInv, Crash PROVE LogInv'
<1>1. Inside' = {} /\ \A p \in Ops : pc'[p] = "out"
  BY DEF Crash, Inside
<1>2. Cardinality(Inside') = 0
  BY <1>1, FS_EmptySet
<1>3. QED
  BY <1>1, <1>2 DEF Crash, LogInv, CountsAgree, LogInUse, NobodyStranded, Committing, Places, Inside

(* Recovery happens with nobody in the file system.                        *)
LEMMA RecoverStep ==
    ASSUME LogInv, RecoverBlock \/ RecoverEnd PROVE LogInv'
<1>1. UNCHANGED <<pc, outstanding, committing>> /\ \A p \in Ops : pc[p] = "out"
  BY DEF RecoverBlock, RecoverEnd, InstallBlock, LogInv, procs
<1>2. Inside' = Inside
  BY <1>1 DEF Inside
<1>3. CASE RecoverBlock
  BY <1>1, <1>2, <1>3 DEF RecoverBlock, LogInv, CountsAgree, LogInUse, NobodyStranded, Committing
<1>4. CASE RecoverEnd
  BY <1>1, <1>2, <1>4 DEF RecoverEnd, LogInv, CountsAgree, LogInUse, NobodyStranded, Committing
<1>5. QED
  BY <1>3, <1>4

(* begin_op lets p in: one more inside, and no commit is under way.        *)
LEMMA EnterStep ==
    ASSUME LogInv, NEW p \in Ops, Enter(p) PROVE LogInv'
<1>1. p \notin Inside /\ Inside' = Inside \cup {p} /\ ~committing /\ UNCHANGED <<committing, lh, mode>>
  BY DEF Enter, Admits, Inside, LogInv
<1>2. outstanding = Cardinality(Inside) /\ outstanding \in Nat
  BY InsideFinite DEF LogInv, CountsAgree
<1>3. outstanding' = Cardinality(Inside')
  BY <1>1, <1>2, InsideFinite, FS_AddElement DEF Enter
<1>4. \A q \in Ops : Committing(q)' <=> Committing(q)
  BY DEF Enter, Committing, LogInv
<1>5. CountsAgree'
  BY <1>1, <1>3, <1>4 DEF LogInv, CountsAgree
<1>6. LogInUse' /\ NobodyStranded'
  BY <1>1, <1>2 DEF Enter, LogInv, LogInUse, NobodyStranded
<1>7. QED
  BY <1>1, <1>5, <1>6 DEF Enter, LogInv, Places

(* Those that stay outside, or stay inside, move no counter.  A process    *)
(* goes to sleep only if somebody is inside or commits: an idle log is     *)
(* empty, and has room for one operation.                                  *)
LEMMA StayStep ==
    ASSUME LogInv, NEW p \in Ops, Begin(p) \/ Wait(p) PROVE LogInv'
<1>1. /\ Inside' = Inside
      /\ UNCHANGED <<outstanding, committing, lh, mode>>
      /\ \A q \in Ops : Committing(q)' <=> Committing(q)
  BY DEF Begin, Wait, Inside, Committing, LogInv, memory
<1>2. CountsAgree' /\ LogInUse'
  BY <1>1 DEF Begin, Wait, LogInv, CountsAgree, LogInUse
<1>3. CASE Begin(p)
  BY <1>1, <1>2, <1>3 DEF Begin, LogInv, NobodyStranded, Places
<1>4. ASSUME Wait(p) PROVE outstanding > 0 \/ committing
  <2> SUFFICES ASSUME outstanding = 0, ~committing PROVE FALSE
    BY InsideFinite DEF LogInv, CountsAgree
  <2>1. lh = <<>>
    BY <1>4 DEF Wait, LogInv, LogInUse
  <2>2. Len(lh) + (outstanding + 1) * MAXOPBLOCKS = MAXOPBLOCKS
    BY <2>1, LogAssumption
  <2>3. QED
    BY <1>4, <2>2, LogAssumption DEF Wait, Admits
<1>5. CASE Wait(p)
  BY <1>1, <1>2, <1>4, <1>5 DEF Wait, LogInv, NobodyStranded, Places
<1>6. QED
  BY <1>3, <1>5

(* log_write: p stays inside, or the machine stops.                        *)
LEMMA WriteStep ==
    ASSUME LogInv, NEW p \in Ops,
           Record(p) \/ \E b \in Blocks, v \in Values : Modify(p, b, v)
    PROVE  LogInv'
<1>1. /\ UNCHANGED <<outstanding, committing>>
      /\ pc[p] \in {"in", "logging"} /\ mode = "run" /\ mode' # "recover"
      /\ pc' = pc \/ \E s \in {"in", "logging"} : pc' = [pc EXCEPT ![p] = s]
  BY DEF Record, Modify
<1>2. Inside' = Inside /\ p \in Inside /\ \A q \in Ops : Committing(q)' <=> Committing(q)
  BY <1>1 DEF Inside, Committing, LogInv
<1>3. outstanding > 0 /\ ~committing /\ \A q \in Ops : ~Committing(q)
  BY <1>2, InsideFinite DEF LogInv, CountsAgree
<1>4. pc' \in [Ops -> Places] /\ \A q \in Ops : pc'[q] = "asleep" => pc[q] = "asleep"
  BY <1>1 DEF LogInv, Places
<1>5. CountsAgree'
  BY <1>1, <1>2 DEF LogInv, CountsAgree
<1>6. LogInUse' /\ NobodyStranded'
  BY <1>1, <1>2, <1>3, <1>4 DEF LogInUse, NobodyStranded, Committing
<1>7. QED
  BY <1>1, <1>4, <1>5, <1>6 DEF LogInv

(* end_op: one fewer inside, and either everybody is woken or p commits.   *)
LEMMA LeaveStep ==
    ASSUME LogInv, NEW p \in Ops, Leave(p) PROVE LogInv'
<1>1. p \in Inside /\ ~committing /\ mode = "run" /\ lh' = lh
  BY DEF Leave, Inside, LogInv, CountsAgree
<1>2. outstanding = Cardinality(Inside) /\ outstanding \in Nat /\ outstanding > 0
  BY <1>1, InsideFinite DEF LogInv, CountsAgree
<1>3. Cardinality(Inside \ {p}) = outstanding - 1
  BY <1>1, <1>2, InsideFinite, FS_RemoveElement
<1>4. outstanding' = outstanding - 1 /\ mode' = mode
  BY <1>1 DEF Leave
<1>5. \A q \in Ops : ~Committing(q)
  BY <1>1 DEF LogInv, CountsAgree
<1>6. CASE outstanding' = 0
  <2>1. /\ committing' = TRUE
        /\ pc' = [pc EXCEPT ![p] = IF lh = <<>> THEN "finish" ELSE "write"]
    BY <1>1, <1>6 DEF Leave
  <2>2. Inside' = Inside \ {p} /\ Inside' = {}
    <3>1. Inside' = Inside \ {p}
      BY <2>1 DEF Inside, LogInv
    <3>2. Inside' = {}
      BY <3>1, <1>3, <1>4, <1>6, <1>2, InsideFinite, FS_RemoveElement, FS_EmptySet
    <3>3. QED
      BY <3>1, <3>2
  <2>3. \A q \in Ops : Committing(q)' <=> q = p
    BY <2>1, <1>5 DEF Committing, LogInv
  <2>4. CountsAgree'
    BY <2>1, <2>2, <2>3, <1>3, <1>4 DEF CountsAgree
  <2>5. LogInUse' /\ NobodyStranded'
    BY <2>1, <1>1, <1>5 DEF LogInUse, NobodyStranded, Committing, LogInv
  <2>6. QED
    BY <2>1, <2>4, <2>5, <1>1, <1>4 DEF LogInv, Places
<1>7. CASE outstanding' # 0
  <2>1. committing' = FALSE /\ pc' = [Wakeup EXCEPT ![p] = "out"]
    BY <1>1, <1>7 DEF Leave, LogInv
  <2>2. \A q \in Ops : pc'[q] = IF q = p THEN "out" ELSE IF pc[q] = "asleep" THEN "begin" ELSE pc[q]
    BY <2>1 DEF Wakeup
  <2>3. Inside' = Inside \ {p} /\ \A q \in Ops : ~Committing(q)' /\ pc'[q] # "asleep"
    BY <2>2, <1>5 DEF Inside, Committing
  <2>4. CountsAgree'
    BY <2>1, <2>3, <1>3, <1>4 DEF CountsAgree
  <2>5. LogInUse' /\ NobodyStranded'
    BY <2>3, <1>2, <1>4, <1>7 DEF LogInUse, NobodyStranded, Committing
  <2>6. pc' \in [Ops -> Places]
    BY <2>1 DEF Wakeup, LogInv, Places
  <2>7. QED
    BY <2>1, <2>4, <2>5, <2>6, <1>1, <1>4 DEF LogInv
<1>8. QED
  BY <1>6, <1>7

(* commit(): p goes on alone, clears the log, and wakes everybody.         *)
LEMMA CommitStep ==
    ASSUME LogInv, NEW p \in Ops, Committer(p) PROVE LogInv'
<1>1. Committing(p) /\ committing /\ mode = "run" /\ UNCHANGED <<outstanding, mode>>
  BY DEF Committer, WriteLog, WriteHead, Install, InstallBlock, ClearHead, Finish,
         LogInv, CountsAgree, Committing, memory
<1>2. Inside = {} /\ \A q \in Ops : Committing(q) => q = p
  BY <1>1 DEF LogInv, CountsAgree
<1>3. CASE Finish(p)
  <2>1. committing' = FALSE /\ lh' = lh /\ lh = <<>>
    BY <1>3 DEF Finish, LogInv, LogInUse
  <2>2. \A q \in Ops : pc'[q] = IF q = p THEN "out" ELSE IF pc[q] = "asleep" THEN "begin" ELSE pc[q]
    BY <1>3 DEF Finish, Wakeup
  <2>3. Inside' = Inside /\ \A q \in Ops : ~Committing(q)' /\ pc'[q] # "asleep"
    BY <2>2, <1>1, <1>2 DEF Inside, Committing
  <2>4. pc' \in [Ops -> Places]
    BY <1>3 DEF Finish, Wakeup, LogInv, Places
  <2>5. QED
    BY <1>1, <2>1, <2>3, <2>4 DEF LogInv, CountsAgree, LogInUse, NobodyStranded, Committing
<1>4. CASE ~Finish(p)
  <2>1. /\ committing' = committing
        /\ \E s \in {"write", "head", "install", "clear", "finish"} :
             pc' = [pc EXCEPT ![p] = s] /\ (s = "finish" => lh' = <<>>)
    BY <1>4 DEF Committer, WriteLog, WriteHead, Install, InstallBlock, ClearHead, LogInv, memory
  <2>2. /\ pc' \in [Ops -> Places]
        /\ \A q \in Ops : q # p => pc'[q] = pc[q]
        /\ Committing(p)' /\ (pc'[p] = "finish" => lh' = <<>>)
    BY <2>1 DEF LogInv, Places, Committing
  <2>3. Inside' = Inside /\ \A q \in Ops : Committing(q)' <=> q = p
    BY <2>2, <1>1, <1>2 DEF Inside, Committing
  <2>4. CountsAgree'
    BY <2>1, <2>3, <1>1, <1>2 DEF LogInv, CountsAgree
  <2>5. LogInUse' /\ NobodyStranded'
    BY <2>1, <2>2, <2>3, <1>1 DEF LogInUse, NobodyStranded, Committing
  <2>6. QED
    BY <1>1, <2>1, <2>2, <2>4, <2>5 DEF LogInv
<1>5. QED
  BY <1>3, <1>4

(* Every step preserves the invariant.                                     *)
LEMMA StepLog == LogInv /\ [Next]_vars => LogInv'
<1> SUFFICES ASSUME LogInv, [Next]_vars PROVE LogInv'
  OBVIOUS
<1>1. CASE UNCHANGED vars
  BY <1>1 DEF vars, memory, procs, LogInv, CountsAgree, LogInUse, NobodyStranded, Committing, Inside
<1>2. ASSUME NEW p \in Ops, Operation(p) PROVE LogInv'
  BY <1>2, EnterStep, StayStep, WriteStep, LeaveStep DEF Operation
<1>3. QED
  BY <1>1, <1>2, CrashStep, RecoverStep, CommitStep DEF Next

-----------------------------------------------------------------------------
(* log.outstanding and log.committing always agree with where the          *)
(* processes are, crashes and recoveries included.                         *)
THEOREM LogInvariant == Spec => []LogInv
<1>1. QED
  BY InitLog, StepLog, PTL DEF Spec

(* A commit never overlaps an operation or another commit.                 *)
THEOREM CommitsAlone == Spec => []CommitIsExclusive
<1>1. LogInv => CommitIsExclusive
  <2> SUFFICES ASSUME LogInv, NEW p \in Ops, Committing(p), NEW q \in Ops \ {p}
               PROVE  pc[q] \in {"out", "begin", "asleep"}
    BY DEF CommitIsExclusive
  <2>1. ~Committing(q) /\ q \notin Inside
    BY DEF LogInv, CountsAgree
  <2>2. QED
    BY <2>1 DEF LogInv, Places, Committing, Inside
<1>2. QED
  BY <1>1, LogInvariant, PTL

(* Nobody stays asleep in begin_op once the log is idle.                   *)
THEOREM SleepersHaveReason == Spec => []NobodyStranded
<1>1. LogInv => NobodyStranded
  BY DEF LogInv
<1>2. QED
  BY <1>1, LogInvariant, PTL

-----------------------------------------------------------------------------
(* The space of the log.                                                   *)

(* The blocks of one operation: a pair for each.                           *)
LEMMA OwnBlocks ==
    ASSUME NEW p, NEW W, IsFiniteSet(W)
    PROVE  IsFiniteSet({p} \X W) /\ Cardinality({p} \X W) = Cardinality(W)
<1>1. IsFiniteSet({p}) /\ Cardinality({p}) = 1
  BY FS_Singleton
<1>2. Cardinality(W) \in Nat
  BY FS_CardinalityType
<1>3. QED
  BY <1>1, <1>2, FS_Product

(* Writes stays bounded as long as no operation logs more than OpBlocks.   *)
LEMMA BoundKept ==
    ASSUME ReserveInv, NEW p \in Ops, wrote' \in [Ops -> SUBSET Blocks],
           \A q \in Ops \ {p} : wrote'[q] = wrote[q],
           IsFiniteSet(wrote'[p]), Cardinality(wrote'[p]) <= OpBlocks,
           NEW ops \in SUBSET Ops
    PROVE  IsFiniteSet(Writes(ops)') /\ Cardinality(Writes(ops)') <= Cardinality(ops) * OpBlocks
<1>1. CASE p \notin ops
  <2>1. Writes(ops)' = Writes(ops)
    BY <1>1 DEF Writes
  <2>2. QED
    BY <2>1 DEF ReserveInv
<1>2. CASE p \in ops
  <2> DEFINE others == ops \ {p}
             own == {p} \X wrote'[p]
  <2>1. Writes(ops)' = Writes(others) \cup own
    <3>1. \A q \in others : wrote'[q] = wrote[q]
      OBVIOUS
    <3>2. wrote'[p] \subseteq Blocks
      OBVIOUS
    <3>3. QED
      BY <1>2, <3>1, <3>2 DEF Writes
  <2>2. IsFiniteSet(Writes(others)) /\ Cardinality(Writes(others)) <= Cardinality(others) * OpBlocks
    BY DEF ReserveInv
  <2>3. IsFiniteSet(own) /\ Cardinality(own) <= OpBlocks
    BY OwnBlocks
  <2>4. IsFiniteSet(ops) /\ Cardinality(ops) = Cardinality(others) + 1 /\ Cardinality(others) \in Nat
    <3>1. IsFiniteSet(ops)
      BY OpsAssumption, FS_Subset
    <3>2. IsFiniteSet(others) /\ Cardinality(others) = Cardinality(ops) - 1
      BY <1>2, <3>1, FS_RemoveElement
    <3>3. QED
      BY <3>1, <3>2, FS_CardinalityType
  <2>5. /\ IsFiniteSet(Writes(ops)')
        /\ Cardinality(Writes(ops)') <= Cardinality(Writes(others)) + Cardinality(own)
    <3>1. IsFiniteSet(Writes(others) \cap own)
      BY <2>2, FS_Subset
    <3>2. /\ Cardinality(Writes(others)) \in Nat /\ Cardinality(own) \in Nat
          /\ Cardinality(Writes(others) \cap own) \in Nat
      BY <2>2, <2>3, <3>1, FS_CardinalityType
    <3> HIDE DEF own, others
    <3>3. /\ IsFiniteSet(Writes(others) \cup own)
          /\ Cardinality(Writes(others) \cup own)
               = Cardinality(Writes(others)) + Cardinality(own) - Cardinality(Writes(others) \cap own)
      BY <2>2, <2>3, FS_Union
    <3>4. QED
      BY <2>1, <3>2, <3>3
  <2> HIDE DEF own, others
  <2>6. /\ Cardinality(Writes(others)) \in Nat /\ Cardinality(own) \in Nat
        /\ Cardinality(Writes(ops)') \in Nat
    BY <2>2, <2>3, <2>5, FS_CardinalityType
  <2>7. (Cardinality(others) + 1) * OpBlocks = Cardinality(others) * OpBlocks + OpBlocks
    BY <2>4, LogAssumption
  <2>8. Cardinality(others) * OpBlocks \in Nat
    BY <2>4, LogAssumption
  <2>9. QED
    BY <2>2, <2>3, <2>4, <2>5, <2>6, <2>7, <2>8, LogAssumption
<1>3. QED
  BY <1>1, <1>2

(* The pairs are finitely many, so that they can be counted.               *)
LEMMA LoggedFinite ==
    ASSUME ReserveInv
    PROVE  IsFiniteSet(Logged) /\ Cardinality(Logged) \in Nat
           /\ Cardinality(Logged) <= Cardinality(Inside) * OpBlocks
<1>1. Inside \in SUBSET Ops /\ Logged \in SUBSET Writes(Inside)
  BY DEF Inside, Logged
<1>2. IsFiniteSet(Writes(Inside)) /\ Cardinality(Writes(Inside)) <= Cardinality(Inside) * OpBlocks
  BY <1>1 DEF ReserveInv
<1>3. IsFiniteSet(Logged) /\ Cardinality(Logged) <= Cardinality(Writes(Inside))
  BY <1>1, <1>2, FS_Subset
<1>4. Cardinality(Logged) \in Nat /\ Cardinality(Writes(Inside)) \in Nat /\ Cardinality(Inside) * OpBlocks \in Nat
  BY <1>2, <1>3, FS_CardinalityType, InsideFinite, LogAssumption
<1>5. QED
  BY <1>2, <1>3, <1>4

(* Operations that have logged nothing.                                    *)
LEMMA NothingWritten ==
    ASSUME NEW ops \in SUBSET Ops, \A p \in ops : wrote[p] = {}
    PROVE  IsFiniteSet(Writes(ops)) /\ Cardinality(Writes(ops)) <= Cardinality(ops) * OpBlocks
<1>1. Writes(ops) = {}
  BY DEF Writes
<1>2. IsFiniteSet(Writes(ops)) /\ Cardinality(Writes(ops)) = 0
  BY <1>1, FS_EmptySet
<1>3. Cardinality(ops) \in Nat /\ OpBlocks \in Nat
  BY OpsAssumption, LogAssumption, FS_Subset, FS_CardinalityType
<1>4. Cardinality(ops) * OpBlocks \in Nat
  BY <1>3
<1>5. QED
  BY <1>2, <1>4

(* A machine that has just been started.                                   *)
LEMMA InitReserve == Init => ReserveInv
<1> SUFFICES ASSUME Init PROVE ReserveInv
  OBVIOUS
<1>1. \A p \in Ops : pc[p] = "out" /\ wrote[p] = {}
  BY DEF Init, Boot
<1>2. IsFiniteSet({}) /\ Cardinality({}) = 0 /\ OpBlocks \in Nat
  BY FS_EmptySet, LogAssumption
<1>3. \A p \in Ops : IsFiniteSet(wrote[p]) /\ Cardinality(wrote[p]) <= OpBlocks
  BY <1>1, <1>2
<1>4. ASSUME NEW ops \in SUBSET Ops
      PROVE  IsFiniteSet(Writes(ops)) /\ Cardinality(Writes(ops)) <= Cardinality(ops) * OpBlocks
  BY <1>1, NothingWritten
<1>6. mode = "recover" /\ lh \in Seq(Blocks) /\ header \in Seq(Blocks) /\ wrote \in [Ops -> SUBSET Blocks]
      /\ blk = [p \in Ops |-> blk[p]]
  BY DEF Init, Boot
<1>7. QED
  BY <1>1, <1>3, <1>4, <1>6 DEF ReserveInv

(* Steps that log nothing keep the bound.                                  *)
LEMMA SameWrites ==
    ASSUME ReserveInv, wrote' = wrote
    PROVE  \A ops \in SUBSET Ops :
             IsFiniteSet(Writes(ops)') /\ Cardinality(Writes(ops)') <= Cardinality(ops) * OpBlocks
<1>1. \A ops : Writes(ops)' = Writes(ops)
  BY DEF Writes
<1>2. QED
  BY <1>1 DEF ReserveInv

(* An operation that begins has logged nothing.                            *)
LEMMA BeginReserve ==
    ASSUME LogInv, ReserveInv, NEW p \in Ops, Begin(p) PROVE ReserveInv'
<1>1. /\ wrote' = [wrote EXCEPT ![p] = {}] /\ pc' = [pc EXCEPT ![p] = "begin"] /\ pc[p] = "out"
      /\ UNCHANGED <<lh, header, blk, mode, outstanding>>
  BY DEF Begin, memory, disk
<1>2. wrote \in [Ops -> SUBSET Blocks] /\ pc \in [Ops -> Places]
  BY DEF ReserveInv, LogInv
<1>3. wrote' \in [Ops -> SUBSET Blocks] /\ wrote'[p] = {}
      /\ \A q \in Ops \ {p} : wrote'[q] = wrote[q] /\ pc'[q] = pc[q]
  BY <1>1, <1>2
<1>4. IsFiniteSet(wrote'[p]) /\ Cardinality(wrote'[p]) <= OpBlocks
  BY <1>3, FS_EmptySet, LogAssumption
<1>5. \A ops \in SUBSET Ops :
         IsFiniteSet(Writes(ops)') /\ Cardinality(Writes(ops)') <= Cardinality(ops) * OpBlocks
  BY <1>3, <1>4, BoundKept
<1>6. Inside' = Inside /\ p \notin Inside
  BY <1>1, <1>2 DEF Inside
<1>7. Logged' = Logged
  BY <1>1, <1>3, <1>6 DEF Logged, Writes, Absorbed, Inside
<1>8. QED
  BY <1>1, <1>2, <1>3, <1>4, <1>5, <1>7 DEF ReserveInv

(* Steps that write no block and leave the log and who is inside alone.    *)
LEMMA QuietReserve ==
    ASSUME LogInv, ReserveInv,
           UNCHANGED <<lh, blk, wrote, mode, outstanding>>, Inside' = Inside,
           header' \in Seq(Blocks),
           \A q \in Ops : pc'[q] \in {"begin", "asleep"} => pc[q] \in {"begin", "asleep"},
           \A q \in Ops : pc'[q] = "logging" => pc[q] = "logging"
    PROVE  ReserveInv'
<1>1. Logged' = Logged
  BY DEF Logged, Writes, Absorbed
<1>2. QED
  BY <1>1, SameWrites DEF ReserveInv

(* begin_op reserves MAXOPBLOCKS.                                          *)
LEMMA EnterReserve ==
    ASSUME LogInv, ReserveInv, NEW p \in Ops, Enter(p) PROVE ReserveInv'
<1>1. /\ outstanding' = outstanding + 1 /\ mode = "run" /\ mode' = mode
      /\ pc' = [pc EXCEPT ![p] = "in"]
      /\ Len(lh) + (outstanding + 1) * MAXOPBLOCKS <= LOGSIZE
      /\ UNCHANGED <<lh, header, blk, wrote>>
  BY DEF Enter, Admits, disk
<1>2. outstanding \in Nat /\ Len(lh) \in Nat
  BY InsideFinite DEF LogInv, CountsAgree, ReserveInv
<1>3. Logged' \in SUBSET Writes(Ops)'
  BY DEF Logged, Writes, Inside
<1>4. Cardinality(Logged') \in Nat
  <2>1. IsFiniteSet(Writes(Ops)')
    BY <1>1, SameWrites
  <2>2. QED
    BY <1>3, <2>1, FS_Subset, FS_CardinalityType
<1>5. Len(lh') + outstanding' * MAXOPBLOCKS <= LOGSIZE + Cardinality(Logged')
  <2>1. (outstanding + 1) * MAXOPBLOCKS \in Nat
    BY <1>2, LogAssumption
  <2>2. QED
    BY <1>1, <1>2, <1>4, <2>1, LogAssumption
<1>6. \A q \in Ops : /\ pc'[q] \in {"begin", "asleep"} => pc[q] \in {"begin", "asleep"}
                     /\ pc'[q] = "logging" => pc[q] = "logging"
  BY <1>1 DEF LogInv
<1>7. QED
  BY <1>1, <1>5, <1>6, SameWrites DEF ReserveInv

(* What is recorded was reserved: the operation's own block is new in the  *)
(* log, or the log does not grow.                                          *)
LEMMA RecordReserve ==
    ASSUME LogInv, ReserveInv, NEW p \in Ops, Record(p) PROVE ReserveInv'
<1>1. /\ mode = "run" /\ pc[p] = "logging" /\ pc' = [pc EXCEPT ![p] = "in"]
      /\ lh' = IF Absorbed(blk[p]) THEN lh ELSE Append(lh, blk[p])
      /\ UNCHANGED <<header, outstanding, blk, wrote, mode>>
  BY DEF Record, disk
<1>2. /\ lh \in Seq(Blocks) /\ wrote \in [Ops -> SUBSET Blocks] /\ blk[p] \in wrote[p]
      /\ blk[p] \in Blocks
  BY <1>1 DEF ReserveInv
<1>3. Inside' = Inside /\ p \in Inside
  BY <1>1 DEF Inside, LogInv
<1>4. lh' \in Seq(Blocks) /\ Len(lh') \in Nat /\ Len(lh) \in Nat
  BY <1>1, <1>2
<1>5. IsFiniteSet(Logged') /\ Cardinality(Logged') \in Nat /\ IsFiniteSet(Logged) /\ Cardinality(Logged) \in Nat
  <2>1. Logged' \in SUBSET Writes(Inside)
    BY <1>1, <1>3 DEF Logged, Writes
  <2>2. IsFiniteSet(Writes(Inside))
    BY DEF ReserveInv, Inside
  <2>3. QED
    BY <2>1, <2>2, FS_Subset, FS_CardinalityType, LoggedFinite
<1>6. Len(lh') - Len(lh) <= Cardinality(Logged') - Cardinality(Logged)
  <2>1. CASE Absorbed(blk[p])
    <3>1. Logged' = Logged /\ lh' = lh
      BY <1>1, <1>3, <2>1 DEF Logged, Writes, Absorbed
    <3>2. QED
      BY <1>4, <1>5, <3>1
  <2>2. CASE ~Absorbed(blk[p])
    <3> DEFINE w == <<p, blk[p]>>
    <3>1. lh' = Append(lh, blk[p]) /\ Len(lh') = Len(lh) + 1
      BY <1>1, <1>2, <2>2
    <3>2. \A b : Absorbed(b)' <=> Absorbed(b) \/ b = blk[p]
      BY <1>2, <3>1 DEF Absorbed
    <3>3. w \in Logged' /\ w \notin Logged /\ Logged \subseteq Logged'
      BY <1>1, <1>2, <1>3, <2>2, <3>2 DEF Logged, Writes
    <3>4. Logged \in SUBSET (Logged' \ {w})
      BY <3>3
    <3> HIDE DEF w
    <3>5. IsFiniteSet(Logged' \ {w}) /\ Cardinality(Logged' \ {w}) = Cardinality(Logged') - 1
      BY <1>5, <3>3, FS_RemoveElement
    <3>6. Cardinality(Logged) <= Cardinality(Logged' \ {w})
      BY <3>4, <3>5, FS_Subset
    <3>7. QED
      BY <1>4, <1>5, <3>1, <3>5, <3>6
  <2>3. QED
    BY <2>1, <2>2
<1>7. outstanding * MAXOPBLOCKS \in Nat
  BY InsideFinite, LogAssumption DEF LogInv, CountsAgree
<1>8. Len(lh') + outstanding' * MAXOPBLOCKS <= LOGSIZE + Cardinality(Logged')
  BY <1>1, <1>4, <1>5, <1>6, <1>7, LogAssumption DEF ReserveInv
<1>9. \A q \in Ops : /\ pc'[q] \in {"begin", "asleep"} => pc[q] \in {"begin", "asleep"}
                     /\ pc'[q] = "logging" => pc[q] = "logging"
  BY <1>1 DEF LogInv
<1>10. QED
  BY <1>1, <1>4, <1>8, <1>9, SameWrites DEF ReserveInv

(* log_write counts as an operation of its own, or the machine stops.      *)
LEMMA ModifyReserve ==
    ASSUME LogInv, ReserveInv, NEW p \in Ops, NEW b \in Blocks, NEW v \in Values, Modify(p, b, v)
    PROVE  ReserveInv'
<1>1. p \in Inside /\ mode = "run" /\ (b \in wrote[p] \/ Cardinality(wrote[p]) < OpBlocks)
      /\ UNCHANGED <<header, lh, outstanding>>
  BY DEF Modify, Inside, disk
<1>2. outstanding \in Nat /\ outstanding >= 1 /\ outstanding = Cardinality(Inside)
  BY <1>1, InsideFinite DEF LogInv, CountsAgree
<1>3. CASE LogFull
  <2>1. UNCHANGED <<pc, blk, wrote>> /\ mode' = "panic"
    BY <1>3 DEF Modify
  <2>2. QED
    BY <1>1, <2>1, SameWrites DEF ReserveInv
<1> SUFFICES ASSUME ~LogFull PROVE ReserveInv'
  BY <1>3
<1>4. /\ mode' = mode /\ pc' = [pc EXCEPT ![p] = "logging"] /\ blk' = [blk EXCEPT ![p] = b]
      /\ wrote' = [wrote EXCEPT ![p] = @ \cup {b}]
  BY <1>2, <1>3 DEF Modify
<1>5. /\ wrote' \in [Ops -> SUBSET Blocks] /\ wrote'[p] = wrote[p] \cup {b}
      /\ \A q \in Ops \ {p} : wrote'[q] = wrote[q] /\ pc'[q] = pc[q] /\ blk'[q] = blk[q]
      /\ blk'[p] = b /\ pc'[p] = "logging" /\ blk' = [q \in Ops |-> blk'[q]]
  BY <1>4 DEF ReserveInv, LogInv
<1>6. IsFiniteSet(wrote'[p]) /\ Cardinality(wrote'[p]) <= OpBlocks
  <2>1. IsFiniteSet(wrote[p]) /\ Cardinality(wrote[p]) <= OpBlocks /\ Cardinality(wrote[p]) \in Nat
    BY FS_CardinalityType DEF ReserveInv
  <2>2. /\ IsFiniteSet(wrote[p] \cup {b})
        /\ Cardinality(wrote[p] \cup {b}) = IF b \in wrote[p] THEN Cardinality(wrote[p])
                                            ELSE Cardinality(wrote[p]) + 1
    BY <2>1, FS_AddElement
  <2>3. QED
    BY <1>1, <1>5, <2>1, <2>2, LogAssumption
<1>7. \A ops \in SUBSET Ops :
         IsFiniteSet(Writes(ops)') /\ Cardinality(Writes(ops)') <= Cardinality(ops) * OpBlocks
  BY <1>5, <1>6, BoundKept
<1>8. Inside' = Inside
  BY <1>1, <1>5 DEF Inside
<1>9. Cardinality(Logged) <= Cardinality(Logged') /\ Cardinality(Logged') \in Nat /\ Cardinality(Logged) \in Nat
  <2>1. Logged \in SUBSET (Logged') /\ Logged' \in SUBSET (Writes(Inside)')
    <3>1. \A q \in Ops : wrote[q] \subseteq wrote'[q]
      BY <1>5
    <3>2. \A c : Absorbed(c)' <=> Absorbed(c)
      BY <1>1 DEF Absorbed
    <3>3. \A w \in Writes(Inside) : w \in Writes(Inside)'
      BY <1>8, <3>1 DEF Writes, Inside
    <3>4. QED
      BY <3>2, <3>3 DEF Logged
  <2>2. IsFiniteSet(Writes(Inside)')
    BY <1>7, <1>8 DEF Inside
  <2>3. IsFiniteSet(Logged')
    BY <2>1, <2>2, FS_Subset
  <2>4. QED
    BY <2>1, <2>3, FS_Subset, FS_CardinalityType, LoggedFinite
<1>10. Len(lh') + outstanding' * MAXOPBLOCKS <= LOGSIZE + Cardinality(Logged')
  <2>1. Len(lh) \in Nat /\ outstanding * MAXOPBLOCKS \in Nat
    BY <1>2, LogAssumption DEF ReserveInv
  <2>2. QED
    BY <1>1, <1>9, <2>1, LogAssumption DEF ReserveInv
<1>11. QED
  BY <1>1, <1>4, <1>5, <1>6, <1>7, <1>10 DEF ReserveInv

(* end_op gives back as much as the operation can have used.               *)
LEMMA LeaveReserve ==
    ASSUME LogInv, ReserveInv, NEW p \in Ops, Leave(p) PROVE ReserveInv'
<1>1. p \in Inside /\ ~committing /\ mode = "run"
  BY DEF Leave, Inside, LogInv, CountsAgree
<1>2. /\ mode' = mode /\ outstanding' = outstanding - 1
      /\ UNCHANGED <<lh, header, blk, wrote>>
  BY <1>1 DEF Leave, disk
<1>3. outstanding \in Nat /\ outstanding >= 1
  BY <1>1, InsideFinite DEF LogInv, CountsAgree
<1>4. \A q \in Ops : pc'[q] = IF q = p THEN pc'[p]
                             ELSE IF pc[q] = "asleep" /\ outstanding' # 0 THEN "begin" ELSE pc[q]
  BY <1>1 DEF Leave, Wakeup, LogInv
<1>5. pc'[p] \in {"out", "finish", "write"}
  BY <1>1 DEF Leave, Wakeup, LogInv
<1>6. Inside' = Inside \ {p}
  BY <1>4, <1>5 DEF Inside
<1>7. /\ IsFiniteSet(Logged') /\ Cardinality(Logged') \in Nat
      /\ Cardinality(Logged) <= Cardinality(Logged') + OpBlocks
      /\ Cardinality(Logged) \in Nat
  <2> DEFINE own == {p} \X wrote[p]
  <2>1. Logged \in SUBSET (Logged' \cup own) /\ Logged' \in SUBSET Logged
    BY <1>2, <1>6 DEF Logged, Writes, Absorbed
  <2>2. IsFiniteSet(Logged) /\ IsFiniteSet(Logged')
    BY <2>1, LoggedFinite, FS_Subset
  <2>3. IsFiniteSet(wrote[p]) /\ Cardinality(wrote[p]) <= OpBlocks
    BY DEF ReserveInv
  <2>4. IsFiniteSet(own) /\ Cardinality(own) <= OpBlocks
    BY <2>3, OwnBlocks
  <2> HIDE DEF own
  <2>5. IsFiniteSet(Logged' \cap own)
    BY <2>2, FS_Subset
  <2>6. /\ IsFiniteSet(Logged' \cup own)
        /\ Cardinality(Logged' \cup own)
             = Cardinality(Logged') + Cardinality(own) - Cardinality(Logged' \cap own)
    BY <2>2, <2>4, FS_Union
  <2>7. Cardinality(Logged) <= Cardinality(Logged' \cup own)
    BY <2>1, <2>6, FS_Subset
  <2>8. /\ Cardinality(Logged) \in Nat /\ Cardinality(Logged') \in Nat
        /\ Cardinality(own) \in Nat /\ Cardinality(Logged' \cap own) \in Nat
    BY <2>2, <2>4, <2>5, FS_CardinalityType
  <2>9. QED
    BY <2>2, <2>4, <2>6, <2>7, <2>8, LogAssumption
<1>8. Len(lh') + outstanding' * MAXOPBLOCKS <= LOGSIZE + Cardinality(Logged')
  <2>1. /\ outstanding - 1 \in Nat /\ outstanding * MAXOPBLOCKS \in Nat
        /\ (outstanding - 1) * MAXOPBLOCKS \in Nat
        /\ (outstanding - 1) * MAXOPBLOCKS = outstanding * MAXOPBLOCKS - MAXOPBLOCKS
    BY <1>3, LogAssumption
  <2>2. Len(lh) \in Nat /\ Len(lh) + outstanding * MAXOPBLOCKS <= LOGSIZE + Cardinality(Logged)
    BY <1>1 DEF ReserveInv
  <2>3. QED
    BY <1>2, <1>7, <2>1, <2>2, LogAssumption
<1>9. \A q \in Ops : /\ pc'[q] \in {"begin", "asleep"} => pc[q] \in {"begin", "asleep"}
                     /\ pc'[q] = "logging" => pc[q] = "logging"
  BY <1>4, <1>5
<1>10. QED
  BY <1>1, <1>2, <1>8, <1>9, SameWrites DEF ReserveInv

(* The commit clears the log when nothing is reserved.                     *)
LEMMA CommitReserve ==
    ASSUME LogInv, ReserveInv, NEW p \in Ops, Committer(p) PROVE ReserveInv'
<1>1. Committing(p) /\ committing /\ mode = "run" /\ UNCHANGED <<outstanding, mode, blk, wrote>>
  BY DEF Committer, WriteLog, WriteHead, Install, InstallBlock, ClearHead, Finish,
         LogInv, CountsAgree, Committing, memory
<1>2. Inside = {}
  BY <1>1 DEF LogInv, CountsAgree
<1>3. \A q \in Ops : /\ pc'[q] \in {"in", "logging"} => pc[q] \in {"in", "logging"}
                     /\ pc'[q] \in {"begin", "asleep"} => pc[q] \in {"begin", "asleep"}
                     /\ pc'[q] = "logging" => pc[q] = "logging"
  BY DEF Committer, WriteLog, WriteHead, Install, ClearHead, Finish, Wakeup, LogInv
<1>4. Inside' = {}
  BY <1>2, <1>3 DEF Inside
<1>5. header' \in Seq(Blocks) /\ lh' \in Seq(Blocks) /\ (lh' = lh \/ lh' = <<>>)
  <2>1. lh \in Seq(Blocks) /\ header \in Seq(Blocks) /\ <<>> \in Seq(Blocks)
    BY DEF ReserveInv
  <2>2. CASE WriteLog(p) \/ Install(p) \/ Finish(p)
    BY <2>1, <2>2 DEF WriteLog, Install, InstallBlock, Finish, memory, disk
  <2>3. CASE WriteHead(p) \/ ClearHead(p)
    BY <2>1, <2>3 DEF WriteHead, ClearHead, memory
  <2>4. QED
    BY <2>2, <2>3 DEF Committer
<1>6. CASE lh' = lh
  BY <1>1, <1>2, <1>3, <1>4, <1>5, <1>6, QuietReserve
<1>7. CASE lh' = <<>>
  <2>1. Logged' = {} /\ Cardinality(Logged') = 0
    <3>1. Logged' = {}
      BY <1>7 DEF Logged, Absorbed
    <3>2. QED
      BY <3>1, FS_EmptySet
  <2>2. outstanding = 0
    BY <1>2, InsideFinite DEF LogInv, CountsAgree
  <2>3. Len(lh') + outstanding' * MAXOPBLOCKS <= LOGSIZE + Cardinality(Logged')
    BY <1>1, <1>7, <2>1, <2>2, LogAssumption
  <2>4. QED
    BY <1>1, <1>3, <1>5, <2>3, SameWrites DEF ReserveInv
<1>8. QED
  BY <1>5, <1>6, <1>7

(* A crash and the recovery from it start with an empty reservation.       *)
LEMMA CrashReserve ==
    ASSUME LogInv, ReserveInv, Crash PROVE ReserveInv'
<1>1. /\ \A p \in Ops : pc'[p] = "out" /\ wrote'[p] = {}
      /\ mode' = "recover" /\ lh' = header /\ header' = header /\ blk' = blk
      /\ wrote' \in [Ops -> SUBSET Blocks]
  BY DEF Crash, disk
<1>2. ASSUME NEW ops \in SUBSET Ops
      PROVE  IsFiniteSet(Writes(ops)') /\ Cardinality(Writes(ops)') <= Cardinality(ops) * OpBlocks
  <2>1. Writes(ops)' = {}
    BY <1>1 DEF Writes
  <2>2. IsFiniteSet(Writes(ops)') /\ Cardinality(Writes(ops)') = 0
    BY <2>1, FS_EmptySet
  <2>3. Cardinality(ops) \in Nat /\ OpBlocks \in Nat
    BY OpsAssumption, LogAssumption, FS_Subset, FS_CardinalityType
  <2>4. Cardinality(ops) * OpBlocks \in Nat
    BY <2>3
  <2>5. QED
    BY <2>2, <2>4
<1>3. \A p \in Ops : IsFiniteSet(wrote'[p]) /\ Cardinality(wrote'[p]) <= OpBlocks
  BY <1>1, FS_EmptySet, LogAssumption
<1>4. QED
  BY <1>1, <1>2, <1>3 DEF ReserveInv

(* What is installed was recorded before the crash.                        *)
LEMMA RecoverReserve ==
    ASSUME LogInv, ReserveInv, RecoverBlock \/ RecoverEnd PROVE ReserveInv'
<1>1. mode = "recover" /\ UNCHANGED <<pc, blk, wrote, outstanding>> /\ \A p \in Ops : pc[p] = "out"
  BY DEF RecoverBlock, RecoverEnd, InstallBlock, LogInv, procs
<1>2. CASE RecoverBlock
  BY <1>1, <1>2, SameWrites DEF RecoverBlock, ReserveInv
<1>3. CASE RecoverEnd
  <2>1. lh' = <<>> /\ header' = <<>> /\ mode' = "run"
    BY <1>3 DEF RecoverEnd
  <2>2. Logged' = {}
    BY <2>1 DEF Logged, Absorbed
  <2>3. Cardinality(Logged') = 0
    BY <2>2, FS_EmptySet
  <2>4. outstanding = 0
    <3>1. Inside = {}
      BY <1>1 DEF Inside
    <3>2. QED
      BY <3>1, InsideFinite DEF LogInv, CountsAgree
  <2>5. Len(lh') + outstanding' * MAXOPBLOCKS <= LOGSIZE + Cardinality(Logged')
    BY <1>1, <2>1, <2>3, <2>4, LogAssumption
  <2>6. QED
    BY <1>1, <2>1, <2>5, SameWrites DEF ReserveInv
<1>4. QED
  BY <1>2, <1>3

(* Every step keeps the reservation.                                       *)
LEMMA StepReserve ==
    ASSUME LogInv, ReserveInv, [Next]_vars PROVE ReserveInv'
<1>1. CASE UNCHANGED vars
  <2>1. UNCHANGED <<lh, blk, wrote, mode, outstanding, header, pc>>
    BY <1>1 DEF vars, memory, procs, disk
  <2>2. Inside' = Inside /\ header' \in Seq(Blocks)
    BY <2>1 DEF Inside, ReserveInv
  <2>3. QED
    BY <2>1, <2>2, QuietReserve
<1>2. ASSUME NEW p \in Ops, Wait(p) PROVE ReserveInv'
  <2>1. /\ UNCHANGED <<lh, blk, wrote, mode, outstanding, header>>
        /\ pc[p] = "begin" /\ pc' = [pc EXCEPT ![p] = "asleep"]
    BY <1>2 DEF Wait, memory, disk
  <2>2. Inside' = Inside /\ header' \in Seq(Blocks)
    BY <2>1 DEF Inside, ReserveInv, LogInv
  <2>3. QED
    BY <2>1, <2>2, QuietReserve DEF LogInv
<1>3. ASSUME NEW p \in Ops, Operation(p) PROVE ReserveInv'
  BY <1>2, <1>3, BeginReserve, EnterReserve, RecordReserve, LeaveReserve, ModifyReserve DEF Operation
<1>4. QED
  BY <1>1, <1>3, CrashReserve, RecoverReserve, CommitReserve DEF Next

(* What is in the log and what is reserved exceed its size by no more than *)
(* the operations inside may have logged, so what is in the log never does.*)
LEMMA SpaceUsed ==
    ASSUME LogInv, ReserveInv, mode = "run"
    PROVE  /\ outstanding \in Nat /\ outstanding = Cardinality(Inside) /\ Len(lh) \in Nat
           /\ outstanding * MAXOPBLOCKS \in Nat /\ outstanding * OpBlocks \in Nat
           /\ Len(lh) + outstanding * MAXOPBLOCKS <= LOGSIZE + outstanding * OpBlocks
           /\ Len(lh) <= LOGSIZE
<1>1. outstanding \in Nat /\ outstanding = Cardinality(Inside) /\ Len(lh) \in Nat
  BY InsideFinite DEF LogInv, CountsAgree, ReserveInv
<1>2. outstanding * MAXOPBLOCKS \in Nat /\ outstanding * OpBlocks \in Nat
  BY <1>1, LogAssumption
<1>3. Len(lh) + outstanding * MAXOPBLOCKS <= LOGSIZE + outstanding * OpBlocks
  BY <1>1, <1>2, LoggedFinite, LogAssumption DEF ReserveInv
<1> DEFINE d == MAXOPBLOCKS - OpBlocks
<1>4. d \in Nat
  BY LogAssumption
<1>5. outstanding * MAXOPBLOCKS = outstanding * OpBlocks + outstanding * d
  BY <1>1, LogAssumption
<1> HIDE DEF d
<1>6. outstanding * d \in Nat
  BY <1>1, <1>4
<1>7. Len(lh) <= LOGSIZE
  BY <1>1, <1>2, <1>3, <1>5, <1>6, LogAssumption
<1>8. QED
  BY <1>1, <1>2, <1>3, <1>7

(* The size of the log goes with what operations really log: one block     *)
(* less than reserved at the least, and room in the log that mkfs makes.   *)
Spare == OpBlocks < MAXOPBLOCKS /\ LOGSIZE - (MAXOPBLOCKS - OpBlocks) < Size - 1

(* With that, log_write finds room whenever begin_op let its process in.   *)
LEMMA RoomForOne ==
    ASSUME Spare, LogInv, ReserveInv, mode = "run", outstanding >= 1 PROVE ~LogFull
<1> DEFINE d == MAXOPBLOCKS - OpBlocks
<1>1. outstanding \in Nat /\ Len(lh) \in Nat /\ outstanding * OpBlocks \in Nat
  BY SpaceUsed
<1>2. d \in Nat /\ d >= 1
  BY LogAssumption DEF Spare
<1>3. outstanding * MAXOPBLOCKS = outstanding * OpBlocks + outstanding * d
  BY <1>1, LogAssumption
<1>4. outstanding * d >= d
  <2>1. outstanding - 1 \in Nat /\ outstanding = (outstanding - 1) + 1
    BY <1>1
  <2>2. PICK m \in Nat : outstanding = m + 1
    BY <2>1
  <2> HIDE DEF d
  <2>3. (m + 1) * d = m * d + d /\ m * d \in Nat
    BY <1>2
  <2>4. QED
    BY <1>2, <2>2, <2>3
<1>5. Len(lh) + d <= LOGSIZE
  <2> HIDE DEF d
  <2>1. outstanding * d \in Nat
    BY <1>1, <1>2
  <2>2. QED
    BY <1>1, <1>2, <1>3, <1>4, <2>1, SpaceUsed, LogAssumption
<1>6. QED
  BY <1>1, <1>2, <1>5, LogAssumption DEF LogFull, Spare

(* So no operation is stopped for want of space, nor by another's commit.  *)
LEMMA NoPanic ==
    ASSUME Spare, LogInv, ReserveInv, NeverExhausted, [Next]_vars PROVE NeverExhausted'
<1>1. ASSUME NEW p \in Ops, NEW b \in Blocks, NEW v \in Values, Modify(p, b, v) PROVE mode' = mode
  <2>1. p \in Inside /\ mode = "run"
    BY <1>1 DEF Modify, Inside
  <2>2. outstanding >= 1
    BY <2>1, InsideFinite DEF LogInv, CountsAgree
  <2>3. ~LogFull
    BY <2>1, <2>2, RoomForOne
  <2>4. ~(outstanding < 1)
    BY <2>1, <2>2, SpaceUsed
  <2>5. QED
    BY <1>1, <2>3, <2>4 DEF Modify
<1>2. ASSUME NEW p \in Ops, Leave(p) PROVE mode' = mode
  <2>1. p \in Inside
    BY <1>2 DEF Leave, Inside
  <2>2. ~committing
    BY <2>1 DEF LogInv, CountsAgree
  <2>3. QED
    BY <1>2, <2>2 DEF Leave
<1>3. ASSUME NEW p \in Ops, Begin(p) \/ Enter(p) \/ Wait(p) \/ Record(p) \/ Committer(p)
      PROVE  mode' = mode
  BY <1>3 DEF Begin, Enter, Wait, Record, Committer, WriteLog, WriteHead, Install, ClearHead, Finish
<1>4. CASE Crash \/ RecoverBlock \/ RecoverEnd
  BY <1>4 DEF Crash, RecoverBlock, RecoverEnd, NeverExhausted
<1>5. CASE UNCHANGED vars
  BY <1>5 DEF vars, NeverExhausted
<1>6. QED
  BY <1>1, <1>2, <1>3, <1>4, <1>5 DEF Next, Operation, NeverExhausted

(* What begin_op() reserves covers what the operations inside may still    *)
(* log, whatever overlaps, commits or crashes.                             *)
THEOREM ReservationHolds == Spec => []ReserveInv
<1>1. Init => ReserveInv
  BY InitReserve
<1>2. LogInv /\ ReserveInv /\ [Next]_vars => ReserveInv'
  BY StepReserve
<1>3. QED
  BY <1>1, <1>2, LogInvariant, PTL DEF Spec

(* "this op might exhaust log space; wait for commit" (begin_op): if an    *)
(* operation leaves a block of its allowance over, none ever does.         *)
THEOREM ReservationSuffices ==
    ASSUME Spare PROVE Spec => []NeverExhausted
<1>1. Init => NeverExhausted
  BY DEF Init, NeverExhausted
<1>2. LogInv /\ ReserveInv /\ NeverExhausted /\ [Next]_vars => NeverExhausted'
  BY NoPanic
<1>3. QED
  BY <1>1, <1>2, LogInvariant, ReservationHolds, PTL DEF Spec

-----------------------------------------------------------------------------
(* The disk.                                                               *)

(* The state DiskInv speaks of, its own parts by name.                     *)
LEMMA LogShape ==
    ASSUME DiskInv
    PROVE  /\ lh \in Seq(Blocks) /\ header \in Seq(Blocks) /\ Len(lh) \in Nat /\ Len(header) \in Nat
           /\ DOMAIN lh = 1 .. Len(lh) /\ DOMAIN header = 1 .. Len(header)
           /\ home \in [Blocks -> Values] /\ cache \in [Blocks -> Values]
           /\ slots \in [1 .. LOGSIZE -> Values] /\ LOGSIZE \in Nat
           /\ \A i \in DOMAIN lh : lh[i] \in Blocks
           /\ \A i \in DOMAIN header : header[i] \in Blocks
           /\ tail \in Nat /\ tail >= 1
BY LogAssumption DEF DiskInv, TypeOK

(* The log of any machine that runs fits in its blocks of the disk.        *)
LEMMA LogFits ==
    ASSUME LogInv, ReserveInv, DiskInv, mode \in {"run", "recover"} PROVE Len(lh) <= LOGSIZE
<1>1. CASE mode = "run"
  BY <1>1, SpaceUsed
<1>2. CASE mode = "recover"
  BY <1>2 DEF DiskInv
<1>3. QED
  BY <1>1, <1>2

(* A disk as mkfs makes it.                                                *)
LEMMA InitDisk == Init => DiskInv
<1> SUFFICES ASSUME Init PROVE DiskInv
  OBVIOUS
<1>1. (CHOOSE b \in Blocks : TRUE) \in Blocks
  BY LogAssumption
<1>2. TypeOK
  <2>1. /\ home \in [Blocks -> Values] /\ cache \in [Blocks -> Values] /\ slots \in [1 .. LOGSIZE -> Values]
        /\ header \in Seq(Blocks) /\ lh \in Seq(Blocks)
    BY LogAssumption DEF Init, Boot
  <2>2. blk \in [Ops -> Blocks] /\ wrote \in [Ops -> SUBSET Blocks] /\ pc \in [Ops -> Places]
    BY <1>1 DEF Init, Boot, Places
  <2>3. outstanding = 0 /\ committing = FALSE /\ tail = 1 /\ mode = "recover"
    BY DEF Init, Boot
  <2>4. 1 \in 1 .. LOGSIZE + 1
    BY LogAssumption
  <2>5. QED
    BY <2>1, <2>2, <2>3, <2>4 DEF TypeOK
<1>3. QED
  BY <1>2, LogAssumption DEF Init, Boot, DiskInv, OnceEach, Installed

(* The process that commits is alone with the log.                         *)
LEMMA CommitsByItself ==
    ASSUME LogInv, NEW p \in Ops, Committing(p)
    PROVE  \A q \in Ops \ {p} : pc[q] \in {"out", "begin", "asleep"}
<1>1. Inside = {} /\ \A q \in Ops \ {p} : ~Committing(q)
  BY DEF LogInv, CountsAgree
<1>2. QED
  BY <1>1 DEF Inside, Committing, LogInv, Places

(* While somebody is inside, nobody commits and the header is empty.       *)
LEMMA NoCommitYet ==
    ASSUME LogInv, NEW p \in Inside
    PROVE  ~committing /\ \A q \in Ops : ~Committing(q)
BY DEF LogInv, CountsAgree

(* Nobody's commit moves and no block is logged.                           *)
Still ==
    /\ UNCHANGED <<disk, cache, lh, blk, tail, mode>>
    /\ \A q \in Ops, s \in {"write", "head", "install", "clear", "logging"} : pc'[q] = s <=> pc[q] = s

(* Steps that leave disk, log and commit alone.                            *)
LEMMA StillDisk ==
    ASSUME DiskInv, Still, TypeOK' PROVE DiskInv'
<1>1. UNCHANGED <<home, slots, header, cache, lh, blk, tail, mode>>
  BY DEF Still, disk
<1>2. \A q \in Ops : /\ pc'[q] = "write" <=> pc[q] = "write"
                     /\ pc'[q] = "head" <=> pc[q] = "head"
                     /\ pc'[q] = "install" <=> pc[q] = "install"
                     /\ pc'[q] = "clear" <=> pc[q] = "clear"
                     /\ pc'[q] = "logging" <=> pc[q] = "logging"
  BY DEF Still
<1>3. CommitInv' <=> CommitInv
  BY <1>1, <1>2 DEF CommitInv, Copied, Installed, AtHome
<1>4. \A b \in Blocks : UpToDate(b)' <=> UpToDate(b)
  BY <1>1, <1>2 DEF UpToDate, Absorbed
<1>5. QED
  BY <1>1, <1>3, <1>4 DEF DiskInv, OnceEach, Installed

(* begin_op, and the part of end_op that commits nothing.                  *)
LEMMA OutsideDisk ==
    ASSUME LogInv, DiskInv, NEW p \in Ops,
           \/ Begin(p) \/ Enter(p) \/ Wait(p) \/ Finish(p)
           \/ Leave(p) /\ outstanding' # 0
    PROVE  DiskInv'
<1>1. TypeOK /\ pc \in [Ops -> Places] /\ outstanding \in Nat
  BY DEF DiskInv, TypeOK
<1>2. CASE Begin(p) \/ Enter(p) \/ Wait(p)
  <2>1. Still
    BY <1>1, <1>2 DEF Begin, Enter, Wait, Still, memory, Places
  <2>2. TypeOK'
    <3>1. CASE Begin(p)
      BY <1>1, <3>1 DEF Begin, TypeOK, memory, disk, Places
    <3>2. CASE Enter(p)
      BY <1>1, <3>2 DEF Enter, TypeOK, disk, Places
    <3>3. CASE Wait(p)
      BY <1>1, <3>3 DEF Wait, TypeOK, memory, disk, Places
    <3>4. QED
      BY <1>2, <3>1, <3>2, <3>3
  <2>3. QED
    BY <2>1, <2>2, StillDisk
<1>3. CASE Finish(p)
  <2>1. Still
    BY <1>1, <1>3 DEF Finish, Wakeup, Still, Places
  <2>2. TypeOK'
    BY <1>1, <1>3, LogAssumption DEF Finish, Wakeup, TypeOK, disk, Places
  <2>3. QED
    BY <2>1, <2>2, StillDisk
<1>4. CASE Leave(p) /\ outstanding' # 0
  <2>1. p \in Inside
    BY <1>4 DEF Leave, Inside
  <2>2. ~committing /\ outstanding >= 1
    BY <1>1, <2>1, InsideFinite DEF LogInv, CountsAgree
  <2>3. /\ UNCHANGED <<disk, cache, lh, blk, wrote, committing, tail, mode>>
        /\ outstanding' = outstanding - 1 /\ pc[p] = "in" /\ pc' = [Wakeup EXCEPT ![p] = "out"]
    BY <1>4, <2>2 DEF Leave
  <2>4. Still
    BY <1>1, <2>3 DEF Wakeup, Still, Places
  <2>5. TypeOK'
    BY <1>1, <2>2, <2>3, LogAssumption DEF Wakeup, TypeOK, disk, Places
  <2>6. QED
    BY <2>4, <2>5, StillDisk
<1>5. QED
  BY <1>2, <1>3, <1>4

(* Inside an operation: the header is empty, and the invariant says only   *)
(* what differs from the disk.                                             *)
LEMMA InsideDisk ==
    ASSUME LogInv, DiskInv, mode = "run", NEW p \in Inside
    PROVE  header = <<>> /\ \A q \in Ops : pc[q] \notin {"write", "head", "install", "clear"}
<1>1. \A q \in Ops : pc[q] \notin {"write", "head", "install", "clear"}
  BY NoCommitYet DEF Committing
<1>2. QED
  BY <1>1 DEF DiskInv, CommitInv

(* log_write changes the buffer of a block it goes on to record ...        *)
LEMMA ModifyDisk ==
    ASSUME LogInv, DiskInv, NEW p \in Ops, NEW b \in Blocks, NEW v \in Values, Modify(p, b, v)
    PROVE  DiskInv'
<1>1. /\ p \in Inside /\ mode = "run" /\ pc[p] = "in"
      /\ cache' = [cache EXCEPT ![b] = v]
      /\ UNCHANGED <<home, slots, header, lh, outstanding, committing, tail>>
  BY DEF Modify, Inside, disk
<1>2. header = <<>> /\ \A q \in Ops : pc[q] \notin {"write", "head", "install", "clear"}
  BY <1>1, InsideDisk
<1>3. CASE mode' = "panic" /\ UNCHANGED <<pc, blk, wrote>>
  <2>1. TypeOK'
    BY <1>1, <1>3 DEF DiskInv, TypeOK
  <2>2. CommitInv'
    BY <1>1, <1>2, <1>3 DEF CommitInv
  <2>3. QED
    BY <1>1, <1>3, <2>1, <2>2 DEF DiskInv, OnceEach
<1>4. CASE /\ mode' = mode /\ pc' = [pc EXCEPT ![p] = "logging"] /\ blk' = [blk EXCEPT ![p] = b]
           /\ wrote' = [wrote EXCEPT ![p] = @ \cup {b}]
  <2>1. TypeOK'
    BY <1>1, <1>4 DEF DiskInv, TypeOK, Places
  <2>2. CommitInv'
    BY <1>1, <1>2, <1>4, <2>1 DEF CommitInv, DiskInv, TypeOK
  <2>3. ASSUME NEW c \in Blocks PROVE UpToDate(c)'
    <3>1. UpToDate(c)
      BY <1>1 DEF DiskInv
    <3>2. pc'[p] = "logging" /\ blk'[p] = b
          /\ \A q \in Ops \ {p} : pc'[q] = pc[q] /\ blk'[q] = blk[q]
          /\ (c # b => cache'[c] = cache[c])
      BY <1>1, <1>4 DEF DiskInv, TypeOK
    <3>3. QED
      BY <1>1, <3>1, <3>2 DEF UpToDate, Absorbed
  <2>4. QED
    BY <1>1, <1>4, <2>1, <2>2, <2>3 DEF DiskInv, OnceEach
<1>5. QED
  BY <1>3, <1>4 DEF Modify

(* ... and records it, once.                                               *)
LEMMA RecordDisk ==
    ASSUME LogInv, DiskInv, NEW p \in Ops, Record(p) PROVE DiskInv'
<1>1. /\ p \in Inside /\ mode = "run" /\ mode' = mode /\ pc[p] = "logging"
      /\ pc' = [pc EXCEPT ![p] = "in"]
      /\ lh' = IF Absorbed(blk[p]) THEN lh ELSE Append(lh, blk[p])
      /\ UNCHANGED <<home, slots, header, cache, outstanding, committing, blk, wrote, tail>>
  BY DEF Record, Inside, disk
<1>2. header = <<>> /\ \A q \in Ops : pc[q] \notin {"write", "head", "install", "clear"}
  BY <1>1, InsideDisk
<1>3. blk[p] \in Blocks /\ lh \in Seq(Blocks)
  BY DEF DiskInv, TypeOK
<1>4. TypeOK'
  BY <1>1, <1>3 DEF DiskInv, TypeOK, Places
<1>5. CommitInv'
  BY <1>1, <1>2, <1>4 DEF CommitInv, DiskInv, TypeOK
<1>6. OnceEach(lh')
  <2>1. CASE Absorbed(blk[p])
    BY <1>1, <2>1 DEF DiskInv
  <2>2. CASE ~Absorbed(blk[p])
    <3>1. lh' = Append(lh, blk[p])
      BY <1>1, <2>2
    <3>2. \A i \in DOMAIN lh' : lh'[i] = IF i = Len(lh) + 1 THEN blk[p] ELSE lh[i]
      BY <1>3, <3>1
    <3>3. \A i \in DOMAIN lh' : i # Len(lh) + 1 => i \in DOMAIN lh
      BY <1>3, <3>1
    <3>4. \A i \in DOMAIN lh : lh[i] # blk[p]
      BY <2>2 DEF Absorbed
    <3>5. QED
      BY <3>2, <3>3, <3>4 DEF DiskInv, OnceEach
  <2>3. QED
    BY <2>1, <2>2
<1>7. ASSUME NEW b \in Blocks PROVE UpToDate(b)'
  <2>1. UpToDate(b)
    BY <1>1 DEF DiskInv
  <2>2. Absorbed(b) \/ b = blk[p] => Absorbed(b)'
    BY <1>1, <1>3 DEF Absorbed
  <2>3. \A q \in Ops : pc[q] = "logging" => q = p \/ pc'[q] = "logging"
    BY <1>1 DEF DiskInv, TypeOK
  <2>4. QED
    BY <1>1, <2>1, <2>2, <2>3 DEF UpToDate
<1>8. QED
  BY <1>1, <1>4, <1>5, <1>6, <1>7 DEF DiskInv

(* The last one out starts the commit.                                     *)
LEMMA LastDisk ==
    ASSUME LogInv, DiskInv, LogInv', NEW p \in Ops, Leave(p), outstanding' = 0 PROVE DiskInv'
<1>1. p \in Inside /\ mode = "run" /\ pc[p] = "in"
  BY DEF Leave, Inside
<1>2. header = <<>> /\ \A q \in Ops : pc[q] \notin {"write", "head", "install", "clear"}
  BY <1>1, InsideDisk
<1>3. ~committing
  BY <1>1, NoCommitYet
<1>4. /\ mode' = mode /\ tail' = 1 /\ committing'
      /\ pc' = [pc EXCEPT ![p] = IF lh = <<>> THEN "finish" ELSE "write"]
      /\ UNCHANGED <<home, slots, header, cache, lh, blk, wrote>>
  BY <1>3 DEF Leave, disk
<1>5. TypeOK'
  <2>1. 1 \in 1 .. LOGSIZE + 1
    BY LogAssumption
  <2>2. committing' \in BOOLEAN
    BY DEF LogInv
  <2>3. pc' \in [Ops -> Places]
    BY DEF LogInv
  <2>4. QED
    BY <1>1, <1>4, <2>1, <2>2, <2>3 DEF DiskInv, TypeOK
<1>6. CommitInv'
  <2>1. \A q \in Ops : pc'[q] \notin {"head", "install", "clear"}
    BY <1>2, <1>4 DEF LogInv
  <2>2. Len(lh) \in Nat
    BY LogShape
  <2>3. QED
    BY <1>2, <1>4, <2>1, <2>2, LogShape DEF CommitInv
<1>7. ASSUME NEW b \in Blocks PROVE UpToDate(b)'
  <2>1. Inside' = {}
    BY <1>4 DEF LogInv, CountsAgree
  <2>2. \A q \in Ops : pc[q] # "logging"
    BY <1>1, <1>4, <2>1 DEF Inside, LogInv
  <2>3. UpToDate(b)
    BY <1>1 DEF DiskInv
  <2>4. QED
    BY <1>4, <2>2, <2>3 DEF UpToDate, Absorbed
<1>8. QED
  BY <1>1, <1>4, <1>5, <1>6, <1>7 DEF DiskInv, OnceEach

(* What is in the log need not be as on disk, and during a commit nothing  *)
(* else differs from it.                                                   *)
LEMMA CommitReads ==
    ASSUME LogInv, DiskInv, mode = "run", NEW p \in Ops, Committing(p)
    PROVE  /\ \A b \in Blocks : cache[b] = home[b] \/ Absorbed(b)
           /\ \A q \in Ops \ {p} : pc[q] \in {"out", "begin", "asleep"}
           /\ CommitInv
BY CommitsByItself DEF DiskInv, UpToDate, Committing

(* commit(), the copies of the blocks.                                     *)
LEMMA WriteLogDisk ==
    ASSUME LogInv, ReserveInv, DiskInv, NEW p \in Ops, WriteLog(p) PROVE DiskInv'
<1>1. /\ mode = "run" /\ mode' = mode /\ pc[p] = "write" /\ Committing(p)
      /\ UNCHANGED <<home, header, cache, lh, outstanding, committing, blk, wrote>>
  BY DEF WriteLog, memory, Committing
<1>2. /\ \A b \in Blocks : cache[b] = home[b] \/ Absorbed(b)
      /\ \A q \in Ops \ {p} : pc[q] \in {"out", "begin", "asleep"}
      /\ CommitInv
  BY <1>1, CommitReads
<1>3. header = <<>> /\ tail <= Len(lh) + 1
  BY <1>1, <1>2 DEF CommitInv
<1>4. /\ Len(lh) <= LOGSIZE /\ Len(lh) \in Nat /\ LOGSIZE \in Nat
      /\ tail \in Nat /\ tail >= 1 /\ pc \in [Ops -> Places]
  BY <1>1, LogFits, LogShape DEF LogInv
<1>5. \A i \in DOMAIN lh : i < tail => slots[i] = cache[lh[i]]
  BY <1>1, <1>2 DEF CommitInv
<1>6. CASE tail > Len(lh)
  <2>1. pc' = [pc EXCEPT ![p] = "head"] /\ UNCHANGED <<slots, tail>>
    BY <1>6 DEF WriteLog
  <2>2. TypeOK'
    BY <1>1, <2>1 DEF DiskInv, TypeOK, Places
  <2>3. Copied'
    BY <1>1, <1>4, <1>5, <1>6, <2>1, LogShape DEF Copied
  <2>4. CommitInv'
    BY <1>1, <1>2, <1>3, <1>4, <2>1, <2>3 DEF CommitInv
  <2>5. QED
    BY <1>1, <1>2, <2>2, <2>4 DEF DiskInv, UpToDate, Absorbed
<1>7. CASE tail <= Len(lh)
  <2>1. /\ slots' = [slots EXCEPT ![tail] = cache[lh[tail]]] /\ tail' = tail + 1 /\ UNCHANGED pc
        /\ tail \in DOMAIN lh /\ tail \in 1 .. LOGSIZE
    BY <1>4, <1>7, LogShape DEF WriteLog
  <2>2. cache[lh[tail]] \in Values
    BY <2>1, LogShape
  <2>3. TypeOK'
    BY <1>1, <1>4, <2>1, <2>2 DEF DiskInv, TypeOK
  <2>4. ASSUME NEW i \in DOMAIN lh, i < tail' PROVE slots'[i] = cache[lh[i]]
    BY <1>4, <1>5, <2>1, <2>4, LogShape
  <2>5. CommitInv'
    BY <1>1, <1>2, <1>3, <1>4, <1>7, <2>1, <2>4 DEF CommitInv
  <2>6. QED
    BY <1>1, <1>2, <2>3, <2>5 DEF DiskInv, UpToDate, Absorbed
<1>8. QED
  BY <1>4, <1>6, <1>7

(* The header: from here on, recovery finds the group.                     *)
LEMMA WriteHeadDisk ==
    ASSUME LogInv, ReserveInv, DiskInv, NEW p \in Ops, WriteHead(p) PROVE DiskInv'
<1>1. /\ mode = "run" /\ mode' = mode /\ pc[p] = "head" /\ Committing(p)
      /\ header' = lh /\ pc' = [pc EXCEPT ![p] = "install"] /\ tail' = 1
      /\ UNCHANGED <<home, slots, cache, lh, outstanding, committing, blk, wrote>>
  BY DEF WriteHead, memory, Committing
<1>2. /\ \A b \in Blocks : cache[b] = home[b] \/ Absorbed(b)
      /\ \A q \in Ops \ {p} : pc[q] \in {"out", "begin", "asleep"}
      /\ CommitInv
  BY <1>1, CommitReads
<1>3. Len(lh) <= LOGSIZE /\ Len(lh) \in Nat /\ LOGSIZE \in Nat /\ pc \in [Ops -> Places]
  BY <1>1, LogFits, LogShape DEF LogInv
<1>4. TypeOK'
  <2>1. 1 \in 1 .. LOGSIZE + 1
    BY <1>3
  <2>2. QED
    BY <1>1, <2>1 DEF DiskInv, TypeOK, Places
<1>5. Copied' /\ Installed'
  BY <1>1, <1>2, LogShape DEF CommitInv, Copied, Installed
<1>6. CommitInv'
  BY <1>1, <1>2, <1>3, <1>5 DEF CommitInv
<1>7. QED
  BY <1>1, <1>2, <1>3, <1>4, <1>6 DEF DiskInv, UpToDate, Absorbed, OnceEach

(* A round of install_trans: one more block is at home, the others stay.   *)
LEMMA InstallRound ==
    ASSUME DiskInv, Installed, InstallBlock, UNCHANGED <<lh, slots>>, Len(lh) <= LOGSIZE, tail <= Len(lh)
    PROVE  /\ Installed' /\ tail' \in 1 .. LOGSIZE + 1 /\ tail' <= Len(lh) + 1
           /\ home' \in [Blocks -> Values] /\ cache' \in [Blocks -> Values]
           /\ \A b \in Blocks : b # lh[tail] => home'[b] = home[b]
           /\ lh[tail] \in Blocks /\ home'[lh[tail]] = slots[tail]
           /\ cache = home => cache' = home'
           /\ Copied => cache' = cache
<1>1. /\ tail \in Nat /\ tail >= 1 /\ Len(lh) \in Nat /\ LOGSIZE \in Nat
      /\ tail \in DOMAIN lh /\ lh[tail] \in Blocks
  BY LogShape
<1>2. slots[tail] \in Values
  <2>1. tail \in 1 .. LOGSIZE
    BY <1>1
  <2>2. QED
    BY <2>1, LogShape
<1>3. /\ home' = [home EXCEPT ![lh[tail]] = slots[tail]]
      /\ cache' = [cache EXCEPT ![lh[tail]] = slots[tail]]
      /\ tail' = tail + 1
      /\ home \in [Blocks -> Values] /\ cache \in [Blocks -> Values]
  BY LogShape DEF InstallBlock
<1>4. ASSUME NEW i \in DOMAIN lh, i < tail' PROVE home'[lh[i]] = slots[i]
  <2>1. lh[i] \in Blocks /\ i \in Nat
    BY <1>1, LogShape
  <2>2. CASE lh[i] = lh[tail]
    <3>1. i = tail
      BY <1>1, <2>2 DEF DiskInv, OnceEach
    <3>2. QED
      BY <1>1, <1>3, <3>1
  <2>3. CASE lh[i] # lh[tail]
    <3>1. i < tail
      BY <1>1, <1>3, <1>4, <2>1, <2>3
    <3>2. QED
      BY <1>3, <2>1, <2>3, <3>1 DEF Installed
  <2>4. QED
    BY <2>2, <2>3
<1>5. Installed'
  BY <1>4 DEF Installed
<1>6. Copied => cache' = cache
  BY <1>1, <1>3 DEF Copied
<1>7. tail' \in 1 .. LOGSIZE + 1 /\ tail' <= Len(lh) + 1
  BY <1>1, <1>3
<1>8. home' \in [Blocks -> Values] /\ cache' \in [Blocks -> Values]
  BY <1>1, <1>2, <1>3
<1>9. /\ \A b \in Blocks : b # lh[tail] => home'[b] = home[b]
      /\ home'[lh[tail]] = slots[tail] /\ (cache = home => cache' = home')
  BY <1>1, <1>3
<1>10. QED
  BY <1>1, <1>5, <1>6, <1>7, <1>8, <1>9

(* commit(), the installation.                                             *)
LEMMA InstallDisk ==
    ASSUME LogInv, ReserveInv, DiskInv, NEW p \in Ops, Install(p)
    PROVE  DiskInv' /\ cache' = cache
<1>1. /\ mode = "run" /\ mode' = mode /\ pc[p] = "install" /\ Committing(p)
      /\ UNCHANGED <<slots, header, lh, outstanding, committing, blk, wrote>>
  BY DEF Install, Committing
<1>2. /\ \A b \in Blocks : cache[b] = home[b] \/ Absorbed(b)
      /\ \A q \in Ops \ {p} : pc[q] \in {"out", "begin", "asleep"}
      /\ CommitInv
  BY <1>1, CommitReads
<1>3. /\ Copied /\ Installed /\ header = lh /\ tail <= Len(lh) + 1
  BY <1>1, <1>2 DEF CommitInv
<1>4. Len(lh) <= LOGSIZE /\ Len(lh) \in Nat /\ tail \in Nat /\ pc \in [Ops -> Places]
  BY <1>1, LogFits, LogShape DEF LogInv
<1>5. CASE tail > Len(lh)
  <2>1. pc' = [pc EXCEPT ![p] = "clear"] /\ UNCHANGED <<home, cache, tail>>
    BY <1>5 DEF Install
  <2>2. TypeOK'
    BY <1>1, <2>1 DEF DiskInv, TypeOK, Places
  <2>3. AtHome' /\ Copied'
    BY <1>1, <1>3, <1>4, <1>5, <2>1, LogShape DEF Installed, AtHome, Copied
  <2>4. CommitInv'
    BY <1>1, <1>2, <1>3, <1>4, <2>1, <2>3 DEF CommitInv
  <2>5. QED
    BY <1>1, <1>2, <2>1, <2>2, <2>4 DEF DiskInv, UpToDate, Absorbed
<1>6. CASE tail <= Len(lh)
  <2>1. InstallBlock /\ UNCHANGED pc
    BY <1>4, <1>6 DEF Install
  <2>2. /\ Installed' /\ tail' \in 1 .. LOGSIZE + 1 /\ tail' <= Len(lh) + 1
        /\ home' \in [Blocks -> Values] /\ cache' = cache
        /\ \A b \in Blocks : b # lh[tail] => home'[b] = home[b]
    BY <1>1, <1>3, <1>4, <1>6, <2>1, InstallRound
  <2>3. TypeOK'
    BY <1>1, <2>1, <2>2 DEF DiskInv, TypeOK
  <2>4. Copied'
    BY <1>1, <1>3, <2>2 DEF Copied
  <2>5. CommitInv'
    BY <1>1, <1>2, <1>3, <2>1, <2>2, <2>4 DEF CommitInv
  <2>6. tail \in DOMAIN lh
    BY <1>4, <1>6, LogShape
  <2>7. \A b \in Blocks : cache[b] = home'[b] \/ Absorbed(b)
    BY <1>2, <2>2, <2>6 DEF Absorbed
  <2>8. QED
    BY <1>1, <2>1, <2>2, <2>3, <2>5, <2>7 DEF DiskInv, UpToDate, Absorbed
<1>7. QED
  BY <1>4, <1>5, <1>6

(* Everything is at home when the header is cleared.                       *)
LEMMA ClearDisk ==
    ASSUME LogInv, DiskInv, NEW p \in Ops, ClearHead(p)
    PROVE  DiskInv' /\ cache = home
<1>1. /\ mode = "run" /\ mode' = mode /\ pc[p] = "clear" /\ Committing(p)
      /\ lh' = <<>> /\ header' = <<>> /\ pc' = [pc EXCEPT ![p] = "finish"]
      /\ UNCHANGED <<home, slots, cache, outstanding, committing, blk, wrote, tail>>
  BY DEF ClearHead, Committing
<1>2. /\ \A b \in Blocks : cache[b] = home[b] \/ Absorbed(b)
      /\ \A q \in Ops \ {p} : pc[q] \in {"out", "begin", "asleep"}
      /\ Copied /\ AtHome
  BY <1>1, CommitReads DEF CommitInv
<1>3. cache = home
  <2>1. \A b \in Blocks : cache[b] = home[b]
    BY <1>2 DEF Absorbed, Copied, AtHome
  <2>2. QED
    BY <2>1, LogShape
<1>4. TypeOK'
  BY <1>1 DEF DiskInv, TypeOK, Places
<1>5. CommitInv'
  BY <1>1, <1>2 DEF CommitInv, LogInv
<1>6. QED
  BY <1>1, <1>3, <1>4, <1>5, LogAssumption DEF DiskInv, UpToDate, OnceEach

(* A crash leaves the disk, and recovery starts from its header.           *)
LEMMA CrashDisk ==
    ASSUME DiskInv, Crash PROVE DiskInv'
<1>1. /\ mode' = "recover" /\ cache' = home /\ lh' = header /\ outstanding' = 0 /\ committing' = FALSE
      /\ tail' = 1 /\ UNCHANGED <<home, slots, header, blk>>
      /\ pc' = [p \in Ops |-> "out"] /\ wrote' = [p \in Ops |-> {}]
  BY DEF Crash, disk
<1>2. 1 \in 1 .. LOGSIZE + 1 /\ pc' \in [Ops -> Places] /\ wrote' \in [Ops -> SUBSET Blocks]
  BY <1>1, LogAssumption DEF Places
<1>3. TypeOK'
  BY <1>1, <1>2 DEF DiskInv, TypeOK
<1>4. Installed'
  BY <1>1, LogShape DEF Installed
<1>5. QED
  BY <1>1, <1>3, <1>4, LogShape DEF DiskInv

(* Recovery, a block at a time and again after each crash.                 *)
LEMMA RecoverDisk ==
    ASSUME LogInv, ReserveInv, DiskInv, RecoverBlock \/ RecoverEnd
    PROVE  DiskInv'
<1>1. mode = "recover" /\ lh = header /\ cache = home /\ Installed /\ \A q \in Ops : pc[q] = "out"
  BY DEF RecoverBlock, RecoverEnd, DiskInv, LogInv
<1>2. CASE RecoverBlock
  <2>1. /\ InstallBlock /\ tail <= Len(lh) /\ mode' = mode
        /\ UNCHANGED <<slots, header, lh, outstanding, committing, pc, blk, wrote>>
    BY <1>2 DEF RecoverBlock, procs
  <2>2. /\ Installed' /\ tail' \in 1 .. LOGSIZE + 1 /\ tail' <= Len(lh) + 1
        /\ home' \in [Blocks -> Values] /\ cache' = home'
    BY <1>1, <2>1, LogFits, InstallRound
  <2>3. TypeOK'
    BY <2>1, <2>2 DEF DiskInv, TypeOK
  <2>4. QED
    BY <1>1, <2>1, <2>2, <2>3 DEF DiskInv, OnceEach
<1>3. CASE RecoverEnd
  <2>1. /\ lh' = <<>> /\ header' = <<>> /\ mode' = "run"
        /\ UNCHANGED <<home, slots, cache, outstanding, committing, pc, blk, wrote, tail>>
    BY <1>3 DEF RecoverEnd, procs
  <2>2. TypeOK'
    BY <2>1 DEF DiskInv, TypeOK
  <2>3. CommitInv'
    BY <1>1, <2>1 DEF CommitInv
  <2>4. QED
    BY <1>1, <2>1, <2>2, <2>3, LogAssumption DEF DiskInv, UpToDate, OnceEach
<1>4. QED
  BY <1>2, <1>3

(* Every step keeps the disk recoverable.                                  *)
LEMMA StepDisk ==
    ASSUME LogInv, LogInv', ReserveInv, DiskInv, [Next]_vars PROVE DiskInv'
<1>1. CASE UNCHANGED vars
  <2>1. Still /\ TypeOK'
    BY <1>1 DEF vars, disk, memory, procs, Still, DiskInv, TypeOK
  <2>2. QED
    BY <2>1, StillDisk
<1>2. ASSUME NEW p \in Ops, Operation(p) PROVE DiskInv'
  BY <1>2, OutsideDisk, ModifyDisk, RecordDisk, LastDisk DEF Operation
<1>3. ASSUME NEW p \in Ops, Committer(p) PROVE DiskInv'
  BY <1>3, OutsideDisk, WriteLogDisk, WriteHeadDisk, InstallDisk, ClearDisk DEF Committer
<1>4. QED
  BY <1>1, <1>2, <1>3, CrashDisk, RecoverDisk DEF Next

(* Whatever overlaps, commits or crashes, the disk holds a whole log or    *)
(* none, and what is not in it agrees with the buffers.                    *)
THEOREM DiskInvariant == Spec => []DiskInv
<1>1. LogInv /\ LogInv' /\ ReserveInv /\ DiskInv /\ [Next]_vars => DiskInv'
  BY StepDisk
<1>2. QED
  BY <1>1, InitDisk, LogInvariant, ReservationHolds, PTL DEF Spec

-----------------------------------------------------------------------------
(* The refinement of AtomicDisk.                                           *)

(* What recovery finds: a logged block's copy, any other block at home.    *)
LEMMA RecoveredIs ==
    ASSUME DiskInv
    PROVE  /\ \A i \in DOMAIN header : Recovered[header[i]] = slots[i]
           /\ \A b \in Blocks : (\A i \in DOMAIN header : header[i] # b) => Recovered[b] = home[b]
           /\ Recovered = [b \in Blocks |-> Recovered[b]]
<1>1. ASSUME NEW i \in DOMAIN header PROVE Recovered[header[i]] = slots[i]
  <2> DEFINE logged == {j \in DOMAIN header : header[j] = header[i]}
  <2>1. header[i] \in Blocks
    BY LogShape
  <2>2. \A j \in logged : j = i
    BY DEF DiskInv, OnceEach
  <2>3. i \in logged /\ logged # {} /\ (CHOOSE j \in logged : TRUE) = i
    BY <2>2
  <2>4. QED
    BY <2>1, <2>3 DEF Recovered
<1>2. ASSUME NEW b \in Blocks, \A i \in DOMAIN header : header[i] # b PROVE Recovered[b] = home[b]
  BY <1>2 DEF Recovered
<1>3. Recovered = [b \in Blocks |-> Recovered[b]]
  BY DEF Recovered
<1>4. QED
  BY <1>1, <1>2, <1>3

(* No header: the disk as it is.  A header whose copies are those of the   *)
(* buffers: the buffers.  A header that is installed: the disk again.      *)
LEMMA RecoveredCases ==
    ASSUME DiskInv
    PROVE  /\ header = <<>> => Recovered = home
           /\ header = lh /\ Copied /\ (\A b \in Blocks : cache[b] = home[b] \/ Absorbed(b)) => Recovered = cache
           /\ header = lh /\ AtHome => Recovered = home
<1>1. /\ Recovered = [b \in Blocks |-> Recovered[b]]
      /\ home = [b \in Blocks |-> home[b]]
      /\ cache = [b \in Blocks |-> cache[b]]
  BY RecoveredIs, LogShape
<1>2. ASSUME header = <<>> PROVE Recovered = home
  <2>1. \A b \in Blocks : Recovered[b] = home[b]
    BY <1>2, RecoveredIs
  <2>2. QED
    BY <1>1, <2>1
<1>3. ASSUME header = lh, Copied, \A b \in Blocks : cache[b] = home[b] \/ Absorbed(b)
      PROVE  Recovered = cache
  <2>1. \A b \in Blocks : Recovered[b] = cache[b]
    BY <1>3, RecoveredIs DEF Copied, Absorbed
  <2>2. QED
    BY <1>1, <2>1
<1>4. ASSUME header = lh, AtHome PROVE Recovered = home
  <2>1. \A b \in Blocks : Recovered[b] = home[b]
    BY <1>4, RecoveredIs DEF AtHome
  <2>2. QED
    BY <1>1, <2>1
<1>5. QED
  BY <1>2, <1>3, <1>4

(* Both, as one formula, so that they can be had of the next state too.    *)
RecoveryFacts ==
    /\ \A i \in DOMAIN header : Recovered[header[i]] = slots[i]
    /\ \A b \in Blocks : (\A i \in DOMAIN header : header[i] # b) => Recovered[b] = home[b]
    /\ Recovered = [b \in Blocks |-> Recovered[b]]
    /\ header = <<>> => Recovered = home
    /\ header = lh /\ Copied /\ (\A b \in Blocks : cache[b] = home[b] \/ Absorbed(b)) => Recovered = cache

(* The same of the state after a step.                                     *)
LEMMA RecoveredNext == DiskInv' => RecoveryFacts'
<1>1. DiskInv => RecoveryFacts
  BY RecoveredIs, RecoveredCases DEF RecoveryFacts
<1>2. QED
  BY <1>1, PTL

(* What AtomicDisk calls shown.                                            *)
Shown == IF mode = "recover" THEN Recovered ELSE cache

(* Nothing AtomicDisk sees has changed.                                    *)
Unseen == Recovered' = Recovered /\ Shown' = Shown /\ Inside' = Inside

(* Such a step is a stutter of AtomicDisk.                                 *)
LEMMA UnseenStutters == Unseen => UNCHANGED A!vars
BY DEF Unseen, A!vars, Shown

(* begin_op starts a group on a disk that is up to date, or joins one.     *)
LEMMA EnterJoins ==
    ASSUME LogInv, DiskInv, NEW p \in Ops, Enter(p) PROVE A!Join(p)
<1>1. /\ mode = "run" /\ mode' = mode /\ ~committing
      /\ p \notin Inside /\ Inside' = Inside \cup {p}
      /\ UNCHANGED <<home, slots, header, cache, lh>>
  BY DEF Enter, Admits, Inside, LogInv, disk
<1>2. Recovered' = Recovered
  BY <1>1 DEF Recovered
<1>3. ASSUME Inside = {} PROVE cache = Recovered
  <2>1. outstanding = 0
    BY <1>3, InsideFinite DEF LogInv, CountsAgree
  <2>2. lh = <<>>
    BY <1>1, <2>1 DEF LogInv, LogInUse
  <2>3. \A b \in Blocks : cache[b] = home[b]
    BY <1>1, <1>3, <2>2 DEF DiskInv, UpToDate, Absorbed, Inside
  <2>4. header = <<>>
    BY <1>1, <2>2 DEF DiskInv, CommitInv
  <2>5. QED
    BY <2>3, <2>4, RecoveredCases, LogShape
<1>4. QED
  BY <1>1, <1>2, <1>3 DEF A!Join

(* log_write writes for the group.                                         *)
LEMMA ModifyWrites ==
    ASSUME LogInv, DiskInv, NEW p \in Ops, NEW b \in Blocks, NEW v \in Values, Modify(p, b, v)
    PROVE  A!Write(p, b, v)
<1>1. /\ mode = "run" /\ mode' # "recover" /\ p \in Inside
      /\ cache' = [cache EXCEPT ![b] = v]
      /\ UNCHANGED <<home, slots, header>>
      /\ pc' = pc \/ pc' = [pc EXCEPT ![p] = "logging"]
  BY DEF Modify, Inside, disk
<1>2. Inside' = Inside
  BY <1>1 DEF Inside, LogInv
<1>3. Recovered' = Recovered
  BY <1>1 DEF Recovered
<1>4. QED
  BY <1>1, <1>2, <1>3 DEF A!Write

(* end_op leaves the group.                                                *)
LEMMA LeaveLeaves ==
    ASSUME LogInv, DiskInv, NEW p \in Ops, Leave(p) PROVE A!Leave(p)
<1>1. /\ p \in Inside /\ mode = "run" /\ UNCHANGED <<home, slots, header, cache>>
  BY DEF Leave, Inside, disk
<1>2. ~committing
  BY <1>1, NoCommitYet
<1>3. mode' = mode /\ Inside' = Inside \ {p}
  BY <1>1, <1>2 DEF Leave, Wakeup, Inside, LogInv
<1>4. Recovered' = Recovered
  BY <1>1 DEF Recovered
<1>5. QED
  BY <1>1, <1>3, <1>4 DEF A!Leave

(* What touches neither the disk nor a buffer is not seen.                 *)
LEMMA QuietUnseen ==
    ASSUME LogInv, NEW p \in Ops, Begin(p) \/ Wait(p) \/ Record(p) \/ Finish(p) PROVE Unseen
<1>1. UNCHANGED <<home, slots, header, cache, mode>>
  BY DEF Begin, Wait, Record, Finish, disk, memory
<1>2. Inside' = Inside
  BY DEF Begin, Wait, Record, Finish, Wakeup, Inside, LogInv
<1>3. Recovered' = Recovered
  BY <1>1 DEF Recovered
<1>4. QED
  BY <1>1, <1>2, <1>3 DEF Unseen, Shown

(* The commit has one point: the write of the header.                      *)
LEMMA CommitPoint ==
    ASSUME LogInv, LogInv', ReserveInv, DiskInv, DiskInv', NEW p \in Ops, Committer(p)
    PROVE  A!Commit \/ Unseen
<1>1. mode = "run" /\ mode' = mode /\ Committing(p) /\ committing
  BY DEF Committer, WriteLog, WriteHead, Install, ClearHead, Finish, Committing, LogInv, CountsAgree
<1>2. Inside = {} /\ Inside' = {}
  <2>1. Inside = {}
    BY <1>1 DEF LogInv, CountsAgree
  <2>2. \A q \in Ops : pc'[q] \in {"in", "logging"} => pc[q] \in {"in", "logging"}
    BY DEF Committer, WriteLog, WriteHead, Install, ClearHead, Finish, Wakeup, LogInv
  <2>3. QED
    BY <2>1, <2>2 DEF Inside
<1>3. /\ \A b \in Blocks : cache[b] = home[b] \/ Absorbed(b)
      /\ \A q \in Ops \ {p} : pc[q] \in {"out", "begin", "asleep"}
      /\ CommitInv
  BY <1>1, CommitReads
<1>4. CASE WriteLog(p)
  <2>1. header = <<>> /\ header' = <<>> /\ home' = home /\ cache' = cache
    BY <1>3, <1>4 DEF WriteLog, memory, CommitInv
  <2>2. Recovered = home /\ Recovered' = home'
    BY <2>1, RecoveredCases, RecoveredNext DEF RecoveryFacts
  <2>3. QED
    BY <1>1, <1>2, <2>1, <2>2 DEF Unseen, Shown
<1>5. CASE WriteHead(p)
  <2>1. /\ header' = lh' /\ lh' = lh /\ UNCHANGED <<home, slots, cache>> /\ pc[p] = "head"
    BY <1>5 DEF WriteHead, memory
  <2>2. Copied' /\ \A b \in Blocks : cache'[b] = home'[b] \/ Absorbed(b)'
    BY <1>3, <2>1 DEF CommitInv, Copied, Absorbed
  <2>3. Recovered' = cache'
    BY <2>1, <2>2, RecoveredNext DEF RecoveryFacts
  <2>4. QED
    BY <1>1, <1>2, <2>1, <2>3 DEF A!Commit
<1>6. CASE Install(p)
  <2>1. cache' = cache /\ UNCHANGED <<slots, header, lh>> /\ pc[p] = "install"
    BY <1>6, InstallDisk DEF Install
  <2>2. header = lh /\ Copied
    BY <1>3, <2>1 DEF CommitInv
  <2>3. Recovered = cache
    BY <1>3, <2>2, RecoveredCases
  <2>4. Committing(p)'
    BY <1>6 DEF Install, Committing, LogInv
  <2>5. \A q \in Ops : pc'[q] # "logging"
    BY <1>2 DEF Inside
  <2>6. \A b \in Blocks : cache'[b] = home'[b] \/ Absorbed(b)'
    BY <1>1, <2>5 DEF DiskInv, UpToDate
  <2>7. Copied'
    BY <2>1, <2>2 DEF Copied
  <2>8. Recovered' = cache'
    BY <2>1, <2>2, <2>6, <2>7, RecoveredNext DEF RecoveryFacts
  <2>9. QED
    BY <1>1, <1>2, <2>1, <2>3, <2>8 DEF Unseen, Shown
<1>7. CASE ClearHead(p)
  <2>1. cache = home /\ cache' = cache /\ home' = home /\ header' = <<>> /\ pc[p] = "clear"
    BY <1>7, ClearDisk DEF ClearHead
  <2>2. header = lh /\ AtHome
    BY <1>3, <2>1 DEF CommitInv
  <2>3. Recovered = home /\ Recovered' = home'
    BY <2>1, <2>2, RecoveredCases, RecoveredNext DEF RecoveryFacts
  <2>4. QED
    BY <1>1, <1>2, <2>1, <2>3 DEF Unseen, Shown
<1>8. QED
  BY <1>4, <1>5, <1>6, <1>7, QuietUnseen DEF Committer

(* A crash throws away what was not committed, and nothing else.           *)
LEMMA CrashCrashes ==
    ASSUME Crash PROVE A!Crash
<1>1. mode' = "recover" /\ UNCHANGED <<home, slots, header>> /\ \A q \in Ops : pc'[q] = "out"
  BY DEF Crash, disk
<1>2. Recovered' = Recovered /\ Inside' = {}
  BY <1>1 DEF Recovered, Inside
<1>3. QED
  BY <1>1, <1>2 DEF A!Crash

(* Recovery makes of the disk what it was taken for.                       *)
LEMMA RecoveryUnseen ==
    ASSUME LogInv, ReserveInv, DiskInv, DiskInv', RecoverBlock \/ RecoverEnd PROVE Unseen
<1>1. /\ mode = "recover" /\ lh = header /\ cache = home /\ Installed
      /\ \A q \in Ops : pc[q] = "out"
      /\ pc' = pc
  BY DEF RecoverBlock, RecoverEnd, DiskInv, LogInv, procs
<1>2. Inside' = Inside
  BY <1>1 DEF Inside
<1>3. CASE RecoverBlock
  <2>1. /\ InstallBlock /\ tail <= Len(lh) /\ mode' = mode
        /\ UNCHANGED <<slots, header, lh>>
    BY <1>3 DEF RecoverBlock
  <2>2. /\ \A b \in Blocks : b # lh[tail] => home'[b] = home[b]
        /\ tail \in DOMAIN lh
    BY <1>1, <2>1, LogFits, InstallRound, LogShape
  <2>3. ASSUME NEW b \in Blocks PROVE Recovered'[b] = Recovered[b]
    <3>1. CASE \E i \in DOMAIN header : header[i] = b
      BY <2>1, <3>1, RecoveredIs, RecoveredNext DEF RecoveryFacts
    <3>2. CASE \A i \in DOMAIN header : header[i] # b
      BY <1>1, <2>1, <2>2, <3>2, RecoveredIs, RecoveredNext DEF RecoveryFacts
    <3>3. QED
      BY <3>1, <3>2
  <2>4. Recovered' = Recovered
    BY <2>3, RecoveredIs, RecoveredNext DEF RecoveryFacts
  <2>5. QED
    BY <1>1, <1>2, <2>1, <2>4 DEF Unseen, Shown
<1>4. CASE RecoverEnd
  <2>1. /\ mode' = "run" /\ header' = <<>> /\ UNCHANGED <<home, cache>> /\ tail > Len(lh)
    BY <1>4 DEF RecoverEnd
  <2>2. AtHome
    BY <1>1, <2>1, LogShape DEF Installed, AtHome
  <2>3. Recovered = home /\ Recovered' = home'
    BY <1>1, <2>1, <2>2, RecoveredCases, RecoveredNext DEF RecoveryFacts
  <2>4. QED
    BY <1>1, <1>2, <2>1, <2>3 DEF Unseen, Shown
<1>5. QED
  BY <1>3, <1>4

(* A step of the log is a step of the atomic disk, or is not seen.         *)
LEMMA StepAtomic ==
    ASSUME LogInv, LogInv', ReserveInv, DiskInv, DiskInv', [Next]_vars
    PROVE  [A!Next]_(A!vars)
<1>1. CASE UNCHANGED vars
  <2>1. Unseen
    BY <1>1 DEF vars, disk, memory, procs, Unseen, Shown, Recovered, Inside
  <2>2. QED
    BY <2>1, UnseenStutters
<1>2. ASSUME NEW p \in Ops, Operation(p) PROVE [A!Next]_(A!vars)
  BY <1>2, EnterJoins, ModifyWrites, LeaveLeaves, QuietUnseen, UnseenStutters DEF Operation, A!Next
<1>3. ASSUME NEW p \in Ops, Committer(p) PROVE [A!Next]_(A!vars)
  BY <1>3, CommitPoint, UnseenStutters DEF A!Next
<1>4. CASE Crash
  BY <1>4, CrashCrashes DEF A!Next
<1>5. CASE RecoverBlock \/ RecoverEnd
  BY <1>5, RecoveryUnseen, UnseenStutters
<1>6. QED
  BY <1>1, <1>2, <1>3, <1>4, <1>5 DEF Next

(* The log implements the atomic disk: overlapping operations form groups, *)
(* and a group reaches the disk all together or not at all, wherever in a  *)
(* commit or in a recovery the machine stops.                              *)
THEOREM LogIsAtomic == Spec => ImplementsAtomicDisk
<1>1. Init => A!Init
  <2> SUFFICES ASSUME Init PROVE A!Init
    OBVIOUS
  <2>1. Recovered = home /\ home = [b \in Blocks |-> Zero] /\ mode = "recover"
    BY InitDisk, RecoveredCases DEF Init
  <2>2. Inside = {}
    BY DEF Init, Boot, Inside
  <2>3. QED
    BY <2>1, <2>2 DEF A!Init
<1>2. LogInv /\ LogInv' /\ ReserveInv /\ DiskInv /\ DiskInv' /\ [Next]_vars => [A!Next]_(A!vars)
  BY StepAtomic
<1>3. QED
  BY <1>1, <1>2, LogInvariant, ReservationHolds, DiskInvariant, PTL DEF Spec, ImplementsAtomicDisk, A!Spec
=============================================================================
