---------------------------- MODULE FileTableProofs ----------------------------
(***************************************************************************)
(* For any number of processes, files and descriptors: the count of a file *)
(* is the number of places that refer to it, an end of the pipe is open as *)
(* long as somebody holds it, and nobody works on a pipe that is gone.     *)
(***************************************************************************)
EXTENDS FileTable, FiniteSetTheorems, WellFoundedInduction, TLAPS

-----------------------------------------------------------------------------
(* Counting references.                                                    *)

(* There are finitely many places that can refer to a file.                *)
LEMMA HandlesFinite == IsFiniteSet(Handles)
<1>1. IsFiniteSet(Fds) /\ IsFiniteSet({1, 2}) /\ IsFiniteSet({"ofile", "fresh", "doomed"})
  <2>1. IsFiniteSet(Fds)
    <3>1. 0 \in Int /\ NOFILE - 1 \in Int
      BY FileAssumption
    <3>2. QED
      BY <3>1, FS_Interval DEF Fds
  <2>2. IsFiniteSet({1}) /\ IsFiniteSet({"ofile"})
    BY FS_Singleton
  <2>3. IsFiniteSet({1} \cup {2}) /\ IsFiniteSet({"ofile"} \cup {"fresh"})
    BY <2>2, FS_AddElement
  <2>4. IsFiniteSet(({"ofile"} \cup {"fresh"}) \cup {"doomed"})
    BY <2>3, FS_AddElement
  <2>5. {1} \cup {2} = {1, 2} /\ ({"ofile"} \cup {"fresh"}) \cup {"doomed"} = {"ofile", "fresh", "doomed"}
    OBVIOUS
  <2>6. QED
    BY <2>1, <2>3, <2>4, <2>5
<1>2. IsFiniteSet(Fds \cup {1, 2})
  BY <1>1, FS_Union
<1>3. IsFiniteSet({"ofile", "fresh", "doomed"} \X (Fds \cup {1, 2}))
  BY <1>1, <1>2, FS_Product
<1>4. QED
  BY <1>3, FileAssumption, FS_Product DEF Handles

(* The places that refer to a file are finitely many.                      *)
LEMMA UsersFinite ==
    ASSUME NEW at, NEW f
    PROVE  IsFiniteSet({h \in Handles : at[h] = f}) /\ Uses(f, at) \in Nat
<1>1. {h \in Handles : at[h] = f} \subseteq Handles
  OBVIOUS
<1>2. QED
  BY <1>1, HandlesFinite, FS_Subset, FS_CardinalityType DEF Uses

(* One more reference.                                                     *)
LEMMA AddRef ==
    ASSUME NEW at \in [Handles -> Files \cup {NoFile}], NEW v \in Handles, at[v] = NoFile,
           NEW g \in Files, NEW f \in Files
    PROVE  Uses(f, [at EXCEPT ![v] = g]) = Uses(f, at) + IF f = g THEN 1 ELSE 0
<1> DEFINE S == {h \in Handles : at[h] = f}
           T == {h \in Handles : [at EXCEPT ![v] = g][h] = f}
<1>1. IsFiniteSet(S) /\ Cardinality(S) \in Nat
  BY UsersFinite DEF Uses
<1>2. CASE f = g
  <2>1. T = S \cup {v} /\ v \notin S
    BY <1>2, FileAssumption
  <2>2. Cardinality(T) = Cardinality(S) + 1
    BY <1>1, <2>1, FS_AddElement
  <2>3. QED
    BY <1>2, <2>2 DEF Uses
<1>3. CASE f # g
  <2>1. T = S
    BY <1>3, FileAssumption
  <2>2. QED
    BY <1>1, <1>3, <2>1 DEF Uses
<1>4. QED
  BY <1>2, <1>3

(* One reference less.                                                     *)
LEMMA DropRef ==
    ASSUME NEW at \in [Handles -> Files \cup {NoFile}], NEW v \in Handles, at[v] \in Files,
           NEW f \in Files
    PROVE  Uses(f, [at EXCEPT ![v] = NoFile]) = Uses(f, at) - IF f = at[v] THEN 1 ELSE 0
<1> DEFINE S == {h \in Handles : at[h] = f}
           T == {h \in Handles : [at EXCEPT ![v] = NoFile][h] = f}
<1>1. IsFiniteSet(S) /\ Cardinality(S) \in Nat
  BY UsersFinite DEF Uses
<1>2. CASE f = at[v]
  <2>1. T = S \ {v} /\ v \in S
    BY <1>2, FileAssumption
  <2>2. Cardinality(T) = Cardinality(S) - 1
    BY <1>1, <2>1, FS_RemoveElement
  <2>3. QED
    BY <1>2, <2>2 DEF Uses
<1>3. CASE f # at[v]
  <2>1. T = S
    BY <1>3, FileAssumption
  <2>2. QED
    BY <1>1, <1>3, <2>1 DEF Uses
<1>4. QED
  BY <1>2, <1>3

(* References that change places: as many as before.                       *)
LEMMA Renamed ==
    ASSUME NEW at, NEW at2, NEW sigma \in [Handles -> Handles],
           \A h \in Handles : sigma[sigma[h]] = h,
           \A h \in Handles : at2[h] = at[sigma[h]],
           NEW f
    PROVE  Uses(f, at2) = Uses(f, at)
<1> DEFINE S == {h \in Handles : at[h] = f}
           T == {h \in Handles : at2[h] = f}
           b == [h \in S |-> sigma[h]]
<1>1. \A h \in S : sigma[h] \in T
  OBVIOUS
<1>2. \A h \in T : sigma[h] \in S /\ b[sigma[h]] = h
  OBVIOUS
<1>3. b \in [S -> T] /\ (\A x, y \in S : b[x] = b[y] => x = y) /\ \A t \in T : \E x \in S : b[x] = t
  BY <1>1, <1>2
<1>4. ExistsBijection(S, T)
  <2> HIDE DEF S, T, b
  <2>1. b \in Bijection(S, T)
    BY <1>3 DEF Bijection, Injection, Surjection, IsInjective
  <2>2. QED
    BY <2>1 DEF ExistsBijection
<1>5. IsFiniteSet(S)
  <2>1. S \subseteq Handles
    OBVIOUS
  <2> HIDE DEF S
  <2>2. QED
    BY <2>1, HandlesFinite, FS_Subset
<1>6. Cardinality(S) = Cardinality(T)
  BY <1>4, <1>5, FS_Bijection
<1>7. QED
  BY <1>6 DEF Uses

(* Two places that change their references.                                *)
LEMMA Swapped ==
    ASSUME NEW at, NEW at2, NEW u \in Handles, NEW v \in Handles,
           at2[u] = at[v], at2[v] = at[u], \A h \in Handles \ {u, v} : at2[h] = at[h],
           NEW f
    PROVE  Uses(f, at2) = Uses(f, at)
<1> DEFINE sigma == [h \in Handles |-> IF h = u THEN v ELSE IF h = v THEN u ELSE h]
<1>1. sigma \in [Handles -> Handles] /\ \A h \in Handles : sigma[sigma[h]] = h
  OBVIOUS
<1>2. \A h \in Handles : at2[h] = at[sigma[h]]
  OBVIOUS
<1> HIDE DEF sigma
<1>3. QED
  BY <1>1, <1>2, Renamed

(* Whatever is referred to counts; from two places, twice.                 *)
LEMMA RefCounts ==
    ASSUME NEW at, NEW f, NEW u \in Handles, at[u] = f
    PROVE  /\ Uses(f, at) >= 1
           /\ \A v \in Handles \ {u} : at[v] = f => Uses(f, at) >= 2
<1> DEFINE S == {h \in Handles : at[h] = f}
<1>1. IsFiniteSet(S) /\ u \in S /\ Cardinality(S) \in Nat
  BY UsersFinite DEF Uses
<1>2. IsFiniteSet(S \ {u}) /\ Cardinality(S \ {u}) = Cardinality(S) - 1
  BY <1>1, FS_RemoveElement
<1>3. Cardinality(S \ {u}) \in Nat
  BY <1>2, FS_CardinalityType
<1>4. ASSUME NEW v \in Handles \ {u}, at[v] = f PROVE Uses(f, at) >= 2
  <2>1. v \in S \ {u}
    BY <1>4
  <2>2. Cardinality((S \ {u}) \ {v}) = Cardinality(S \ {u}) - 1 /\ IsFiniteSet((S \ {u}) \ {v})
    BY <1>2, <2>1, FS_RemoveElement
  <2>3. Cardinality((S \ {u}) \ {v}) \in Nat
    BY <2>2, FS_CardinalityType
  <2>4. Uses(f, at) = Cardinality(S)
    BY DEF Uses
  <2> HIDE DEF S
  <2>5. QED
    BY <1>1, <1>2, <1>3, <2>2, <2>3, <2>4
<1>5. Uses(f, at) >= 1
  <2>1. Uses(f, at) = Cardinality(S)
    BY DEF Uses
  <2> HIDE DEF S
  <2>2. QED
    BY <1>1, <1>2, <1>3, <2>1
<1>6. QED
  BY <1>4, <1>5

(* The references of a child are as many as its parent's descriptors.      *)
LEMMA ForkRefs ==
    ASSUME NEW at \in [Handles -> Files \cup {NoFile}], NEW p \in Procs, NEW child \in Procs,
           p # child, NEW f \in Files, NEW fds \in [Fds -> Files \cup {NoFile}],
           \A fd \in Fds : at[<<child, <<"ofile", fd>>>>] = NoFile,
           NEW at2 \in [Handles -> Files \cup {NoFile}],
           \A h \in Handles : at2[h] = IF h[1] = child /\ h[2][1] = "ofile" /\ h[2][2] \in Fds
                                       THEN fds[h[2][2]] ELSE at[h]
    PROVE  Uses(f, at2) = Uses(f, at) + Refs(f, fds)
<1> DEFINE S == {h \in Handles : at[h] = f}
           D == {fd \in Fds : fds[fd] = f}
           New(fd) == <<child, <<"ofile", fd>>>>
           T == {New(fd) : fd \in D}
<1>1. \A fd \in Fds : New(fd) \in Handles
  BY DEF Handles
<1>2. IsFiniteSet(D) /\ Cardinality(D) \in Nat
  <2>1. 0 \in Int /\ NOFILE - 1 \in Int
    BY FileAssumption
  <2>2. IsFiniteSet(Fds) /\ D \subseteq Fds
    BY <2>1, FS_Interval DEF Fds
  <2>3. QED
    BY <2>2, FS_Subset, FS_CardinalityType
<1>3. IsFiniteSet(T) /\ Cardinality(T) = Cardinality(D)
  <2> DEFINE b == [fd \in D |-> New(fd)]
  <2>1. b \in Bijection(D, T)
    <3>1. b \in [D -> T] /\ \A t \in T : \E fd \in D : b[fd] = t
      OBVIOUS
    <3>2. \A x, y \in D : b[x] = b[y] => x = y
      OBVIOUS
    <3>3. QED
      BY <3>1, <3>2 DEF Bijection, Injection, Surjection, IsInjective
  <2>2. ExistsBijection(D, T)
    BY <2>1 DEF ExistsBijection
  <2>3. QED
    BY <1>2, <2>2, FS_Bijection
<1>4. IsFiniteSet(S) /\ Cardinality(S) \in Nat
  <2>1. IsFiniteSet(S)
    <3>1. S \subseteq Handles
      OBVIOUS
    <3> HIDE DEF S
    <3>2. QED
      BY <3>1, HandlesFinite, FS_Subset
  <2>2. QED
    BY <2>1, FS_CardinalityType
<1>5. S \cap T = {} /\ IsFiniteSet(S \cap T) /\ Cardinality(S \cap T) = 0
  <2>1. S \cap T = {}
    BY FileAssumption
  <2>2. QED
    BY <2>1, FS_EmptySet
<1>6. Cardinality(S \cup T) = Cardinality(S) + Cardinality(T) - Cardinality(S \cap T)
  BY <1>3, <1>4, FS_Union
<1>7. {h \in Handles : at2[h] = f} = S \cup T
  <2>1. ASSUME NEW h \in Handles, at2[h] = f PROVE h \in S \cup T
    <3>1. CASE h[1] = child /\ h[2][1] = "ofile" /\ h[2][2] \in Fds
      <4>1. h = New(h[2][2]) /\ h[2][2] \in D
        BY <2>1, <3>1 DEF Handles
      <4>2. QED
        BY <4>1
    <3>2. CASE ~(h[1] = child /\ h[2][1] = "ofile" /\ h[2][2] \in Fds)
      BY <2>1, <3>2
    <3>3. QED
      BY <3>1, <3>2
  <2>2. ASSUME NEW h \in S PROVE h \in Handles /\ at2[h] = f
    <3>1. CASE h[1] = child /\ h[2][1] = "ofile" /\ h[2][2] \in Fds
      <4>1. h = New(h[2][2])
        BY <3>1 DEF Handles
      <4>2. QED
        BY <3>1, <4>1, FileAssumption
    <3>2. CASE ~(h[1] = child /\ h[2][1] = "ofile" /\ h[2][2] \in Fds)
      BY <3>2
    <3>3. QED
      BY <3>1, <3>2
  <2>3. ASSUME NEW fd \in D PROVE New(fd) \in Handles /\ at2[New(fd)] = f
    BY <1>1
  <2>4. QED
    BY <2>1, <2>2, <2>3
<1>8. Uses(f, at2) = Cardinality(S \cup T) /\ Uses(f, at) = Cardinality(S) /\ Refs(f, fds) = Cardinality(D)
  BY <1>7 DEF Uses, Refs
<1> HIDE DEF S, T, D
<1>9. QED
  BY <1>2, <1>3, <1>4, <1>5, <1>6, <1>8

-----------------------------------------------------------------------------
(* What fdalloc and filealloc find is one of those they look among.        *)
LEMMA LowestIn ==
    ASSUME NEW S, S \subseteq Nat, S # {}
    PROVE  Lowest(S) \in S
<1>1. PICK top \in S : TRUE
  OBVIOUS
<1> DEFINE T == {1 .. x : x \in {y \in S : y <= top}}
<1>2. top \in Nat /\ \A x \in S : x \in Nat
  OBVIOUS
<1>3. \A x \in Nat : IsFiniteSet(1 .. x)
  BY FS_Interval
<1>4. T \subseteq FiniteSubsetsOf(1 .. top) /\ T # {}
  BY <1>2, <1>3 DEF FiniteSubsetsOf
<1>5. PICK i \in T : \A j \in T : ~(<<j, i>> \in StrictSubsetOrdering(1 .. top))
  BY <1>4, FS_StrictSubsetOrderingWellFounded, WFMin
<1>6. PICK m \in S : i = 1 .. m /\ m <= top
  OBVIOUS
<1>7. ASSUME NEW k \in S, k < m PROVE FALSE
  <2>1. 1 .. k \subseteq 1 .. m /\ m \in 1 .. m /\ m \notin 1 .. k /\ k <= top
    BY <1>2, <1>6, <1>7
  <2>2. 1 .. k \in T /\ <<1 .. k, 1 .. m>> \in StrictSubsetOrdering(1 .. top)
    BY <1>2, <1>3, <1>6, <2>1 DEF StrictSubsetOrdering, FiniteSubsetsOf
  <2>3. QED
    BY <1>5, <1>6, <2>2
<1>8. \A k \in S : m <= k
  BY <1>2, <1>7
<1>9. QED
  BY <1>8 DEF Lowest

(* Every place refers to a file or to nothing.                             *)
LEMMA RefersIs ==
    ASSUME FileShape
    PROVE  /\ Refers \in [Handles -> Files \cup {NoFile}]
           /\ \A p \in Procs : \A fd \in Fds :
                /\ <<p, <<"ofile", fd>>>> \in Handles
                /\ Refers[<<p, <<"ofile", fd>>>>] = ofile[p][fd]
           /\ \A p \in Procs : \A i \in {1, 2} :
                /\ <<p, <<"fresh", i>>>> \in Handles
                /\ <<p, <<"doomed", i>>>> \in Handles
                /\ Refers[<<p, <<"fresh", i>>>>] = IF i <= Len(fresh[p]) THEN fresh[p][i] ELSE NoFile
                /\ Refers[<<p, <<"doomed", i>>>>] = IF i <= Len(doomed[p]) THEN doomed[p][i] ELSE NoFile
<1>1. \A s \in Seq(Files) : \A i : Item(s, i) \in Files \cup {NoFile}
  BY DEF Item
<1>2. \A s \in Seq(Files) : \A i \in {1, 2} : Item(s, i) = IF i <= Len(s) THEN s[i] ELSE NoFile
  BY DEF Item
<1>3. \A s \in [Fds -> Files \cup {NoFile}] : \A i : Item(s, i) \in Files \cup {NoFile}
  BY DEF Item
<1>4. \A s \in [Fds -> Files \cup {NoFile}] : \A i \in Fds : Item(s, i) = s[i]
  BY DEF Item
<1>5. /\ \A p \in Procs : fresh[p] \in Seq(Files) /\ doomed[p] \in Seq(Files)
      /\ \A p \in Procs : ofile[p] \in [Fds -> Files \cup {NoFile}]
  BY DEF FileShape
<1>6. Refers \in [Handles -> Files \cup {NoFile}]
  <2>1. ASSUME NEW h \in Handles PROVE Refers[h] \in Files \cup {NoFile}
    <3>1. h[1] \in Procs
      BY DEF Handles
    <3>2. QED
      BY <3>1, <1>1, <1>3, <1>5 DEF Refers
  <2>2. QED
    BY <2>1 DEF Refers
<1>7. ASSUME NEW p \in Procs, NEW fd \in Fds
      PROVE  /\ <<p, <<"ofile", fd>>>> \in Handles
             /\ Refers[<<p, <<"ofile", fd>>>>] = ofile[p][fd]
  <2>1. <<p, <<"ofile", fd>>>> \in Handles
    BY DEF Handles
  <2>2. QED
    BY <2>1, <1>4, <1>5 DEF Refers
<1>8. ASSUME NEW p \in Procs, NEW i \in {1, 2}
      PROVE  /\ <<p, <<"fresh", i>>>> \in Handles
             /\ <<p, <<"doomed", i>>>> \in Handles
             /\ Refers[<<p, <<"fresh", i>>>>] = IF i <= Len(fresh[p]) THEN fresh[p][i] ELSE NoFile
             /\ Refers[<<p, <<"doomed", i>>>>] = IF i <= Len(doomed[p]) THEN doomed[p][i] ELSE NoFile
  <2>1. <<p, <<"fresh", i>>>> \in Handles /\ <<p, <<"doomed", i>>>> \in Handles
    BY DEF Handles
  <2>2. QED
    BY <2>1, <1>2, <1>5 DEF Refers
<1>9. QED
  BY <1>6, <1>7, <1>8

-----------------------------------------------------------------------------
(* Steps that leave files and descriptors alone: where a process may go.   *)
Settled(p) == fresh[p] = <<>> /\ doomed[p] = <<>>

Goes(p) ==
    \/ pc'[p] = pc[p] /\ op'[p] = op[p]
    \/ Working(p) /\ Working(p)' /\ op'[p] = op[p]
    \/ pc[p] # "closing" /\ Settled(p) /\ pc'[p] \in {"user", "busy"}
    \/ pc[p] = "busy" /\ Settled(p) /\ ofile[p] = Nothing /\ pc'[p] = "none"
    \/ /\ pc[p] = "user" /\ Working(p)' /\ op'[p] \in Ends
       /\ \E fd \in Fds : ofile[p][fd] # NoFile /\ type[ofile[p][fd]] = op'[p]

LEMMA QuietStep ==
    ASSUME FileInv, UNCHANGED <<fvars, ends>>, pc' \in [Procs -> Places],
           op' = [p \in Procs |-> op'[p]], \A p \in Procs : Goes(p)
    PROVE  FileInv'
<1>1. /\ FileShape /\ RefsAgree /\ CallsAgree /\ OneHolder /\ EndsAgree /\ UsersHoldEnds
      /\ UNCHANGED <<ref, type, ofile, fresh, doomed, ending, readopen, writeopen, inuse>>
  BY DEF FileInv, fvars, ends
<1>2. FileShape'
  BY <1>1 DEF FileShape
<1>3. RefsAgree' /\ OneHolder' /\ EndsAgree'
  BY <1>1 DEF RefsAgree, Refers, OneHolder, EndsAgree, Held
<1>4. CallsAgree'
  <2> SUFFICES ASSUME NEW p \in Procs
               PROVE  /\ Len(fresh[p]) <= 2 /\ Len(doomed[p]) <= 2
                      /\ Len(fresh[p]) = 2 => fresh[p][1] # fresh[p][2]
                      /\ fresh[p] # <<>> => InPipe(p)'
                      /\ doomed[p] # <<>> => pc'[p] \in {"busy", "closing"} /\ op'[p] # "pipe"
                      /\ pc'[p] = "none" => ofile[p] = Nothing
                      /\ ending[p] # "none" <=> pc'[p] = "closing"
    BY <1>1 DEF CallsAgree
  <2>1. Goes(p)
    OBVIOUS
  <2>2. QED
    BY <1>1, <2>1 DEF CallsAgree, Goes, Working, Settled, InPipe
<1>5. UsersHoldEnds'
  <2> SUFFICES ASSUME NEW p \in Procs, Working(p)'
               PROVE  /\ op'[p] \in Ends
                      /\ \E fd \in Fds : ofile[p][fd] # NoFile /\ type[ofile[p][fd]] = op'[p]
    BY <1>1 DEF UsersHoldEnds
  <2>1. Goes(p)
    OBVIOUS
  <2>2. QED
    BY <1>1, <2>1 DEF UsersHoldEnds, Goes, Working
<1>6. QED
  BY <1>2, <1>3, <1>4, <1>5 DEF FileInv

(* The pipe's own steps, the spinlock and kill().                          *)
LEMMA PipeSteps ==
    ASSUME FileInv, NEW p \in Procs, PipeStep(p) \/ Spin(p) \/ Killed(p)
    PROVE  FileInv'
<1>1. /\ pc \in [Procs -> Places] /\ op = [q \in Procs |-> op[q]]
      /\ \A q \in Procs : Working(q) => Settled(q)
  BY DEF FileInv, FileShape, CallsAgree, Working, Settled, InPipe
<1>2. UNCHANGED <<fvars, ends>>
  BY DEF PipeStep, Spin, Killed, InKernel, Silent, ReadBytes, WriteByte, WriteGivesUp, WriteFull,
         WriteEnd, ReadGivesUp, ReadEmpty, Sleep, Acquire, Kill
<1>3. CASE Spin(p) \/ Killed(p) \/ WriteByte(p) \/ ReadEmpty(p) \/ Sleep(p)
  <2>1. pc' \in [Procs -> Places] /\ op' = op
    BY <1>1, <1>3 DEF Spin, Killed, Kill, Acquire, WriteByte, ReadEmpty, Sleep, call, Places
  <2>2. \A q \in Procs : Goes(q)
    BY <1>1, <1>3, <2>1
    DEF Goes, Working, Spin, Killed, Kill, Acquire, WriteByte, ReadEmpty, Sleep, Holding, Places
  <2>3. QED
    BY <1>1, <1>2, <2>1, <2>2, QuietStep
<1>4. CASE WriteFull(p)
  <2>1. pc' \in [Procs -> Places] /\ op' = op
    BY <1>1, <1>4 DEF WriteFull, Wakeup, call, Places
  <2>2. \A q \in Procs : Goes(q)
    BY <1>1, <1>4, <2>1 DEF Goes, Working, WriteFull, Wakeup, Sleeping, Holding, Places
  <2>3. QED
    BY <1>1, <1>2, <2>1, <2>2, QuietStep
<1>5. CASE WriteGivesUp(p) \/ ReadGivesUp(p) \/ WriteEnd(p) \/ ReadBytes(p)
  <2>1. pc[p] = "hold" /\ (Return(p, pc) \/ \E what : Return(p, Wakeup(what)))
    BY <1>5 DEF WriteGivesUp, ReadGivesUp, WriteEnd, ReadBytes, Holding
  <2>2. /\ pc'[p] = "user"
        /\ \A q \in Procs \ {p} : pc'[q] = pc[q] \/ (pc[q] = "asleep" /\ pc'[q] = "acquire")
        /\ pc' \in [Procs -> Places]
        /\ op' = [op EXCEPT ![p] = "none"]
    <3>1. CASE Return(p, pc)
      BY <1>1, <3>1 DEF Return, Places
    <3>2. ASSUME NEW what, Return(p, Wakeup(what))
          PROVE  /\ pc'[p] = "user"
                 /\ \A q \in Procs \ {p} : pc'[q] = pc[q] \/ (pc[q] = "asleep" /\ pc'[q] = "acquire")
                 /\ pc' \in [Procs -> Places]
                 /\ op' = [op EXCEPT ![p] = "none"]
      <4>1. pc' = [Wakeup(what) EXCEPT ![p] = "user"] /\ op' = [op EXCEPT ![p] = "none"]
        BY <3>2 DEF Return
      <4>2. Wakeup(what) = [q \in Procs |-> IF Sleeping(q, what) THEN "acquire" ELSE pc[q]]
        BY DEF Wakeup
      <4>3. \A q \in Procs : Wakeup(what)[q] = pc[q] \/ (pc[q] = "asleep" /\ Wakeup(what)[q] = "acquire")
        BY <4>2 DEF Sleeping
      <4>4. Wakeup(what) \in [Procs -> Places]
        BY <1>1, <4>2 DEF Places
      <4>5. "user" \in Places
        BY DEF Places
      <4>6. QED
        BY <4>1, <4>3, <4>4, <4>5
    <3>3. QED
      BY <2>1, <3>1, <3>2
  <2>3. op' = [q \in Procs |-> op'[q]] /\ \A q \in Procs \ {p} : op'[q] = op[q]
    BY <1>1, <2>2
  <2>4. \A q \in Procs : Goes(q)
    BY <1>1, <2>1, <2>2, <2>3 DEF Goes, Working
  <2>5. QED
    BY <1>2, <2>2, <2>3, <2>4, QuietStep
<1>6. QED
  BY <1>3, <1>4, <1>5 DEF PipeStep, InKernel, Silent

(* System calls that begin or end.                                         *)
LEMMA CallSteps ==
    ASSUME FileInv, NEW p \in Procs,
           \/ \E fd \in Fds : \/ \E n \in ReadCounts : Read(p, fd, n)
                              \/ \E n \in WriteCounts : Write(p, fd, n)
           \/ Pipe(p) \/ Exit(p) \/ Done(p)
    PROVE  FileInv'
<1>1. /\ pc \in [Procs -> Places] /\ op = [q \in Procs |-> op[q]]
      /\ \A q \in Procs : pc[q] = "user" => Settled(q)
  BY DEF FileInv, FileShape, CallsAgree, Settled, InPipe
<1>2. CASE Pipe(p) \/ Exit(p)
  <2>1. UNCHANGED <<fvars, ends>> /\ pc' \in [Procs -> Places] /\ op' = [q \in Procs |-> op'[q]]
    BY <1>1, <1>2 DEF Pipe, Exit, Places
  <2>2. \A q \in Procs : Goes(q)
    BY <1>1, <1>2 DEF Goes, Pipe, Exit
  <2>3. QED
    BY <2>1, <2>2, QuietStep
<1>3. CASE Done(p)
  <2>1. UNCHANGED <<fvars, ends>> /\ pc' \in [Procs -> Places] /\ op' = [q \in Procs |-> op'[q]]
    BY <1>1, <1>3 DEF Done, Places
  <2>2. Settled(p)
    BY <1>3 DEF FileInv, CallsAgree, Settled, Done, InPipe
  <2>3. op[p] = "exit" => ofile[p] = Nothing
    <3>1. ofile[p] \in [Fds -> Files \cup {NoFile}]
      BY DEF FileInv, FileShape
    <3>2. QED
      BY <1>3, <3>1 DEF Done, OpenFds, Nothing
  <2>4. \A q \in Procs : Goes(q)
    BY <1>1, <1>3, <2>2, <2>3 DEF Goes, Done
  <2>5. QED
    BY <2>1, <2>4, QuietStep
<1>4. ASSUME NEW fd \in Fds, NEW n, NEW what \in Ends, Call(p, what, n), UserFd(p, fd),
             type[ofile[p][fd]] = what, UNCHANGED fvars
      PROVE  FileInv'
  <2>1. UNCHANGED ends /\ pc' \in [Procs -> Places] /\ op' = [q \in Procs |-> op'[q]]
    BY <1>1, <1>4 DEF Call, Places
  <2>2. \A q \in Procs : Goes(q)
    BY <1>1, <1>4 DEF Goes, Call, UserFd, Working
  <2>3. QED
    BY <1>4, <2>1, <2>2, QuietStep
<1>5. QED
  BY <1>2, <1>3, <1>4 DEF Read, Write, Ends

-----------------------------------------------------------------------------
(* A process in the kernel holds an end: nobody works on a pipe that is    *)
(* not in use, and a fresh file has no user.                               *)
LEMMA UserHolds ==
    ASSUME FileInv, NEW p \in Procs, Working(p)
    PROVE  /\ op[p] \in Ends
           /\ inuse /\ (op[p] = "read" => readopen) /\ (op[p] = "write" => writeopen)
           /\ \E fd \in Fds : /\ ofile[p][fd] \in Files /\ ref[ofile[p][fd]] > 0
                              /\ type[ofile[p][fd]] = op[p]
<1>1. op[p] \in Ends
  BY DEF FileInv, UsersHoldEnds
<1>2. PICK fd \in Fds : ofile[p][fd] # NoFile /\ type[ofile[p][fd]] = op[p]
  BY DEF FileInv, UsersHoldEnds
<1>3. ofile[p][fd] \in Files
  BY <1>2 DEF FileInv, FileShape
<1>4. ref[ofile[p][fd]] > 0
  BY <1>1, <1>2, <1>3 DEF FileInv, FileShape, OneHolder, Ends
<1>5. Held(op[p])
  BY <1>2, <1>3, <1>4 DEF Held
<1>6. QED
  BY <1>1, <1>2, <1>3, <1>4, <1>5 DEF FileInv, EndsAgree, Ends

(* A descriptor that comes or goes.                                        *)
LEMMA OneDescriptor ==
    ASSUME FileShape, NEW p \in Procs, NEW fd \in Fds, NEW g \in Files \cup {NoFile},
           ofile' = [ofile EXCEPT ![p][fd] = g], UNCHANGED <<fresh, doomed>>
    PROVE  /\ ofile' \in [Procs -> [Fds -> Files \cup {NoFile}]]
           /\ Refers' = [Refers EXCEPT ![<<p, <<"ofile", fd>>>>] = g]
<1>1. ofile \in [Procs -> [Fds -> Files \cup {NoFile}]]
  BY DEF FileShape
<1>2. ofile' \in [Procs -> [Fds -> Files \cup {NoFile}]]
  BY <1>1
<1>3. ASSUME NEW q \in Procs, NEW i
      PROVE  Item(ofile'[q], i) = IF q = p /\ i = fd THEN g ELSE Item(ofile[q], i)
  BY <1>1 DEF Item
<1>4. ASSUME NEW h \in Handles
      PROVE  Refers'[h] = IF h = <<p, <<"ofile", fd>>>> THEN g ELSE Refers[h]
  <2>1. h = <<h[1], <<h[2][1], h[2][2]>>>> /\ h[1] \in Procs
    BY DEF Handles
  <2>2. CASE h[2][1] = "ofile"
    <3>1. Refers'[h] = Item(ofile'[h[1]], h[2][2]) /\ Refers[h] = Item(ofile[h[1]], h[2][2])
      BY <2>2 DEF Refers
    <3>2. QED
      BY <1>3, <2>1, <2>2, <3>1
  <2>3. CASE h[2][1] # "ofile"
    BY <2>3 DEF Refers
  <2>4. QED
    BY <2>2, <2>3
<1>5. Refers' = [h \in Handles |-> Refers'[h]] /\ Refers = [h \in Handles |-> Refers[h]]
  BY DEF Refers
<1>6. QED
  BY <1>2, <1>4, <1>5

(* dup(): one more descriptor of an open file.                             *)
LEMMA DupStep ==
    ASSUME FileInv, NEW p \in Procs, NEW fd \in Fds, Dup(p, fd)
    PROVE  FileInv'
<1> DEFINE g == ofile[p][fd]
           free == Lowest(FreeFds(p))
<1>1. /\ FileShape /\ RefsAgree /\ CallsAgree /\ OneHolder /\ EndsAgree /\ UsersHoldEnds
      /\ UNCHANGED <<ends, readopen, writeopen, inuse, pc, op, type, fresh, doomed, ending>>
  BY DEF FileInv, Dup, ends, call
<1>2. g \in Files /\ free \in Fds /\ ofile[p][free] = NoFile
  <2>1. FreeFds(p) \subseteq Fds /\ Fds \subseteq Nat
    BY DEF FreeFds, Fds
  <2>2. free \in FreeFds(p)
    BY <2>1, LowestIn DEF Dup
  <2>3. QED
    BY <1>1, <2>2 DEF FreeFds, Dup, UserFd, FileShape
<1>3. ofile' = [ofile EXCEPT ![p][free] = g] /\ ref' = [ref EXCEPT ![g] = @ + 1]
  BY DEF Dup
<1> HIDE DEF g, free
<1>4. /\ ofile' \in [Procs -> [Fds -> Files \cup {NoFile}]]
      /\ Refers' = [Refers EXCEPT ![<<p, <<"ofile", free>>>>] = g]
  BY <1>1, <1>2, <1>3, OneDescriptor
<1>5. RefsAgree'
  <2> SUFFICES ASSUME NEW f \in Files PROVE ref'[f] = Uses(f, Refers')
    BY DEF RefsAgree, Uses
  <2>1. Uses(f, Refers') = Uses(f, Refers) + IF f = g THEN 1 ELSE 0
    <3>1. /\ Refers \in [Handles -> Files \cup {NoFile}]
          /\ <<p, <<"ofile", free>>>> \in Handles /\ Refers[<<p, <<"ofile", free>>>>] = NoFile
      BY <1>1, <1>2, RefersIs
    <3>2. Uses(f, [Refers EXCEPT ![<<p, <<"ofile", free>>>>] = g])
            = Uses(f, Refers) + IF f = g THEN 1 ELSE 0
      BY <1>2, <3>1, AddRef
    <3>3. QED
      BY <1>4, <3>2
  <2>2. QED
    BY <1>1, <1>2, <1>3, <2>1 DEF RefsAgree, FileShape
<1>6. /\ ref' \in [Files -> Nat]
      /\ \A f \in Files : ref'[f] >= ref[f]
      /\ \A f \in Files : ref'[f] > ref[f] => ref[f] > 0
  <2>1. ref[g] > 0
    <3>1. ref[g] = Uses(g, Refers) /\ <<p, <<"ofile", fd>>>> \in Handles
          /\ Refers[<<p, <<"ofile", fd>>>>] = g
      BY <1>1, <1>2, RefersIs DEF RefsAgree, g
    <3>2. ref[g] >= 1
      BY <3>1, RefCounts
    <3>3. QED
      BY <1>1, <1>2, <3>2 DEF FileShape
  <2>2. QED
    BY <1>1, <1>2, <1>3, <2>1 DEF FileShape
<1>7. FileShape'
  BY <1>1, <1>4, <1>6 DEF FileShape
<1>8. OneHolder' /\ EndsAgree'
  <2>1. \A f \in Files : ref[f] \in Nat /\ ref'[f] \in Nat /\ (ref'[f] = 0 <=> ref[f] = 0)
    <3> SUFFICES ASSUME NEW f \in Files
                 PROVE  ref[f] \in Nat /\ ref'[f] \in Nat /\ (ref'[f] = 0 <=> ref[f] = 0)
      OBVIOUS
    <3>1. ref[f] \in Nat /\ ref'[f] \in Nat
      BY <1>1, <1>6 DEF FileShape
    <3>2. QED
      BY <3>1, <1>6
  <2>2. \A f \in Files : ref'[f] > 0 <=> ref[f] > 0
    BY <2>1
  <2>3. QED
    BY <1>1, <2>1, <2>2 DEF OneHolder, EndsAgree, Held
<1>9. CallsAgree'
  BY <1>1, <1>3 DEF CallsAgree, InPipe, Dup, UserFd, FileShape
<1>10. UsersHoldEnds'
  <2> SUFFICES ASSUME NEW q \in Procs, Working(q)
               PROVE  \E d \in Fds : ofile'[q][d] # NoFile /\ type[ofile'[q][d]] = op[q]
    BY <1>1 DEF UsersHoldEnds, Working
  <2>1. q # p
    BY DEF Working, Dup, UserFd
  <2>2. ofile'[q] = ofile[q]
    BY <1>1, <1>3, <2>1 DEF FileShape
  <2>3. QED
    BY <1>1, <2>2 DEF UsersHoldEnds
<1>11. QED
  BY <1>5, <1>7, <1>8, <1>9, <1>10 DEF FileInv

(* fork(): the child has its parent's descriptors, each counted once more. *)
LEMMA ForkStep ==
    ASSUME FileInv, NEW p \in Procs, NEW child \in Procs, Fork(p, child)
    PROVE  FileInv'
<1>1. /\ FileShape /\ RefsAgree /\ CallsAgree /\ OneHolder /\ EndsAgree /\ UsersHoldEnds
      /\ UNCHANGED <<readopen, writeopen, inuse, op, type, fresh, doomed, ending>>
      /\ pc[p] = "user" /\ pc[child] = "none" /\ p # child /\ ofile[child] = Nothing
      /\ pc' = [pc EXCEPT ![child] = "user"] /\ ofile' = [ofile EXCEPT ![child] = ofile[p]]
      /\ ref' = [f \in Files |-> ref[f] + Refs(f, ofile[p])]
  BY DEF FileInv, CallsAgree, Fork, ends, call, Inherited
<1>2. \A f \in Files : Refs(f, ofile[p]) \in Nat
  <2>1. 0 \in Int /\ NOFILE - 1 \in Int
    BY FileAssumption
  <2>2. IsFiniteSet(Fds)
    BY <2>1, FS_Interval DEF Fds
  <2>3. QED
    BY <2>2, FS_Subset, FS_CardinalityType DEF Refs
<1>3. \A f \in Files : /\ ref[f] \in Nat /\ ref'[f] \in Nat
                       /\ ref'[f] >= ref[f]
  <2> SUFFICES ASSUME NEW f \in Files
               PROVE  ref[f] \in Nat /\ ref'[f] \in Nat /\ ref'[f] >= ref[f]
    OBVIOUS
  <2>1. ref[f] \in Nat /\ Refs(f, ofile[p]) \in Nat /\ ref'[f] = ref[f] + Refs(f, ofile[p])
    BY <1>1, <1>2 DEF FileShape
  <2>2. QED
    BY <2>1
<1>4. FileShape'
  <2>1. ref' \in [Files -> Nat]
    BY <1>1, <1>3
  <2>2. ofile' \in [Procs -> [Fds -> Files \cup {NoFile}]] /\ pc' \in [Procs -> Places]
    BY <1>1 DEF FileShape, Places
  <2>3. QED
    BY <1>1, <2>1, <2>2 DEF FileShape
<1>5. RefsAgree'
  <2>1. ASSUME NEW h \in Handles
        PROVE  Refers'[h] = IF h[1] = child /\ h[2][1] = "ofile" /\ h[2][2] \in Fds
                            THEN ofile[p][h[2][2]] ELSE Refers[h]
    <3>1. h[1] \in Procs
      BY DEF Handles
    <3>2. ofile'[h[1]] = IF h[1] = child THEN ofile[p] ELSE ofile[h[1]]
      BY <1>1, <3>1 DEF FileShape
    <3>3. Item(ofile[p], h[2][2]) = IF h[2][2] \in Fds THEN ofile[p][h[2][2]] ELSE NoFile
      BY <1>1 DEF Item, FileShape
    <3>4. Item(ofile[child], h[2][2]) = NoFile
      BY <1>1 DEF Item, Nothing
    <3>5. QED
      BY <1>1, <3>2, <3>3, <3>4 DEF Refers
  <2>2. \A fd \in Fds : Refers[<<child, <<"ofile", fd>>>>] = NoFile
    BY <1>1, RefersIs DEF Nothing
  <2>3. Refers \in [Handles -> Files \cup {NoFile}] /\ ofile[p] \in [Fds -> Files \cup {NoFile}]
    BY <1>1, RefersIs DEF FileShape
  <2>4. Refers' \in [Handles -> Files \cup {NoFile}]
    <3>1. Refers' = [h \in Handles |-> Refers'[h]]
      BY DEF Refers
    <3>2. \A h \in Handles : Refers'[h] \in Files \cup {NoFile}
      BY <2>1, <2>3
    <3>3. QED
      BY <3>1, <3>2
  <2> DEFINE at2 == Refers'
  <2>5. /\ at2 \in [Handles -> Files \cup {NoFile}]
        /\ \A h \in Handles : at2[h] = IF h[1] = child /\ h[2][1] = "ofile" /\ h[2][2] \in Fds
                                       THEN ofile[p][h[2][2]] ELSE Refers[h]
    BY <2>1, <2>4
  <2> HIDE DEF at2
  <2>6. \A f \in Files : Uses(f, at2) = Uses(f, Refers) + Refs(f, ofile[p])
    BY <1>1, <2>2, <2>3, <2>5, ForkRefs
  <2>7. \A f \in Files : ref'[f] = Uses(f, Refers')
    BY <1>1, <2>6 DEF RefsAgree, FileShape, at2
  <2>8. QED
    BY <2>7 DEF RefsAgree, Uses
<1>6. OneHolder'
  <2>1. \A f \in Files : ref'[f] = 0 => ref[f] = 0
    BY <1>3
  <2>2. QED
    BY <1>1, <2>1 DEF OneHolder
<1>7. EndsAgree'
  <2>1. \A f \in Files : type[f] \in Ends => (ref[f] > 0 /\ ref'[f] > 0)
    BY <1>1, <1>3 DEF OneHolder, Ends
  <2>2. Held("read")' <=> Held("read")
    BY <1>1, <2>1 DEF Held, Ends
  <2>3. Held("write")' <=> Held("write")
    BY <1>1, <2>1 DEF Held, Ends
  <2>4. QED
    BY <1>1, <2>2, <2>3 DEF EndsAgree
<1>8. CallsAgree'
  BY <1>1 DEF CallsAgree, InPipe, FileShape, Places
<1>9. UsersHoldEnds'
  <2> SUFFICES ASSUME NEW q \in Procs, Working(q)'
               PROVE  /\ op[q] \in Ends
                      /\ \E d \in Fds : ofile'[q][d] # NoFile /\ type[ofile'[q][d]] = op[q]
    BY <1>1 DEF UsersHoldEnds
  <2>1. q # child /\ Working(q)
    BY <1>1 DEF Working, FileShape
  <2>2. ofile'[q] = ofile[q]
    BY <1>1, <2>1 DEF FileShape
  <2>3. QED
    BY <1>1, <2>1, <2>2 DEF UsersHoldEnds
<1>10. QED
  BY <1>4, <1>5, <1>6, <1>7, <1>8, <1>9 DEF FileInv

-----------------------------------------------------------------------------
(* pipealloc has not shared its files: what it gives back it gives up in   *)
(* the same places.                                                        *)
LEMMA GiveBackRefs ==
    ASSUME FileShape, CallsAgree, NEW p \in Procs, InPipe(p), GiveBack(p), UNCHANGED ofile
    PROVE  /\ fresh' \in [Procs -> Seq(Files)] /\ doomed' \in [Procs -> Seq(Files)]
           /\ \A f \in Files : Uses(f, Refers') = Uses(f, Refers)
<1> DEFINE sigma == [h \in Handles |->
                       IF h[1] = p /\ h[2][1] = "fresh" THEN <<p, <<"doomed", h[2][2]>>>>
                       ELSE IF h[1] = p /\ h[2][1] = "doomed" THEN <<p, <<"fresh", h[2][2]>>>>
                       ELSE h]
<1>1. /\ doomed[p] = <<>>
      /\ fresh \in [Procs -> Seq(Files)] /\ doomed \in [Procs -> Seq(Files)]
      /\ fresh' = [fresh EXCEPT ![p] = <<>>] /\ doomed' = [doomed EXCEPT ![p] = fresh[p]]
  BY DEF FileShape, CallsAgree, InPipe, GiveBack
<1>2. fresh' \in [Procs -> Seq(Files)] /\ doomed' \in [Procs -> Seq(Files)]
  BY <1>1
<1>3. sigma \in [Handles -> Handles] /\ \A h \in Handles : sigma[sigma[h]] = h
  BY DEF Handles
<1>4. ASSUME NEW h \in Handles PROVE Refers'[h] = Refers[sigma[h]]
  <2>1. h[1] \in Procs /\ h[2][1] \in {"ofile", "fresh", "doomed"} /\ sigma[h] \in Handles
    BY <1>3 DEF Handles
  <2>2. fresh'[h[1]] = (IF h[1] = p THEN <<>> ELSE fresh[h[1]])
        /\ doomed'[h[1]] = (IF h[1] = p THEN fresh[p] ELSE doomed[h[1]])
    BY <1>1, <2>1
  <2>3. CASE h[1] = p /\ h[2][1] = "fresh"
    <3>1. sigma[h] = <<p, <<"doomed", h[2][2]>>>>
      BY <2>3
    <3>2. QED
      BY <1>1, <2>1, <2>2, <2>3, <3>1 DEF Refers
  <2>4. CASE h[1] = p /\ h[2][1] = "doomed"
    <3>1. sigma[h] = <<p, <<"fresh", h[2][2]>>>>
      BY <2>4
    <3>2. QED
      BY <1>1, <2>1, <2>2, <2>4, <3>1 DEF Refers
  <2>5. CASE h[1] # p \/ h[2][1] = "ofile"
    <3>1. sigma[h] = h
      BY <2>1, <2>5
    <3>2. QED
      BY <1>1, <2>1, <2>2, <2>5, <3>1 DEF Refers
  <2>6. QED
    BY <2>1, <2>3, <2>4, <2>5
<1> HIDE DEF sigma
<1>5. \A f : Uses(f, Refers') = Uses(f, Refers)
  BY <1>3, <1>4, Renamed
<1>6. QED
  BY <1>2, <1>5

(* pipealloc fails: its files go the way of closed ones.                   *)
LEMMA GiveBackStep ==
    ASSUME FileInv, NEW p \in Procs, InPipe(p), GiveBack(p),
           UNCHANGED <<ends, pc, ref, type, ofile, ending>>
    PROVE  FileInv'
<1>1. /\ FileShape /\ RefsAgree /\ CallsAgree /\ OneHolder /\ EndsAgree /\ UsersHoldEnds
      /\ UNCHANGED <<readopen, writeopen, inuse, pc, ref, type, ofile, ending>>
      /\ fresh' = [fresh EXCEPT ![p] = <<>>] /\ doomed' = [doomed EXCEPT ![p] = fresh[p]]
      /\ op' = [op EXCEPT ![p] = "close"]
      /\ pc[p] = "busy" /\ op[p] = "pipe"
  BY DEF FileInv, GiveBack, ends, InPipe
<1>2. /\ fresh' \in [Procs -> Seq(Files)] /\ doomed' \in [Procs -> Seq(Files)]
      /\ \A f \in Files : Uses(f, Refers') = Uses(f, Refers)
  BY <1>1, GiveBackRefs
<1>3. FileShape'
  BY <1>1, <1>2 DEF FileShape
<1>4. RefsAgree'
  BY <1>1, <1>2 DEF RefsAgree, Uses
<1>5. OneHolder' /\ EndsAgree'
  BY <1>1 DEF OneHolder, EndsAgree, Held
<1>6. ASSUME NEW q \in Procs
      PROVE  IF q = p THEN fresh'[q] = <<>> /\ doomed'[q] = fresh[q] /\ op'[q] = "close"
             ELSE fresh'[q] = fresh[q] /\ doomed'[q] = doomed[q] /\ op'[q] = op[q]
  BY <1>1 DEF FileShape
<1>7. CallsAgree'
  <2>1. Len(<<>>) = 0
    OBVIOUS
  <2>2. QED
    BY <1>1, <1>6, <2>1 DEF CallsAgree, InPipe
<1>8. UsersHoldEnds'
  BY <1>1, <1>6 DEF UsersHoldEnds, Working
<1>9. QED
  BY <1>3, <1>4, <1>5, <1>7, <1>8 DEF FileInv

(* filealloc, for pipealloc.                                               *)
LEMMA PipeFileStep ==
    ASSUME FileInv, NEW p \in Procs, PipeFile(p)
    PROVE  FileInv'
<1> DEFINE free == {f \in Files : ref[f] = 0}
           g == Lowest(free)
           n == Len(fresh[p]) + 1
           v == <<p, <<"fresh", n>>>>
<1>1. /\ FileShape /\ RefsAgree /\ CallsAgree /\ OneHolder /\ EndsAgree /\ UsersHoldEnds
      /\ UNCHANGED <<readopen, writeopen, inuse, pc, type, ofile, ending>>
      /\ pc[p] = "busy" /\ op[p] = "pipe" /\ Len(fresh[p]) < 2
  BY DEF FileInv, PipeFile, ends, InPipe
<1>2. CASE free = {}
  <2>1. GiveBack(p) /\ InPipe(p) /\ UNCHANGED <<ends, pc, ref, type, ofile, ending>>
    BY <1>2 DEF PipeFile
  <2>2. QED
    BY <2>1, GiveBackStep
<1>3. CASE free # {}
  <2>1. g \in Files /\ ref[g] = 0
    <3>1. free \subseteq Nat
      BY FileAssumption DEF Files
    <3>2. g \in free
      BY <1>3, <3>1, LowestIn
    <3>3. QED
      BY <3>2
  <2>2. /\ ref' = [ref EXCEPT ![g] = 1]
        /\ fresh' = [fresh EXCEPT ![p] = Append(fresh[p], g)]
        /\ UNCHANGED <<doomed, op>>
    BY <1>3 DEF PipeFile
  <2> HIDE DEF g, free
  <2>3. fresh[p] \in Seq(Files) /\ n \in {1, 2}
    <3>1. fresh[p] \in Seq(Files)
      BY <1>1 DEF FileShape
    <3>2. Len(fresh[p]) \in Nat
      BY <3>1
    <3>3. QED
      BY <1>1, <3>1, <3>2
  <2>4. /\ Append(fresh[p], g) \in Seq(Files) /\ Len(Append(fresh[p], g)) = n
        /\ \A i : Item(Append(fresh[p], g), i) = IF i = n THEN g ELSE Item(fresh[p], i)
    BY <2>1, <2>3 DEF Item
  <2>5. v \in Handles
    BY <2>3 DEF Handles
  <2>6. Refers[v] = NoFile
    BY <2>3, <2>5 DEF Refers, Item
  <2>7. ASSUME NEW h \in Handles PROVE Refers'[h] = IF h = v THEN g ELSE Refers[h]
    <3>1. h = <<h[1], <<h[2][1], h[2][2]>>>> /\ h[1] \in Procs
      BY DEF Handles
    <3>2. fresh'[h[1]] = IF h[1] = p THEN Append(fresh[p], g) ELSE fresh[h[1]]
      BY <1>1, <2>2, <3>1 DEF FileShape
    <3>3. CASE h[2][1] = "fresh"
      <4>1. h = v <=> (h[1] = p /\ h[2][2] = n)
        BY <3>1, <3>3
      <4>2. Refers'[h] = Item(fresh'[h[1]], h[2][2]) /\ Refers[h] = Item(fresh[h[1]], h[2][2])
        BY <3>3 DEF Refers
      <4> HIDE DEF v, n
      <4>3. QED
        BY <2>4, <3>2, <4>1, <4>2
    <3>4. CASE h[2][1] # "fresh"
      <4>1. h # v
        BY <3>4
      <4>2. Refers'[h] = Refers[h]
        BY <1>1, <2>2, <3>4 DEF Refers
      <4>3. QED
        BY <4>1, <4>2
    <3>5. QED
      BY <3>3, <3>4
  <2>8. Refers' = [Refers EXCEPT ![v] = g] /\ Refers \in [Handles -> Files \cup {NoFile}]
    <3>1. Refers' = [h \in Handles |-> Refers'[h]]
      BY DEF Refers
    <3>2. Refers \in [Handles -> Files \cup {NoFile}]
      BY <1>1, RefersIs
    <3> HIDE DEF v
    <3>3. QED
      BY <2>7, <3>1, <3>2
  <2>9. RefsAgree'
    <3>1. \A f \in Files : Uses(f, [Refers EXCEPT ![v] = g]) = Uses(f, Refers) + IF f = g THEN 1 ELSE 0
      BY <2>1, <2>5, <2>6, <2>8, AddRef
    <3> HIDE DEF v
    <3>2. ASSUME NEW f \in Files PROVE ref'[f] = Uses(f, Refers')
      <4>1. Uses(f, Refers') = ref[f] + IF f = g THEN 1 ELSE 0
        BY <1>1, <2>8, <3>1 DEF RefsAgree
      <4>2. ref[f] \in Nat /\ ref'[f] = IF f = g THEN 1 ELSE ref[f]
        BY <1>1, <2>2 DEF FileShape
      <4>3. QED
        BY <2>1, <4>1, <4>2
    <3>3. QED
      BY <3>2 DEF RefsAgree, Uses
  <2>10. FileShape'
    BY <1>1, <2>1, <2>2, <2>4 DEF FileShape
  <2>11. type[g] = "none" /\ \A f \in Files \ {g} : ref'[f] = ref[f]
    BY <1>1, <2>1, <2>2 DEF OneHolder, FileShape
  <2>12. OneHolder' /\ EndsAgree'
    <3>1. \A f \in Files : ref'[f] = 0 => ref[f] = 0
      BY <2>1, <2>11
    <3>2. \A f \in Files : type[f] \in Ends => ref'[f] = ref[f]
      BY <2>11 DEF Ends
    <3>3. Held("read")' <=> Held("read")
      BY <1>1, <3>2 DEF Held, Ends
    <3>4. Held("write")' <=> Held("write")
      BY <1>1, <3>2 DEF Held, Ends
    <3>5. QED
      BY <1>1, <3>1, <3>3, <3>4 DEF OneHolder, EndsAgree
  <2>13. CallsAgree'
    <3>1. Len(fresh'[p]) = 2 => fresh'[p][1] # fresh'[p][2]
      <4>1. CASE Len(fresh[p]) = 1
        <5>1. fresh[p][1] \in Files /\ fresh'[p] = Append(fresh[p], g)
          BY <1>1, <2>2, <2>3, <4>1 DEF FileShape
        <5>2. fresh'[p][1] = fresh[p][1] /\ fresh'[p][2] = g
          BY <2>3, <4>1, <5>1
        <5>3. <<p, <<"fresh", 1>>>> \in Handles /\ Refers[<<p, <<"fresh", 1>>>>] = fresh[p][1]
          <6>1. \A i \in {1, 2} : /\ <<p, <<"fresh", i>>>> \in Handles
                                 /\ Refers[<<p, <<"fresh", i>>>>] = IF i <= Len(fresh[p]) THEN fresh[p][i] ELSE NoFile
            BY <1>1, RefersIs
          <6>2. QED
            BY <4>1, <6>1
        <5>4. Uses(fresh[p][1], Refers) >= 1
          BY <5>3, RefCounts
        <5>5. ref[fresh[p][1]] >= 1
          BY <1>1, <5>1, <5>4 DEF RefsAgree
        <5>6. QED
          BY <2>1, <5>2, <5>5
      <4>2. CASE Len(fresh[p]) # 1
        <5>1. Len(fresh'[p]) = n
          BY <1>1, <2>2, <2>4 DEF FileShape
        <5>2. Len(fresh[p]) \in Nat
          BY <2>3
        <5>3. n # 2
          <6>1. \A k \in Nat : k # 1 => k + 1 # 2
            OBVIOUS
          <6>2. QED
            BY <4>2, <5>2, <6>1
        <5>4. QED
          BY <5>1, <5>3
      <4>3. QED
        BY <4>1, <4>2
    <3>2. Len(fresh'[p]) <= 2
      BY <1>1, <2>2, <2>3, <2>4 DEF FileShape
    <3>3. \A q \in Procs \ {p} : fresh'[q] = fresh[q]
      BY <1>1, <2>2 DEF FileShape
    <3>4. QED
      BY <1>1, <2>2, <3>1, <3>2, <3>3 DEF CallsAgree, InPipe
  <2>14. UsersHoldEnds'
    BY <1>1, <2>2 DEF UsersHoldEnds, Working
  <2>15. QED
    BY <2>9, <2>10, <2>12, <2>13, <2>14 DEF FileInv
<1>4. QED
  BY <1>2, <1>3

(* pipe() as it gets its page: whatever happens to its files, no process   *)
(* is in the pipe, no end was held, and each end now has its one file.     *)
LEMMA PageEnds ==
    ASSUME FileInv, NEW p \in Procs, PipePage(p)
    PROVE  /\ fresh[p][1] \in Files /\ fresh[p][2] \in Files /\ fresh[p][1] # fresh[p][2]
           /\ type' \in [Files -> {"none", "inode"} \cup Ends]
           /\ \A q \in Procs : ~Working(q)
           /\ OneHolder' /\ EndsAgree'
<1> DEFINE rf == fresh[p][1]
           wf == fresh[p][2]
<1>1. /\ FileShape /\ RefsAgree /\ CallsAgree /\ OneHolder /\ EndsAgree /\ UsersHoldEnds
      /\ UNCHANGED <<pc, ref, ending>> /\ readopen' = TRUE /\ writeopen' = TRUE /\ inuse' = TRUE
      /\ Len(fresh[p]) = 2 /\ ~inuse /\ type' = [type EXCEPT ![rf] = "read", ![wf] = "write"]
  BY DEF FileInv, PipePage, Open
<1>2. rf \in Files /\ wf \in Files /\ rf # wf
  BY <1>1 DEF FileShape, CallsAgree
<1>3. ref[rf] > 0 /\ ref[wf] > 0
  <2>1. \A i \in {1, 2} : /\ <<p, <<"fresh", i>>>> \in Handles
                         /\ Refers[<<p, <<"fresh", i>>>>] = IF i <= Len(fresh[p]) THEN fresh[p][i] ELSE NoFile
    BY <1>1, RefersIs
  <2>2. Uses(rf, Refers) >= 1 /\ Uses(wf, Refers) >= 1
    <3>1. <<p, <<"fresh", 1>>>> \in Handles /\ Refers[<<p, <<"fresh", 1>>>>] = rf
      BY <1>1, <2>1
    <3>2. <<p, <<"fresh", 2>>>> \in Handles /\ Refers[<<p, <<"fresh", 2>>>>] = wf
      BY <1>1, <2>1
    <3>3. QED
      BY <3>1, <3>2, RefCounts
  <2>3. ref[rf] = Uses(rf, Refers) /\ ref[wf] = Uses(wf, Refers) /\ ref[rf] \in Nat /\ ref[wf] \in Nat
    BY <1>1, <1>2 DEF RefsAgree, FileShape
  <2>4. QED
    BY <2>2, <2>3
<1>4. ~Held("read") /\ ~Held("write")
  BY <1>1 DEF EndsAgree
<1>5. /\ \A f \in Files : type[f] \notin Ends
      /\ \A q \in Procs : ending[q] \notin Ends
  <2>1. \A f \in Files : ref[f] \in Nat /\ (ref[f] = 0 \/ ref[f] > 0)
    BY <1>1 DEF FileShape
  <2>2. QED
    BY <1>1, <1>4, <2>1 DEF Held, Ends, OneHolder
<1>6. \A q \in Procs : ~Working(q)
  BY <1>1, UserHolds
<1> HIDE DEF rf, wf
<1>7. /\ type' \in [Files -> {"none", "inode"} \cup Ends]
      /\ \A f \in Files : /\ type'[f] = "read" <=> f = rf
                          /\ type'[f] = "write" <=> f = wf
                          /\ f \notin {rf, wf} => type'[f] = type[f]
  BY <1>1, <1>2, <1>5 DEF FileShape, Ends
<1>8. OneHolder'
  <2>1. \A f \in Files : ref'[f] = 0 => type'[f] = "none"
    BY <1>1, <1>2, <1>3, <1>7 DEF OneHolder
  <2>2. QED
    BY <1>1, <1>5, <1>7, <2>1 DEF OneHolder, Ends
<1>9. EndsAgree'
  BY <1>1, <1>2, <1>3, <1>7 DEF EndsAgree, Held
<1>10. QED
  BY <1>2, <1>6, <1>7, <1>8, <1>9 DEF rf, wf

(* Its descriptors take over the references of its files.                  *)
LEMMA PageRefs ==
    ASSUME FileShape, NEW p \in Procs, NEW fd0 \in Fds, NEW fd1 \in Fds, fd0 # fd1,
           ofile[p][fd0] = NoFile, ofile[p][fd1] = NoFile, Len(fresh[p]) = 2,
           fresh' = [fresh EXCEPT ![p] = <<>>], doomed' = doomed,
           ofile' = [ofile EXCEPT ![p][fd0] = fresh[p][1], ![p][fd1] = fresh[p][2]]
    PROVE  \A f \in Files : Uses(f, Refers') = Uses(f, Refers)
<1> DEFINE a1 == <<p, <<"fresh", 1>>>>
           a2 == <<p, <<"fresh", 2>>>>
           b1 == <<p, <<"ofile", fd0>>>>
           b2 == <<p, <<"ofile", fd1>>>>
           mid == [Refers EXCEPT ![a1] = Refers[b1], ![b1] = Refers[a1]]
<1>1. /\ {a1, a2, b1, b2} \subseteq Handles
      /\ a1 # a2 /\ a1 # b1 /\ a1 # b2 /\ a2 # b1 /\ a2 # b2 /\ b1 # b2
  BY DEF Handles
<1>2. /\ Refers \in [Handles -> Files \cup {NoFile}]
      /\ Refers[b1] = NoFile /\ Refers[b2] = NoFile
      /\ Refers[a1] = fresh[p][1] /\ Refers[a2] = fresh[p][2]
  <2>1. \A i \in {1, 2} : Refers[<<p, <<"fresh", i>>>>] = IF i <= Len(fresh[p]) THEN fresh[p][i] ELSE NoFile
    BY RefersIs
  <2>2. Refers \in [Handles -> Files \cup {NoFile}] /\ Refers[b1] = NoFile /\ Refers[b2] = NoFile
    BY RefersIs
  <2>3. QED
    BY <2>1, <2>2
<1>3. ASSUME NEW h \in Handles
      PROVE  Refers'[h] = IF h \in {a1, a2} THEN NoFile
                          ELSE IF h = b1 THEN fresh[p][1] ELSE IF h = b2 THEN fresh[p][2] ELSE Refers[h]
  <2>1. h = <<h[1], <<h[2][1], h[2][2]>>>> /\ h[1] \in Procs
    BY DEF Handles
  <2>2. CASE h[2][1] = "fresh"
    <3>1. fresh'[h[1]] = IF h[1] = p THEN <<>> ELSE fresh[h[1]]
      BY <2>1 DEF FileShape
    <3>2. Refers'[h] = Item(fresh'[h[1]], h[2][2]) /\ Refers[h] = Item(fresh[h[1]], h[2][2])
      BY <2>2 DEF Refers
    <3>3. \A i : Item(<<>>, i) = NoFile
      BY DEF Item
    <3>4. \A i : i \notin {1, 2} => Item(fresh[p], i) = NoFile
      BY DEF Item, FileShape
    <3>5. h # b1 /\ h # b2 /\ (h \in {a1, a2} <=> h[1] = p /\ h[2][2] \in {1, 2})
      BY <2>1, <2>2
    <3> HIDE DEF a1, a2, b1, b2
    <3>6. QED
      BY <3>1, <3>2, <3>3, <3>4, <3>5
  <2>3. CASE h[2][1] = "ofile"
    <3>1. /\ h[1] # p => ofile'[h[1]] = ofile[h[1]]
          /\ ofile'[p] = [ofile[p] EXCEPT ![fd0] = fresh[p][1], ![fd1] = fresh[p][2]]
          /\ ofile[p] \in [Fds -> Files \cup {NoFile}]
      BY <2>1 DEF FileShape
    <3>2. Refers'[h] = Item(ofile'[h[1]], h[2][2]) /\ Refers[h] = Item(ofile[h[1]], h[2][2])
      BY <2>3 DEF Refers
    <3>3. \A i : Item(ofile'[p], i) = IF i = fd1 THEN fresh[p][2]
                                     ELSE IF i = fd0 THEN fresh[p][1] ELSE Item(ofile[p], i)
      BY <3>1 DEF Item
    <3>4. h \notin {a1, a2} /\ (h = b1 <=> h[1] = p /\ h[2][2] = fd0) /\ (h = b2 <=> h[1] = p /\ h[2][2] = fd1)
      BY <2>1, <2>3
    <3> HIDE DEF a1, a2, b1, b2
    <3>5. QED
      BY <3>1, <3>2, <3>3, <3>4
  <2>4. CASE h[2][1] \notin {"ofile", "fresh"}
    <3>1. h \notin {a1, a2, b1, b2}
      BY <2>4
    <3>2. Refers'[h] = Refers[h]
      BY <2>4 DEF Refers
    <3>3. QED
      BY <3>1, <3>2
  <2>5. QED
    BY <2>2, <2>3, <2>4
<1> HIDE DEF a1, a2, b1, b2
<1>4. /\ mid[a1] = Refers[b1] /\ mid[b1] = Refers[a1]
      /\ \A h \in Handles \ {a1, b1} : mid[h] = Refers[h]
  BY <1>1, <1>2
<1> HIDE DEF mid
<1>5. /\ Refers'[a2] = mid[b2] /\ Refers'[b2] = mid[a2]
      /\ \A h \in Handles \ {a2, b2} : Refers'[h] = mid[h]
  BY <1>1, <1>2, <1>3, <1>4
<1>6. ASSUME NEW f PROVE Uses(f, Refers') = Uses(f, Refers)
  <2>1. Uses(f, mid) = Uses(f, Refers)
    BY <1>1, <1>4, Swapped
  <2>2. Uses(f, Refers') = Uses(f, mid)
    BY <1>1, <1>5, Swapped
  <2>3. QED
    BY <2>1, <2>2
<1>7. QED
  BY <1>6

(* pipe() gets its page.                                                   *)
LEMMA PipePageStep ==
    ASSUME FileInv, NEW p \in Procs, PipePage(p)
    PROVE  FileInv'
<1>1. /\ FileShape /\ RefsAgree /\ CallsAgree
      /\ UNCHANGED <<pc, ref, ending>> /\ readopen' = TRUE /\ writeopen' = TRUE /\ inuse' = TRUE
      /\ pc[p] = "busy" /\ op[p] = "pipe" /\ doomed[p] = <<>> /\ Len(fresh[p]) = 2
  BY DEF FileInv, PipePage, Open, InPipe, CallsAgree
<1>2. /\ fresh[p][1] \in Files /\ fresh[p][2] \in Files
      /\ type' \in [Files -> {"none", "inode"} \cup Ends]
      /\ \A q \in Procs : ~Working(q)
      /\ OneHolder' /\ EndsAgree'
  BY PageEnds
<1>3. op' = [op EXCEPT ![p] = "close"]
  BY DEF PipePage, GiveBack
<1>4. /\ UsersHoldEnds' /\ Len(<<>>) = 0
      /\ op' = [q \in Procs |-> op'[q]] /\ op'[p] = "close" /\ \A q \in Procs \ {p} : op'[q] = op[q]
  <2>1. UsersHoldEnds'
    BY <1>1, <1>2 DEF UsersHoldEnds, Working
  <2>2. QED
    BY <1>1, <1>3, <2>1 DEF FileShape
<1>5. CASE Cardinality(FreeFds(p)) >= 2
  <2> DEFINE fd0 == Lowest(FreeFds(p))
             fd1 == Lowest(FreeFds(p) \ {fd0})
  <2>1. FreeFds(p) # {} /\ FreeFds(p) \subseteq Nat
    <3>1. Cardinality({}) = 0
      BY FS_EmptySet
    <3>2. FreeFds(p) # {}
      BY <1>5, <3>1
    <3>3. QED
      BY <3>2 DEF FreeFds, Fds
  <2>2. fd0 \in FreeFds(p)
    BY <2>1, LowestIn
  <2> HIDE DEF fd0
  <2>3. FreeFds(p) \ {fd0} # {}
    <3>1. IsFiniteSet(FreeFds(p))
      <4>1. 0 \in Int /\ NOFILE - 1 \in Int
        BY FileAssumption
      <4>2. IsFiniteSet(Fds) /\ FreeFds(p) \subseteq Fds
        BY <4>1, FS_Interval DEF Fds, FreeFds
      <4>3. QED
        BY <4>2, FS_Subset
    <3>2. Cardinality(FreeFds(p) \ {fd0}) = Cardinality(FreeFds(p)) - 1 /\ Cardinality(FreeFds(p)) \in Nat
      BY <2>2, <3>1, FS_RemoveElement, FS_CardinalityType
    <3>3. Cardinality({}) = 0
      BY FS_EmptySet
    <3>4. QED
      BY <1>5, <3>2, <3>3
  <2>4. fd1 \in FreeFds(p) \ {fd0}
    BY <2>1, <2>3, LowestIn
  <2>5. /\ ofile' = [ofile EXCEPT ![p][fd0] = fresh[p][1], ![p][fd1] = fresh[p][2]]
        /\ fresh' = [fresh EXCEPT ![p] = <<>>] /\ doomed' = doomed
    BY <1>5 DEF PipePage, fd0
  <2> HIDE DEF fd1
  <2>6. /\ fd0 \in Fds /\ fd1 \in Fds /\ fd0 # fd1
        /\ ofile[p][fd0] = NoFile /\ ofile[p][fd1] = NoFile
    BY <2>2, <2>4 DEF FreeFds
  <2>7. \A f \in Files : Uses(f, Refers') = Uses(f, Refers)
    BY <1>1, <2>5, <2>6, PageRefs
  <2>8. RefsAgree'
    BY <1>1, <2>7 DEF RefsAgree, Uses
  <2>9. FileShape'
    <3>1. ofile' \in [Procs -> [Fds -> Files \cup {NoFile}]]
      BY <1>1, <1>2, <2>5, <2>6 DEF FileShape
    <3>2. fresh' \in [Procs -> Seq(Files)]
      BY <1>1, <2>5 DEF FileShape
    <3>3. QED
      BY <1>1, <1>2, <1>4, <2>5, <3>1, <3>2 DEF FileShape
  <2>10. CallsAgree'
    <3>1. /\ fresh'[p] = <<>>
          /\ \A q \in Procs \ {p} : fresh'[q] = fresh[q] /\ ofile'[q] = ofile[q]
      BY <1>1, <2>5 DEF FileShape
    <3> SUFFICES ASSUME NEW q \in Procs
                 PROVE  /\ Len(fresh'[q]) <= 2 /\ Len(doomed[q]) <= 2
                        /\ Len(fresh'[q]) = 2 => fresh'[q][1] # fresh'[q][2]
                        /\ fresh'[q] # <<>> => InPipe(q)'
                        /\ doomed[q] # <<>> => pc[q] \in {"busy", "closing"} /\ op'[q] # "pipe"
                        /\ pc[q] = "none" => ofile'[q] = Nothing
                        /\ ending[q] # "none" <=> pc[q] = "closing"
      BY <1>1, <2>5 DEF CallsAgree
    <3>2. CASE q = p
      BY <1>1, <1>4, <3>1, <3>2 DEF CallsAgree
    <3>3. CASE q # p
      BY <1>1, <1>4, <3>1, <3>3 DEF CallsAgree, InPipe
    <3>4. QED
      BY <3>2, <3>3
  <2>11. QED
    BY <1>2, <1>4, <2>8, <2>9, <2>10 DEF FileInv
<1>6. CASE ~(Cardinality(FreeFds(p)) >= 2)
  <2>1. GiveBack(p) /\ UNCHANGED ofile /\ InPipe(p)
    BY <1>6 DEF PipePage
  <2>2. /\ fresh' \in [Procs -> Seq(Files)] /\ doomed' \in [Procs -> Seq(Files)]
        /\ \A f \in Files : Uses(f, Refers') = Uses(f, Refers)
    BY <1>1, <2>1, GiveBackRefs
  <2>3. RefsAgree' /\ FileShape'
    BY <1>1, <1>2, <1>4, <2>1, <2>2 DEF RefsAgree, Uses, FileShape
  <2>4. CallsAgree'
    <3>1. /\ fresh'[p] = <<>> /\ doomed'[p] = fresh[p]
          /\ \A q \in Procs \ {p} : fresh'[q] = fresh[q] /\ doomed'[q] = doomed[q]
      BY <1>1, <2>1 DEF FileShape, GiveBack
    <3>2. QED
      BY <1>1, <1>4, <2>1, <3>1 DEF CallsAgree, InPipe
  <2>5. QED
    BY <1>2, <1>4, <2>3, <2>4 DEF FileInv
<1>7. QED
  BY <1>5, <1>6

-----------------------------------------------------------------------------
(* close() takes the descriptor away before it calls fileclose.            *)
LEMMA CloseStep ==
    ASSUME FileInv, NEW p \in Procs, NEW fd \in Fds, Close(p, fd)
    PROVE  FileInv'
<1> DEFINE g == ofile[p][fd]
           u == <<p, <<"ofile", fd>>>>
           v == <<p, <<"doomed", 1>>>>
<1>1. /\ FileShape /\ RefsAgree /\ CallsAgree /\ OneHolder /\ EndsAgree /\ UsersHoldEnds
      /\ UNCHANGED <<readopen, writeopen, inuse, ref, type, fresh, ending>>
      /\ pc[p] = "user" /\ pc' = [pc EXCEPT ![p] = "busy"] /\ op' = [op EXCEPT ![p] = "close"]
      /\ ofile' = [ofile EXCEPT ![p][fd] = NoFile] /\ doomed' = [doomed EXCEPT ![p] = <<g>>]
      /\ fresh[p] = <<>> /\ doomed[p] = <<>>
  BY DEF FileInv, Close, ends, UserFd, CallsAgree, InPipe
<1>2. g \in Files
  BY <1>1 DEF Close, UserFd, FileShape
<1>3. /\ u \in Handles /\ v \in Handles /\ u # v /\ Refers[u] = g /\ Refers[v] = NoFile
  <2>1. Refers[v] = NoFile
    <3>1. v \in Handles
      BY DEF Handles
    <3>2. QED
      BY <1>1, <3>1 DEF Refers, Item
  <2>2. QED
    BY <1>1, <2>1, RefersIs DEF Handles
<1> HIDE DEF g
<1>4. ASSUME NEW h \in Handles
      PROVE  Refers'[h] = IF h = u THEN NoFile ELSE IF h = v THEN g ELSE Refers[h]
  <2>1. h = <<h[1], <<h[2][1], h[2][2]>>>> /\ h[1] \in Procs
    BY DEF Handles
  <2>2. CASE h[2][1] = "doomed"
    <3>1. /\ Refers'[h] = Item(doomed'[h[1]], h[2][2]) /\ Refers[h] = Item(doomed[h[1]], h[2][2])
          /\ doomed'[h[1]] = IF h[1] = p THEN <<g>> ELSE doomed[h[1]]
      BY <1>1, <2>1, <2>2 DEF Refers, FileShape
    <3>2. \A i : Item(<<g>>, i) = (IF i = 1 THEN g ELSE NoFile) /\ Item(<<>>, i) = NoFile
      BY DEF Item
    <3>3. h # u /\ (h = v <=> h[1] = p /\ h[2][2] = 1)
      BY <2>1, <2>2
    <3> HIDE DEF u, v
    <3>4. QED
      BY <1>1, <3>1, <3>2, <3>3
  <2>3. CASE h[2][1] = "ofile"
    <3>1. /\ Refers'[h] = Item(ofile'[h[1]], h[2][2]) /\ Refers[h] = Item(ofile[h[1]], h[2][2])
          /\ h[1] # p => ofile'[h[1]] = ofile[h[1]]
          /\ ofile'[p] = [ofile[p] EXCEPT ![fd] = NoFile] /\ ofile[p] \in [Fds -> Files \cup {NoFile}]
      BY <1>1, <2>1, <2>3 DEF Refers, FileShape
    <3>2. \A i : Item(ofile'[p], i) = IF i = fd THEN NoFile ELSE Item(ofile[p], i)
      BY <3>1 DEF Item
    <3>3. h # v /\ (h = u <=> h[1] = p /\ h[2][2] = fd)
      BY <2>1, <2>3
    <3> HIDE DEF u, v
    <3>4. QED
      BY <3>1, <3>2, <3>3
  <2>4. CASE h[2][1] \notin {"ofile", "doomed"}
    <3>1. h # u /\ h # v
      BY <2>4
    <3>2. Refers'[h] = Refers[h]
      BY <1>1, <2>1, <2>4 DEF Refers, Handles
    <3>3. QED
      BY <3>1, <3>2
  <2>5. QED
    BY <2>2, <2>3, <2>4
<1> HIDE DEF u, v
<1>5. RefsAgree'
  <2>1. /\ Refers'[u] = Refers[v] /\ Refers'[v] = Refers[u]
        /\ \A h \in Handles \ {u, v} : Refers'[h] = Refers[h]
    BY <1>3, <1>4
  <2>2. \A f \in Files : Uses(f, Refers') = Uses(f, Refers)
    BY <1>3, <2>1, Swapped
  <2>3. QED
    BY <1>1, <2>2 DEF RefsAgree, Uses
<1>6. FileShape'
  <2>1. ofile' \in [Procs -> [Fds -> Files \cup {NoFile}]] /\ doomed' \in [Procs -> Seq(Files)]
    BY <1>1, <1>2 DEF FileShape
  <2>2. pc' \in [Procs -> Places] /\ op' = [q \in Procs |-> op'[q]]
    BY <1>1 DEF FileShape, Places
  <2>3. QED
    BY <1>1, <2>1, <2>2 DEF FileShape
<1>7. OneHolder' /\ EndsAgree'
  BY <1>1 DEF OneHolder, EndsAgree, Held
<1>8. ASSUME NEW q \in Procs
      PROVE  IF q = p THEN /\ pc'[q] = "busy" /\ op'[q] = "close" /\ doomed'[q] = <<g>>
             ELSE /\ pc'[q] = pc[q] /\ op'[q] = op[q] /\ doomed'[q] = doomed[q]
                  /\ ofile'[q] = ofile[q]
  BY <1>1 DEF FileShape
<1>9. CallsAgree'
  <2>1. Len(<<>>) = 0 /\ Len(<<g>>) = 1
    OBVIOUS
  <2>2. QED
    BY <1>1, <1>8, <2>1 DEF CallsAgree, InPipe
<1>10. UsersHoldEnds'
  BY <1>1, <1>8 DEF UsersHoldEnds, Working
<1>11. QED
  BY <1>5, <1>6, <1>7, <1>9, <1>10 DEF FileInv

(* fileclose, under ftable.lock, of a file the process refers to at v.     *)
Closes(p, f, v) ==
    /\ FileClose(p, f) /\ op[p] # "pipe"
    /\ v[1] = p /\ Refers[v] = f
    /\ ofile' \in [Procs -> [Fds -> Files \cup {NoFile}]]
    /\ doomed' \in [Procs -> Seq(Files)] /\ Len(doomed'[p]) <= 2
    /\ \A q \in Procs \ {p} : ofile'[q] = ofile[q] /\ doomed'[q] = doomed[q]
    /\ \A g \in Files : Uses(g, Refers') = Uses(g, Refers) - IF g = f THEN 1 ELSE 0

LEMMA CloseOne ==
    ASSUME FileInv, NEW p \in Procs, NEW f \in Files, NEW v \in Handles, Closes(p, f, v)
    PROVE  FileInv'
<1>0. /\ FileClose(p, f) /\ op[p] # "pipe"
      /\ v[1] = p /\ Refers[v] = f
      /\ ofile' \in [Procs -> [Fds -> Files \cup {NoFile}]]
      /\ doomed' \in [Procs -> Seq(Files)] /\ Len(doomed'[p]) <= 2
      /\ \A q \in Procs \ {p} : ofile'[q] = ofile[q] /\ doomed'[q] = doomed[q]
      /\ \A g \in Files : Uses(g, Refers') = Uses(g, Refers) - IF g = f THEN 1 ELSE 0
  BY DEF Closes
<1> DEFINE end == IF LastRef(f) /\ type[f] \in Ends THEN type[f] ELSE "none"
<1>1. /\ FileShape /\ RefsAgree /\ CallsAgree /\ OneHolder /\ EndsAgree /\ UsersHoldEnds
      /\ UNCHANGED <<readopen, writeopen, inuse, op, fresh>>
      /\ pc[p] = "busy" /\ pc' = [pc EXCEPT ![p] = IF end = "none" THEN @ ELSE "closing"]
      /\ ref' = [ref EXCEPT ![f] = @ - 1] /\ type' = [type EXCEPT ![f] = TypeLeft(f)]
      /\ ending' = [ending EXCEPT ![p] = end]
      /\ fresh[p] = <<>> /\ ending[p] = "none"
  BY <1>0 DEF FileInv, FileClose, ends, call, CallsAgree, InPipe
<1>2. ref[f] \in Nat /\ ref[f] >= 1 /\ (LastRef(f) <=> ref[f] - 1 = 0)
  <2>1. ref[f] \in Nat /\ ref[f] = Uses(f, Refers)
    BY <1>1 DEF FileShape, RefsAgree
  <2>2. Uses(f, Refers) >= 1
    BY <1>0, RefCounts
  <2>3. QED
    BY <2>1, <2>2 DEF LastRef
<1>3. /\ end \in {"none"} \cup Ends
      /\ end # "none" => end = type[f] /\ ref[f] = 1
      /\ type[f] \in Ends /\ ref[f] = 1 => end = type[f]
  BY DEF LastRef, Ends
<1> HIDE DEF end
<1>4. /\ \A g \in Files : /\ g # f => ref'[g] = ref[g] /\ type'[g] = type[g]
                          /\ ref[g] \in Nat
      /\ ref'[f] = ref[f] - 1 /\ type'[f] = IF ref[f] = 1 THEN "none" ELSE type[f]
      /\ ref' \in [Files -> Nat] /\ type' \in [Files -> {"none", "inode"} \cup Ends]
  BY <1>1, <1>2 DEF FileShape, TypeLeft, LastRef
<1>5. /\ \A q \in Procs \ {p} : pc'[q] = pc[q] /\ ending'[q] = ending[q]
      /\ ending'[p] = end /\ pc'[p] = IF end = "none" THEN "busy" ELSE "closing"
      /\ ending' \in [Procs -> {"none"} \cup Ends] /\ pc' \in [Procs -> Places]
  BY <1>1, <1>3 DEF FileShape, Places
<1>6. FileShape'
  BY <1>0, <1>1, <1>4, <1>5 DEF FileShape
<1>7. RefsAgree'
  <2> SUFFICES ASSUME NEW g \in Files PROVE ref'[g] = Uses(g, Refers')
    BY DEF RefsAgree, Uses
  <2>1. Uses(g, Refers') = ref[g] - IF g = f THEN 1 ELSE 0
    BY <1>0, <1>1 DEF RefsAgree
  <2>2. QED
    BY <1>4, <2>1
<1>8. OneHolder'
  <2>1. \A g \in Files : ref'[g] = 0 => type'[g] = "none"
    BY <1>1, <1>2, <1>4 DEF OneHolder
  <2>2. /\ \A g \in Files : type'[g] \in Ends => type'[g] = type[g]
        /\ end # "none" => type'[f] = "none"
    BY <1>3, <1>4 DEF Ends
  <2>3. \A g, k \in Files : type'[g] \in Ends /\ type'[g] = type'[k] => g = k
    BY <1>1, <2>2 DEF OneHolder
  <2>4. \A g \in Files, q \in Procs : type'[g] \in Ends => ending'[q] # type'[g]
    <3> SUFFICES ASSUME NEW g \in Files, NEW q \in Procs, type'[g] \in Ends, ending'[q] = type'[g]
                 PROVE  FALSE
      OBVIOUS
    <3>1. type'[g] = type[g]
      BY <2>2
    <3>2. CASE q = p
      <4>1. end = type[g] /\ end # "none"
        BY <1>5, <3>1, <3>2 DEF Ends
      <4>2. g = f
        BY <1>1, <1>3, <3>1, <4>1 DEF OneHolder
      <4>3. QED
        BY <2>2, <4>1, <4>2 DEF Ends
    <3>3. CASE q # p
      BY <1>1, <1>5, <3>1, <3>3 DEF OneHolder
    <3>4. QED
      BY <3>2, <3>3
  <2>5. \A q, r \in Procs : ending'[q] \in Ends /\ ending'[q] = ending'[r] => q = r
    <3>1. \A q \in Procs \ {p} : end \in Ends => ending[q] # end
      BY <1>1, <1>3 DEF OneHolder, Ends
    <3>2. QED
      BY <1>1, <1>5, <3>1 DEF OneHolder
  <2>6. QED
    BY <2>1, <2>3, <2>4, <2>5 DEF OneHolder
<1>9. ASSUME NEW e \in Ends PROVE Held(e)' <=> Held(e)
  <2>1. ASSUME Held(e) PROVE Held(e)'
    <3>1. CASE \E q \in Procs : ending[q] = e
      <4>1. PICK q \in Procs : ending[q] = e
        BY <3>1
      <4>2. q # p
        BY <1>1, <4>1 DEF Ends
      <4>3. QED
        BY <1>5, <4>1, <4>2 DEF Held
    <3>2. CASE \E g \in Files : ref[g] > 0 /\ type[g] = e
      <4>1. PICK g \in Files : ref[g] > 0 /\ type[g] = e
        BY <3>2
      <4>2. CASE g = f /\ ref[f] = 1
        BY <1>3, <1>5, <4>1, <4>2 DEF Held
      <4>3. CASE ~(g = f /\ ref[f] = 1)
        <5>1. ref'[g] > 0 /\ type'[g] = e
          BY <1>2, <1>4, <4>1, <4>3
        <5>2. QED
          BY <5>1 DEF Held
      <4>4. QED
        BY <4>2, <4>3
    <3>3. QED
      BY <2>1, <3>1, <3>2 DEF Held
  <2>2. ASSUME Held(e)' PROVE Held(e)
    <3>1. CASE \E q \in Procs : ending'[q] = e
      <4>1. PICK q \in Procs : ending'[q] = e
        BY <3>1
      <4>2. CASE q = p
        <5>1. end = e /\ end # "none"
          BY <1>5, <4>1, <4>2 DEF Ends
        <5>2. type[f] = e /\ ref[f] > 0
          BY <1>3, <5>1
        <5>3. QED
          BY <5>2 DEF Held
      <4>3. CASE q # p
        BY <1>5, <4>1, <4>3 DEF Held
      <4>4. QED
        BY <4>2, <4>3
    <3>2. CASE \E g \in Files : ref'[g] > 0 /\ type'[g] = e
      <4>1. PICK g \in Files : ref'[g] > 0 /\ type'[g] = e
        BY <3>2
      <4>2. ref[g] > 0 /\ type[g] = e
        BY <1>2, <1>4, <4>1 DEF Ends
      <4>3. QED
        BY <4>2 DEF Held
    <3>3. QED
      BY <2>2, <3>1, <3>2 DEF Held
  <2>3. QED
    BY <2>1, <2>2
<1>10. EndsAgree'
  <2>1. (Held("read")' <=> Held("read")) /\ (Held("write")' <=> Held("write"))
    BY <1>9 DEF Ends
  <2>2. QED
    BY <1>1, <2>1 DEF EndsAgree
<1>11. CallsAgree'
  <2>1. ASSUME NEW q \in Procs \ {p}
        PROVE  UNCHANGED <<pc[q], op[q], ofile[q], doomed[q], fresh[q], ending[q]>>
    BY <1>0, <1>1, <1>5
  <2>2. pc'[p] \in {"busy", "closing"} /\ fresh'[p] = <<>> /\ op'[p] # "pipe"
        /\ (ending'[p] # "none" <=> pc'[p] = "closing") /\ Len(<<>>) = 0
    BY <1>0, <1>1, <1>3, <1>5 DEF Ends
  <2> SUFFICES ASSUME NEW q \in Procs
               PROVE  /\ Len(fresh'[q]) <= 2 /\ Len(doomed'[q]) <= 2
                      /\ Len(fresh'[q]) = 2 => fresh'[q][1] # fresh'[q][2]
                      /\ fresh'[q] # <<>> => InPipe(q)'
                      /\ doomed'[q] # <<>> => pc'[q] \in {"busy", "closing"} /\ op'[q] # "pipe"
                      /\ pc'[q] = "none" => ofile'[q] = Nothing
                      /\ ending'[q] # "none" <=> pc'[q] = "closing"
    BY DEF CallsAgree, InPipe
  <2>3. CASE q = p
    BY <1>0, <2>2, <2>3 DEF Places
  <2>4. CASE q # p
    BY <1>1, <2>1, <2>4 DEF CallsAgree, InPipe
  <2>5. QED
    BY <2>3, <2>4
<1>12. UsersHoldEnds'
  <2> SUFFICES ASSUME NEW q \in Procs, Working(q)'
               PROVE  /\ op'[q] \in Ends
                      /\ \E fd \in Fds : ofile'[q][fd] # NoFile /\ type'[ofile'[q][fd]] = op'[q]
    BY DEF UsersHoldEnds
  <2>1. q # p /\ Working(q) /\ op'[q] = op[q] /\ ofile'[q] = ofile[q]
    BY <1>0, <1>1, <1>5 DEF Working
  <2>2. op[q] \in Ends
    BY <1>1, <2>1 DEF UsersHoldEnds
  <2>3. PICK fd \in Fds : ofile[q][fd] # NoFile /\ type[ofile[q][fd]] = op[q]
    BY <1>1, <2>1 DEF UsersHoldEnds
  <2>4. ofile[q][fd] \in Files
    BY <1>1, <2>3 DEF FileShape
  <2>5. ofile[q][fd] = f => ref[f] # 1
    <3>1. <<q, <<"ofile", fd>>>> \in Handles \ {v} /\ Refers[<<q, <<"ofile", fd>>>>] = ofile[q][fd]
      BY <1>0, <1>1, <2>1, RefersIs
    <3>2. ofile[q][fd] = f => Uses(f, Refers) >= 2
      BY <1>0, <3>1, RefCounts
    <3>3. QED
      BY <1>1, <1>2, <3>2 DEF RefsAgree
  <2>6. type'[ofile[q][fd]] = op[q]
    BY <1>4, <2>3, <2>4, <2>5
  <2>7. QED
    BY <2>1, <2>2, <2>3, <2>6
<1>13. QED
  BY <1>6, <1>7, <1>8, <1>10, <1>11, <1>12 DEF FileInv

(* One of the files a process has yet to close.                            *)
LEMMA CloseDoomedStep ==
    ASSUME FileInv, NEW p \in Procs, CloseDoomed(p)
    PROVE  FileInv'
<1> DEFINE f == Head(doomed[p])
           u == <<p, <<"doomed", 1>>>>
           v == <<p, <<"doomed", 2>>>>
           mid == [Refers EXCEPT ![u] = NoFile]
<1>1. /\ FileShape /\ doomed[p] \in Seq(Files) /\ doomed[p] # <<>> /\ Len(doomed[p]) <= 2
      /\ op[p] # "pipe" /\ FileClose(p, f) /\ fresh' = fresh /\ ofile' = ofile
      /\ doomed' = [doomed EXCEPT ![p] = Tail(doomed[p])]
  BY DEF FileInv, FileShape, CallsAgree, CloseDoomed, FileClose
<1>2. /\ f \in Files /\ f = doomed[p][1] /\ Tail(doomed[p]) \in Seq(Files)
      /\ Len(doomed[p]) \in Nat /\ Len(doomed[p]) >= 1
      /\ Len(Tail(doomed[p])) = Len(doomed[p]) - 1
      /\ \A i \in 1 .. Len(doomed[p]) - 1 : Tail(doomed[p])[i] = doomed[p][i + 1]
  BY <1>1
<1>3. doomed' \in [Procs -> Seq(Files)] /\ \A q \in Procs \ {p} : doomed'[q] = doomed[q]
  BY <1>1, <1>2 DEF FileShape
<1>4. u \in Handles /\ v \in Handles /\ u # v /\ u[1] = p
  BY DEF Handles
<1>5. /\ Refers \in [Handles -> Files \cup {NoFile}]
      /\ Refers[u] = f /\ Refers[v] = Item(doomed[p], 2)
  BY <1>1, <1>2, <1>4, RefersIs DEF Refers, Item
<1>6. ASSUME NEW h \in Handles
      PROVE  Refers'[h] = IF h = u THEN Refers[v] ELSE IF h = v THEN NoFile ELSE Refers[h]
  <2>1. h = <<h[1], <<h[2][1], h[2][2]>>>> /\ h[1] \in Procs
    BY DEF Handles
  <2>2. CASE h[2][1] = "doomed"
    <3>1. /\ Refers'[h] = Item(doomed'[h[1]], h[2][2]) /\ Refers[h] = Item(doomed[h[1]], h[2][2])
          /\ doomed'[h[1]] = IF h[1] = p THEN Tail(doomed[p]) ELSE doomed[h[1]]
      BY <1>1, <2>1, <2>2 DEF Refers, FileShape
    <3>2. /\ Item(Tail(doomed[p]), 1) = Item(doomed[p], 2) /\ Item(Tail(doomed[p]), 2) = NoFile
          /\ \A i : i \notin {1, 2} => Item(Tail(doomed[p]), i) = NoFile /\ Item(doomed[p], i) = NoFile
      <4>1. DOMAIN doomed[p] = 1 .. Len(doomed[p]) /\ DOMAIN Tail(doomed[p]) = 1 .. Len(doomed[p]) - 1
        BY <1>1, <1>2
      <4>2. Len(doomed[p]) \in {1, 2}
        <5>1. \A n \in Nat : n >= 1 /\ n <= 2 => n \in {1, 2}
          OBVIOUS
        <5>2. QED
          BY <1>1, <1>2, <5>1
      <4>3. CASE Len(doomed[p]) = 1
        BY <4>1, <4>3 DEF Item
      <4>4. CASE Len(doomed[p]) = 2
        <5>1. Tail(doomed[p])[1] = doomed[p][2]
          BY <1>2, <4>4
        <5>2. QED
          BY <4>1, <4>4, <5>1 DEF Item
      <4>5. QED
        BY <4>2, <4>3, <4>4
    <3>3. (h = u <=> h[1] = p /\ h[2][2] = 1) /\ (h = v <=> h[1] = p /\ h[2][2] = 2)
      BY <2>1, <2>2
    <3> HIDE DEF u, v
    <3>4. QED
      BY <1>5, <3>1, <3>2, <3>3
  <2>3. CASE h[2][1] # "doomed"
    <3>1. h # u /\ h # v
      BY <2>3
    <3>2. Refers'[h] = Refers[h]
      BY <1>1, <2>1, <2>3 DEF Refers, Handles
    <3>3. QED
      BY <3>1, <3>2
  <2>4. QED
    BY <2>2, <2>3
<1> HIDE DEF f, u, v
<1>7. ASSUME NEW g \in Files
      PROVE  Uses(g, Refers') = Uses(g, Refers) - IF g = f THEN 1 ELSE 0
  <2>1. Uses(g, mid) = Uses(g, Refers) - IF g = f THEN 1 ELSE 0
    <3>1. \A w \in Handles : Refers[w] \in Files =>
            Uses(g, [Refers EXCEPT ![w] = NoFile]) = Uses(g, Refers) - IF g = Refers[w] THEN 1 ELSE 0
      BY <1>5, DropRef
    <3>2. QED
      BY <1>2, <1>4, <1>5, <3>1
  <2>2. Refers'[u] = mid[v] /\ Refers'[v] = mid[u] /\ \A h \in Handles \ {u, v} : Refers'[h] = mid[h]
    BY <1>4, <1>5, <1>6
  <2> HIDE DEF mid
  <2>3. Uses(g, Refers') = Uses(g, mid)
    BY <1>4, <2>2, Swapped
  <2>4. QED
    BY <2>1, <2>3
<1>8. Len(doomed'[p]) <= 2
  BY <1>1, <1>2 DEF FileShape
<1>9. ofile' = ofile /\ ofile' \in [Procs -> [Fds -> Files \cup {NoFile}]]
  BY <1>1 DEF FileShape
<1>10. FileClose(p, f) /\ op[p] # "pipe" /\ f \in Files
  BY <1>1, <1>2
<1>11. Closes(p, f, u)
  BY <1>3, <1>4, <1>5, <1>7, <1>8, <1>9, <1>10 DEF Closes
<1>12. QED
  BY <1>4, <1>10, <1>11, CloseOne

(* The next of exit()'s descriptors.                                       *)
LEMMA CloseNextStep ==
    ASSUME FileInv, NEW p \in Procs, CloseNext(p)
    PROVE  FileInv'
<1> DEFINE fd == Lowest(OpenFds(p))
           f == ofile[p][fd]
           v == <<p, <<"ofile", fd>>>>
<1>1. /\ FileShape /\ op[p] = "exit" /\ FileClose(p, f) /\ fresh' = fresh /\ doomed' = doomed
      /\ ofile' = [ofile EXCEPT ![p][fd] = NoFile] /\ Len(doomed[p]) <= 2 /\ OpenFds(p) # {}
  BY DEF FileInv, CallsAgree, CloseNext, FileClose
<1>2. fd \in Fds /\ f \in Files
  <2>1. OpenFds(p) \subseteq Nat
    BY DEF OpenFds, Fds
  <2>2. fd \in OpenFds(p)
    BY <1>1, <2>1, LowestIn
  <2>3. QED
    BY <1>1, <2>2 DEF OpenFds, FileShape
<1> HIDE DEF fd
<1>3. /\ ofile' \in [Procs -> [Fds -> Files \cup {NoFile}]]
      /\ Refers' = [Refers EXCEPT ![v] = NoFile]
  BY <1>1, <1>2, OneDescriptor
<1>4. /\ Refers \in [Handles -> Files \cup {NoFile}] /\ v \in Handles /\ v[1] = p /\ Refers[v] = f
  BY <1>1, <1>2, RefersIs
<1> HIDE DEF f, v
<1>5. ASSUME NEW g \in Files
      PROVE  Uses(g, Refers') = Uses(g, Refers) - IF g = f THEN 1 ELSE 0
  BY <1>2, <1>3, <1>4, DropRef
<1>6. /\ doomed' \in [Procs -> Seq(Files)] /\ Len(doomed'[p]) <= 2
      /\ \A q \in Procs \ {p} : ofile'[q] = ofile[q] /\ doomed'[q] = doomed[q]
  BY <1>1 DEF FileShape
<1>7. FileClose(p, f) /\ op[p] # "pipe" /\ f \in Files
  BY <1>1, <1>2
<1>8. ofile' \in [Procs -> [Fds -> Files \cup {NoFile}]]
  BY <1>3
<1>9. Closes(p, f, v)
  BY <1>4, <1>5, <1>6, <1>7, <1>8 DEF Closes
<1>10. QED
  BY <1>4, <1>7, <1>9, CloseOne

(* pipeclose: the process was the last to hold its end.                    *)
LEMMA PipeCloseStep ==
    ASSUME FileInv, NEW p \in Procs, PipeClose(p)
    PROVE  FileInv'
<1>0. PICK e : e = ending[p]
  OBVIOUS
<1>1. /\ FileShape /\ RefsAgree /\ CallsAgree /\ OneHolder /\ EndsAgree /\ UsersHoldEnds
      /\ UNCHANGED <<op, ref, type, ofile, fresh, doomed>> /\ pc[p] = "closing"
      /\ pc' = [Wakeup(Opposite(e)) EXCEPT ![p] = "busy"]
      /\ ending' = [ending EXCEPT ![p] = "none"]
      /\ writeopen' = (writeopen /\ e # "write") /\ readopen' = (readopen /\ e # "read")
      /\ inuse' = (readopen' \/ writeopen')
  BY <1>0 DEF FileInv, PipeClose, CloseEnd, StillUsed, call
<1>2. e \in Ends
  BY <1>0, <1>1 DEF FileShape, CallsAgree, Ends
<1>3. /\ Wakeup(Opposite(e)) \in [Procs -> Places]
      /\ \A q \in Procs : \/ Wakeup(Opposite(e))[q] = pc[q]
                          \/ pc[q] = "asleep" /\ Wakeup(Opposite(e))[q] = "acquire"
  BY <1>1 DEF Wakeup, Sleeping, FileShape, Places
<1>4. /\ pc' \in [Procs -> Places] /\ pc'[p] = "busy"
      /\ \A q \in Procs \ {p} : pc'[q] = pc[q] \/ (pc[q] = "asleep" /\ pc'[q] = "acquire")
      /\ ending' \in [Procs -> {"none"} \cup Ends] /\ ending'[p] = "none"
      /\ \A q \in Procs \ {p} : ending'[q] = ending[q]
  BY <1>1, <1>3 DEF FileShape, Places
<1>5. FileShape'
  BY <1>1, <1>4 DEF FileShape
<1>6. RefsAgree'
  BY <1>1 DEF RefsAgree, Refers, Uses
<1>7. CallsAgree'
  <2>1. fresh[p] = <<>>
    BY <1>1 DEF CallsAgree, InPipe
  <2>2. QED
    BY <1>1, <1>4, <2>1 DEF CallsAgree, InPipe
<1>8. OneHolder'
  BY <1>1, <1>4 DEF OneHolder, Ends
<1>9. EndsAgree'
  <2>1. /\ \A f \in Files : type[f] # e
        /\ \A q \in Procs : ending'[q] # e
    BY <1>0, <1>1, <1>2, <1>4 DEF OneHolder, Ends
  <2>2. ~Held(e)'
    BY <1>1, <2>1 DEF Held
  <2>3. ASSUME NEW other \in Ends, other # e PROVE Held(other)' <=> Held(other)
    BY <1>0, <1>1, <1>4, <2>3 DEF Held, Ends
  <2>4. CASE e = "read"
    <3>1. ~Held("read")' /\ (Held("write")' <=> Held("write"))
      BY <2>2, <2>3, <2>4 DEF Ends
    <3>2. QED
      BY <1>1, <2>4, <3>1 DEF EndsAgree
  <2>5. CASE e = "write"
    <3>1. ~Held("write")' /\ (Held("read")' <=> Held("read"))
      BY <2>2, <2>3, <2>5 DEF Ends
    <3>2. QED
      BY <1>1, <2>5, <3>1 DEF EndsAgree
  <2>6. QED
    BY <1>2, <2>4, <2>5 DEF Ends
<1>10. UsersHoldEnds'
  BY <1>1, <1>4 DEF UsersHoldEnds, Working
<1>11. QED
  BY <1>5, <1>6, <1>7, <1>8, <1>9, <1>10 DEF FileInv

-----------------------------------------------------------------------------
(* The first process has the console and nothing else is open.             *)
LEMMA InitHolds == Init => FileInv
<1> SUFFICES ASSUME Init PROVE FileInv
  OBVIOUS
<1>1. /\ ~readopen /\ ~writeopen /\ ~inuse
      /\ op = [p \in Procs |-> "none"]
      /\ pc = [p \in Procs |-> IF p = FirstProc THEN "user" ELSE "none"]
      /\ ref = [f \in Files |-> IF f = 1 THEN 1 ELSE 0]
      /\ type = [f \in Files |-> IF f = 1 THEN "inode" ELSE "none"]
      /\ ofile = [p \in Procs |-> IF p = FirstProc THEN [Nothing EXCEPT ![0] = 1] ELSE Nothing]
      /\ fresh = [p \in Procs |-> <<>>] /\ doomed = [p \in Procs |-> <<>>]
      /\ ending = [p \in Procs |-> "none"]
  BY DEF Init, PipeInit
<1>2. 1 \in Files /\ 0 \in Fds /\ FirstProc \in Procs /\ NoFile \notin Files
  BY FileAssumption DEF Files, Fds
<1>3. /\ \A p \in Procs : ofile[p] \in [Fds -> Files \cup {NoFile}]
      /\ \A p \in Procs : \A fd \in Fds :
           ofile[p][fd] = IF p = FirstProc /\ fd = 0 THEN 1 ELSE NoFile
  BY <1>1, <1>2 DEF Nothing
<1>4. FileShape
  <2>1. ofile \in [Procs -> [Fds -> Files \cup {NoFile}]]
    BY <1>1, <1>3
  <2>2. fresh \in [Procs -> Seq(Files)] /\ doomed \in [Procs -> Seq(Files)]
    BY <1>1
  <2>3. /\ {readopen, writeopen, inuse} \subseteq BOOLEAN
        /\ pc \in [Procs -> Places] /\ op = [p \in Procs |-> op[p]]
        /\ ref \in [Files -> Nat]
        /\ type \in [Files -> {"none", "inode"} \cup Ends]
        /\ ending \in [Procs -> {"none"} \cup Ends]
    <3>1. {readopen, writeopen, inuse} \subseteq BOOLEAN
      BY DEF Init, PipeInit
    <3>2. QED
      BY <1>1, <3>1 DEF Places
  <2>4. QED
    BY <2>1, <2>2, <2>3 DEF FileShape
<1>5. RefsAgree
  <2> DEFINE u == <<FirstProc, <<"ofile", 0>>>>
  <2>1. ASSUME NEW h \in Handles PROVE Refers[h] = IF h = u THEN 1 ELSE NoFile
    <3>1. h = <<h[1], <<h[2][1], h[2][2]>>>> /\ h[1] \in Procs
      BY DEF Handles
    <3>2. CASE h[2][1] = "ofile"
      <4>1. Refers[h] = Item(ofile[h[1]], h[2][2])
        BY <3>2 DEF Refers
      <4>2. Item(ofile[h[1]], h[2][2]) = IF h[1] = FirstProc /\ h[2][2] = 0 THEN 1 ELSE NoFile
        BY <1>2, <1>3, <3>1 DEF Item
      <4>3. h = u <=> h[1] = FirstProc /\ h[2][2] = 0
        BY <3>1, <3>2
      <4> HIDE DEF u
      <4>4. QED
        BY <4>1, <4>2, <4>3
    <3>3. CASE h[2][1] # "ofile"
      <4>1. Refers[h] = Item(<<>>, h[2][2])
        BY <1>1, <3>1, <3>3 DEF Refers
      <4>2. h # u /\ Item(<<>>, h[2][2]) = NoFile
        BY <3>3 DEF Item
      <4>3. QED
        BY <4>1, <4>2
    <3>4. QED
      BY <3>2, <3>3
  <2>2. u \in Handles
    BY <1>2 DEF Handles
  <2> HIDE DEF u
  <2>3. {h \in Handles : Refers[h] = 1} = {u}
    BY <1>2, <2>1, <2>2
  <2>4. \A f \in Files \ {1} : {h \in Handles : Refers[h] = f} = {}
    BY <1>2, <2>1
  <2>5. Cardinality({u}) = 1 /\ Cardinality({}) = 0
    BY FS_Singleton, FS_EmptySet
  <2>6. ASSUME NEW f \in Files PROVE ref[f] = Uses(f, Refers)
    BY <1>1, <2>3, <2>4, <2>5 DEF Uses
  <2>7. QED
    BY <2>6 DEF RefsAgree
<1>6. CallsAgree
  <2>1. Len(<<>>) = 0
    OBVIOUS
  <2>2. QED
    BY <1>1, <2>1 DEF CallsAgree
<1>7. OneHolder /\ EndsAgree
  BY <1>1 DEF OneHolder, EndsAgree, Held, Ends
<1>8. UsersHoldEnds
  BY <1>1 DEF UsersHoldEnds, Working
<1>9. QED
  BY <1>4, <1>5, <1>6, <1>7, <1>8 DEF FileInv

(* Every step of the kernel, and a step of nobody.                         *)
LEMMA StepHolds == FileInv /\ [Next]_vars => FileInv'
<1> SUFFICES ASSUME FileInv, [Next]_vars PROVE FileInv'
  OBVIOUS
<1>1. CASE UNCHANGED vars
  <2>1. UNCHANGED <<fvars, ends, pc, op>>
    BY <1>1 DEF vars, pvars, call
  <2>2. pc' \in [Procs -> Places] /\ op' = [p \in Procs |-> op'[p]] /\ \A p \in Procs : Goes(p)
    BY <2>1 DEF FileInv, FileShape, Goes
  <2>3. QED
    BY <2>1, <2>2, QuietStep
<1>2. ASSUME NEW p \in Procs,
             PipeStep(p) \/ SystemCall(p) \/ Spin(p) \/ FileStep(p) \/ PipeClose(p) \/ Killed(p)
      PROVE  FileInv'
  <2>1. CASE PipeStep(p) \/ Spin(p) \/ Killed(p)
    BY <2>1, PipeSteps
  <2>2. CASE SystemCall(p)
    <3>1. ASSUME NEW fd \in Fds, Dup(p, fd) \/ Close(p, fd) PROVE FileInv'
      BY <3>1, DupStep, CloseStep
    <3>2. ASSUME NEW child \in Procs, Fork(p, child) PROVE FileInv'
      BY <3>2, ForkStep
    <3>3. QED
      BY <2>2, <3>1, <3>2, CallSteps DEF SystemCall
  <2>3. CASE PipeFile(p)
    BY <2>3, PipeFileStep
  <2>4. CASE PipeNoPage(p)
    BY <2>4, GiveBackStep DEF PipeNoPage
  <2>5. CASE PipePage(p)
    BY <2>5, PipePageStep
  <2>6. CASE CloseDoomed(p)
    BY <2>6, CloseDoomedStep
  <2>7. CASE CloseNext(p)
    BY <2>7, CloseNextStep
  <2>8. CASE Done(p)
    BY <2>8, CallSteps
  <2>9. CASE PipeClose(p)
    BY <2>9, PipeCloseStep
  <2>10. QED
    BY <1>2, <2>1, <2>2, <2>3, <2>4, <2>5, <2>6, <2>7, <2>8, <2>9 DEF FileStep
<1>3. QED
  BY <1>1, <1>2 DEF Next

-----------------------------------------------------------------------------
(* The inductive invariant holds whatever the processes do.                *)
THEOREM FileInvariant == Spec => []FileInv
<1>1. Init => FileInv
  BY InitHolds
<1>2. FileInv /\ [Next]_vars => FileInv'
  BY StepHolds
<1>3. QED
  BY <1>1, <1>2, PTL DEF Spec

(* filedup, fileclose and the copies that fork(), dup() and pipe() make:   *)
(* no count is ever too high, so that every file is freed, or too low, so  *)
(* that none is freed under a descriptor.                                  *)
THEOREM CountsAgree == Spec => []RefsAgree
<1>1. FileInv => RefsAgree
  BY DEF FileInv
<1>2. QED
  BY <1>1, FileInvariant, PTL

(* fileclose and pipeclose: an end is closed when, and only when, its last *)
(* holder is gone, and the page is freed with the second.                  *)
THEOREM EndsFollowHolders == Spec => []EndsAgree
<1>1. FileInv => EndsAgree
  BY DEF FileInv
<1>2. QED
  BY <1>1, FileInvariant, PTL

(* piperead and pipewrite, asleep ones included, never touch a page that   *)
(* pipeclose has given to kfree.                                           *)
THEOREM PipeOutlivesUsers == Spec => []NoUseAfterFree
<1>1. FileInv => NoUseAfterFree
  BY UserHolds DEF NoUseAfterFree, Ends
<1>2. QED
  BY <1>1, FileInvariant, PTL
=============================================================================
