------------------------------- MODULE PipeUsers -------------------------------
(***************************************************************************)
(* A pipe between processes that only read and processes that only write,  *)
(* as the shell makes them (sh.c): the ends are closed as they leave, in   *)
(* any order.  What the pipe promises is ByteStream.                       *)
(***************************************************************************)
EXTENDS Pipe

CONSTANTS Readers, Writers

ASSUME UserAssumption ==
    Procs # {} /\ Procs = Readers \cup Writers /\ Readers \cap Writers = {}

vars == pvars

Init == PipeInit(TRUE) /\ pc = [p \in Procs |-> "user"]

End(p) == IF p \in Readers THEN "read" ELSE "write"

Use(p) ==
    /\ ~killed[p]
    /\ \E n \in (IF p \in Readers THEN ReadCounts ELSE WriteCounts) : Call(p, End(p), n)

(* A process leaves, by close() or exit(): the last one closes the end.    *)
Leave(p) ==
    /\ pc[p] = "user"
    /\ IF \E other \in Procs \ {p} : End(other) = End(p) /\ pc[other] # "busy"
       THEN pc' = [pc EXCEPT ![p] = "busy"] /\ UNCHANGED <<ring, ends, plock, call, killed>>
       ELSE CloseEnd(p, End(p))

Next ==
    \E p \in Procs :
      \/ InKernel(p)
      \/ /\ Use(p) \/ Acquire(p) \/ Leave(p) \/ (pc[p] # "busy" /\ Kill(p))
         /\ out' = NoResult

Spec == Init /\ [][Next]_vars

(* A process in the kernel goes on until it sleeps or returns; a CPU that  *)
(* spins in acquire() gets the lock if it is free again and again; a       *)
(* killed process exits.  Nobody has to call, to leave or to kill.         *)
Fairness ==
    \A p \in Procs :
      /\ WF_vars(InKernel(p) \/ (killed[p] /\ Leave(p) /\ out' = NoResult))
      /\ SF_vars(Acquire(p) /\ out' = NoResult)

FairSpec == Spec /\ Fairness

-----------------------------------------------------------------------------
(* While a writer sleeps the pipe is full and open for reading; while a    *)
(* reader sleeps the pipe is open for writing, and empty unless a writer   *)
(* is about to wake it.  The exception: a writer that is killed over a     *)
(* full pipe wakes nobody.                                                 *)
AboutToWake(end) == plock # Nobody /\ Holding(plock, end)

WakeupsArrive ==
    /\ \A p \in Writers : pc[p] = "asleep" => Full /\ readopen
    /\ \A p \in Readers : pc[p] = "asleep" =>
         /\ writeopen
         /\ Empty \/ AboutToWake("write") \/ \E w \in Writers : killed[w]

(* Where a process is, what it has called, whether it has the lock and     *)
(* whether its end is open agree; who is about to sleep has a reason.      *)
UsersAgree ==
    \A p \in Procs :
      /\ pc[p] \in {"user", "acquire", "hold", "drowsy", "asleep", "busy"}
      /\ op[p] = IF Working(p) THEN End(p) ELSE "none"
      /\ plock = p <=> pc[p] \in {"hold", "drowsy"}
      /\ pc[p] # "busy" => (IF p \in Readers THEN readopen ELSE writeopen)
      /\ pc[p] = "drowsy" => IF p \in Readers THEN Empty /\ writeopen ELSE Full /\ readopen

(* The inductive invariant.                                                *)
PipeInv == PipeTypeOK /\ NeverLapped /\ UsersAgree /\ WakeupsArrive

(* "... we can be guaranteed that we won't miss any wakeup" (sleep): no    *)
(* reader sleeps while the pipe has bytes for it and nobody is at work.    *)
NoByteSleptOver ==
    \A p \in Readers : pc[p] = "asleep" => Empty \/ plock # Nobody

S == INSTANCE ByteStream WITH
       Bytes  <- Writers,
       Size   <- PIPESIZE,
       queue  <- Oldest(Count),
       asked  <- [p \in Readers |-> left[p]]

(* The ring and the sleeping implement the stream of bytes: in order, once *)
(* each, and an end of file only after the last of them.                   *)
ImplementsByteStream == S!Spec
===============================================================================
