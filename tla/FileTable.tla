------------------------------- MODULE FileTable -------------------------------
(***************************************************************************)
(* Open files (file.c), descriptors and the system calls on them           *)
(* (sysfile.c) over a pipe: pipe(), dup(), close(), fork(), exit(), read() *)
(* and write() of several processes, with the reference counts that decide *)
(* when an end of the pipe is closed.                                      *)
(*                                                                         *)
(* A step is one critical section of ftable.lock.  The loop of fork() that *)
(* duplicates every descriptor is one step: the parent's own references    *)
(* keep each file open throughout.  Memory has one page to spare, so that  *)
(* one pipe exists at a time and pipealloc may fail at each of its three   *)
(* allocations.  Files on disk are Inodes's part.                          *)
(***************************************************************************)
EXTENDS Pipe

CONSTANTS
    FirstProc,      \* the process all others come from: it never exits
    NFILE, NOFILE,  \* as in param.h
    MaxDup,         \* bound: dup() only of a file with fewer references
    NoFile

Files == 1 .. NFILE
Fds   == 0 .. NOFILE - 1

ASSUME FileAssumption ==
    /\ NFILE \in Nat \ {0} /\ NOFILE \in Nat \ {0}
    /\ MaxDup \in Nat
    /\ NoFile \notin Files
    /\ FirstProc \in Procs /\ IsFiniteSet(Procs)

VARIABLES
    ref,        \* the count of each file
    type,       \* "none", "inode", or "read" or "write" for an end of the pipe
    ofile,      \* the descriptors of each process
    fresh,      \* the files pipealloc has so far
    doomed,     \* the files a process has yet to call fileclose for
    ending      \* the end it is about to call pipeclose for

fvars == <<ref, type, ofile, fresh, doomed, ending>>
vars  == <<pvars, fvars>>

Ends == {"read", "write"}

Nothing == [fd \in Fds |-> NoFile]

(* One process, whose only file is the console.                            *)
Init ==
    /\ PipeInit(FALSE)
    /\ pc = [p \in Procs |-> IF p = FirstProc THEN "user" ELSE "none"]
    /\ ref = [f \in Files |-> IF f = 1 THEN 1 ELSE 0]
    /\ type = [f \in Files |-> IF f = 1 THEN "inode" ELSE "none"]
    /\ ofile = [p \in Procs |-> IF p = FirstProc THEN [Nothing EXCEPT ![0] = 1] ELSE Nothing]
    /\ fresh = [p \in Procs |-> <<>>] /\ doomed = [p \in Procs |-> <<>>]
    /\ ending = [p \in Procs |-> "none"]

UserFd(p, fd) == pc[p] = "user" /\ ~killed[p] /\ ofile[p][fd] # NoFile

FreeFds(p) == {fd \in Fds : ofile[p][fd] = NoFile}

(* fdalloc: the lowest free descriptors.                                   *)
Lowest(fds) == CHOOSE fd \in fds : \A other \in fds : fd <= other

-----------------------------------------------------------------------------
Read(p, fd, n) ==
    /\ UserFd(p, fd) /\ type[ofile[p][fd]] = "read"
    /\ Call(p, "read", n)
    /\ UNCHANGED fvars

Write(p, fd, n) ==
    /\ UserFd(p, fd) /\ type[ofile[p][fd]] = "write"
    /\ Call(p, "write", n)
    /\ UNCHANGED fvars

Dup(p, fd) ==
    /\ UserFd(p, fd) /\ FreeFds(p) # {} /\ ref[ofile[p][fd]] < MaxDup
    /\ ofile' = [ofile EXCEPT ![p][Lowest(FreeFds(p))] = ofile[p][fd]]
    /\ ref' = [ref EXCEPT ![ofile[p][fd]] = @ + 1]
    /\ UNCHANGED <<ring, ends, plock, pc, call, killed, type, fresh, doomed, ending>>

(* How many of the descriptors are a file's.                               *)
Refs(f, fds) == Cardinality({fd \in Fds : fds[fd] = f})

(* Mutant of Inherited: one reference per file, not per descriptor.        *)
InheritedOnce(p) == [f \in Files |-> IF Refs(f, ofile[p]) > 0 THEN ref[f] + 1 ELSE ref[f]]

Inherited(p) == [f \in Files |-> ref[f] + Refs(f, ofile[p])]

Fork(p, child) ==
    /\ pc[p] = "user" /\ ~killed[p] /\ pc[child] = "none"
    /\ pc' = [pc EXCEPT ![child] = "user"]
    /\ ofile' = [ofile EXCEPT ![child] = ofile[p]]
    /\ ref' = Inherited(p)
    /\ UNCHANGED <<ring, ends, plock, call, killed, type, fresh, doomed, ending>>

-----------------------------------------------------------------------------
(* pipe(): two files, a page, two descriptors; what was allocated is given *)
(* back if anything is missing.                                            *)
Pipe(p) ==
    /\ pc[p] = "user" /\ ~killed[p]
    /\ pc' = [pc EXCEPT ![p] = "busy"]
    /\ op' = [op EXCEPT ![p] = "pipe"]
    /\ UNCHANGED <<ring, ends, plock, left, killed, fvars>>

InPipe(p) == pc[p] = "busy" /\ op[p] = "pipe"

GiveBack(p) ==
    /\ doomed' = [doomed EXCEPT ![p] = fresh[p]]
    /\ fresh' = [fresh EXCEPT ![p] = <<>>]
    /\ op' = [op EXCEPT ![p] = "close"]

PipeFile(p) ==
    LET free == {f \in Files : ref[f] = 0} IN
    /\ InPipe(p) /\ Len(fresh[p]) < 2
    /\ IF free # {}
       THEN /\ ref' = [ref EXCEPT ![Lowest(free)] = 1]
            /\ fresh' = [fresh EXCEPT ![p] = Append(@, Lowest(free))]
            /\ UNCHANGED <<doomed, op>>
       ELSE GiveBack(p) /\ UNCHANGED ref
    /\ UNCHANGED <<ring, ends, plock, pc, left, killed, type, ofile, ending>>

PipeNoPage(p) ==
    /\ InPipe(p) /\ Len(fresh[p]) = 2 /\ inuse
    /\ GiveBack(p)
    /\ UNCHANGED <<ring, ends, plock, pc, left, killed, ref, type, ofile, ending>>

PipePage(p) ==
    LET rf == fresh[p][1]
        wf == fresh[p][2]
        fd0 == Lowest(FreeFds(p))
        fd1 == Lowest(FreeFds(p) \ {fd0})
    IN  /\ InPipe(p) /\ Len(fresh[p]) = 2 /\ ~inuse
        /\ Open
        /\ type' = [type EXCEPT ![rf] = "read", ![wf] = "write"]
        /\ IF Cardinality(FreeFds(p)) >= 2
           THEN /\ ofile' = [ofile EXCEPT ![p][fd0] = rf, ![p][fd1] = wf]
                /\ fresh' = [fresh EXCEPT ![p] = <<>>]
                /\ op' = [op EXCEPT ![p] = "close"]
                /\ UNCHANGED doomed
           ELSE GiveBack(p) /\ UNCHANGED ofile
        /\ UNCHANGED <<data, plock, pc, left, killed, ref, ending>>

-----------------------------------------------------------------------------
Close(p, fd) ==
    /\ UserFd(p, fd)
    /\ pc' = [pc EXCEPT ![p] = "busy"]
    /\ op' = [op EXCEPT ![p] = "close"]
    /\ ofile' = [ofile EXCEPT ![p][fd] = NoFile]
    /\ doomed' = [doomed EXCEPT ![p] = <<ofile[p][fd]>>]
    /\ UNCHANGED <<ring, ends, plock, left, killed, ref, type, fresh, ending>>

Exit(p) ==
    /\ pc[p] = "user" /\ p # FirstProc
    /\ pc' = [pc EXCEPT ![p] = "busy"]
    /\ op' = [op EXCEPT ![p] = "exit"]
    /\ UNCHANGED <<ring, ends, plock, left, killed, fvars>>

LastRef(f) == ref[f] = 1

(* Mutant of TypeLeft: the type stays for whoever has the file next.       *)
TypeKept(f) == type[f]

TypeLeft(f) == IF LastRef(f) THEN "none" ELSE type[f]

(* The first half of fileclose, under ftable.lock, ...                     *)
FileClose(p, f) ==
    LET end == IF LastRef(f) /\ type[f] \in Ends THEN type[f] ELSE "none" IN
    /\ pc[p] = "busy"
    /\ ref' = [ref EXCEPT ![f] = @ - 1]
    /\ type' = [type EXCEPT ![f] = TypeLeft(f)]
    /\ ending' = [ending EXCEPT ![p] = end]
    /\ pc' = [pc EXCEPT ![p] = IF end = "none" THEN @ ELSE "closing"]
    /\ UNCHANGED <<ring, ends, plock, call, killed, fresh>>

CloseDoomed(p) ==
    /\ doomed[p] # <<>>
    /\ FileClose(p, Head(doomed[p]))
    /\ doomed' = [doomed EXCEPT ![p] = Tail(@)]
    /\ UNCHANGED ofile

(* exit() closes what is open, in the order of the descriptors.            *)
OpenFds(p) == {fd \in Fds : ofile[p][fd] # NoFile}

CloseNext(p) ==
    LET fd == Lowest(OpenFds(p)) IN
    /\ op[p] = "exit" /\ OpenFds(p) # {}
    /\ FileClose(p, ofile[p][fd])
    /\ ofile' = [ofile EXCEPT ![p][fd] = NoFile]
    /\ UNCHANGED doomed

(* ... and the second, under the pipe's lock.                              *)
PipeClose(p) ==
    /\ pc[p] = "closing"
    /\ CloseEnd(p, ending[p])
    /\ ending' = [ending EXCEPT ![p] = "none"]
    /\ UNCHANGED <<ref, type, ofile, fresh, doomed>>

(* A system call with nothing more to close; an exited process is reaped.  *)
Done(p) ==
    /\ pc[p] = "busy" /\ op[p] # "pipe" /\ doomed[p] = <<>>
    /\ op[p] = "exit" => OpenFds(p) = {}
    /\ pc' = [pc EXCEPT ![p] = IF op[p] = "exit" THEN "none" ELSE "user"]
    /\ killed' = [killed EXCEPT ![p] = @ /\ op[p] # "exit"]
    /\ op' = [op EXCEPT ![p] = "none"]
    /\ UNCHANGED <<ring, ends, plock, left, fvars>>

-----------------------------------------------------------------------------
PipeStep(p) == InKernel(p) /\ UNCHANGED fvars
Spin(p) == Acquire(p) /\ UNCHANGED fvars
FileStep(p) ==
    \/ PipeFile(p) \/ PipeNoPage(p) \/ PipePage(p)
    \/ CloseDoomed(p) \/ CloseNext(p) \/ Done(p)

SystemCall(p) ==
    \/ \E fd \in Fds :
         \/ \E n \in ReadCounts : Read(p, fd, n)
         \/ \E n \in WriteCounts : Write(p, fd, n)
         \/ Dup(p, fd) \/ Close(p, fd)
    \/ \E child \in Procs : Fork(p, child)
    \/ Pipe(p)
    \/ Exit(p)

Killed(p) == p # FirstProc /\ Kill(p) /\ UNCHANGED fvars

Next ==
    \E p \in Procs :
      \/ PipeStep(p)
      \/ /\ SystemCall(p) \/ Spin(p) \/ FileStep(p) \/ PipeClose(p) \/ Killed(p)
         /\ out' = NoResult

Spec == Init /\ [][Next]_vars
-----------------------------------------------------------------------------
TypeOK ==
    /\ PipeTypeOK
    /\ ref \in [Files -> Nat]
    /\ type \in [Files -> {"none", "inode"} \cup Ends]
    /\ ofile \in [Procs -> [Fds -> Files \cup {NoFile}]]
    /\ \A p \in Procs : {fresh[p], doomed[p]} \subseteq Seq(Files)
    /\ ending \in [Procs -> {"none"} \cup Ends]

(* The places that may refer to a file: the descriptors of all processes,  *)
(* the calls that are allocating it and those that have yet to close it.   *)
Handles == Procs \X ({"ofile", "fresh", "doomed"} \X (Fds \cup {1, 2}))

Item(list, i) == IF i \in DOMAIN list THEN list[i] ELSE NoFile

Refers ==
    [h \in Handles |->
       LET p == h[1]
           i == h[2][2]
       IN  IF h[2][1] = "ofile" THEN Item(ofile[p], i)
           ELSE IF h[2][1] = "fresh" THEN Item(fresh[p], i)
           ELSE Item(doomed[p], i)]

(* The count of a file is the number of places that refer to it.           *)
Uses(f, refers) == Cardinality({h \in Handles : refers[h] = f})

RefsAgree == \A f \in Files : ref[f] = Uses(f, Refers)

(* An end of the pipe is open exactly as long as a file stands for it, or  *)
(* a process is on its way from fileclose to pipeclose; and the page is    *)
(* the pipe's exactly as long as an end is open.                           *)
Held(end) ==
    \/ \E f \in Files : ref[f] > 0 /\ type[f] = end
    \/ \E p \in Procs : ending[p] = end

EndsAgree ==
    /\ readopen <=> Held("read")
    /\ writeopen <=> Held("write")
    /\ inuse <=> readopen \/ writeopen

(* Nobody works on a pipe whose page is gone: a process inside piperead or *)
(* pipewrite has its own end open, whatever the others close.              *)
NoUseAfterFree ==
    \A p \in Procs : Working(p) => inuse /\ (IF op[p] = "read" THEN readopen ELSE writeopen)

(* The inductive invariant: what the counts rest on.  A call that fails    *)
(* has at most two files to give back, and they differ; an end of the pipe *)
(* has one file or one process on its way to pipeclose, not both.          *)
FileShape ==
    /\ {readopen, writeopen, inuse} \subseteq BOOLEAN
    /\ pc \in [Procs -> Places] /\ op = [p \in Procs |-> op[p]]
    /\ ref \in [Files -> Nat]
    /\ type \in [Files -> {"none", "inode"} \cup Ends]
    /\ ofile \in [Procs -> [Fds -> Files \cup {NoFile}]]
    /\ fresh \in [Procs -> Seq(Files)] /\ doomed \in [Procs -> Seq(Files)]
    /\ ending \in [Procs -> {"none"} \cup Ends]

CallsAgree ==
    \A p \in Procs :
      /\ Len(fresh[p]) <= 2 /\ Len(doomed[p]) <= 2
      /\ Len(fresh[p]) = 2 => fresh[p][1] # fresh[p][2]
      /\ fresh[p] # <<>> => InPipe(p)
      /\ doomed[p] # <<>> => pc[p] \in {"busy", "closing"} /\ op[p] # "pipe"
      /\ pc[p] = "none" => ofile[p] = Nothing
      /\ ending[p] # "none" <=> pc[p] = "closing"

OneHolder ==
    /\ \A f \in Files : ref[f] = 0 => type[f] = "none"
    /\ \A f, g \in Files : type[f] \in Ends /\ type[f] = type[g] => f = g
    /\ \A p, q \in Procs : ending[p] \in Ends /\ ending[p] = ending[q] => p = q
    /\ \A f \in Files, p \in Procs : type[f] \in Ends => ending[p] # type[f]

UsersHoldEnds ==
    \A p \in Procs :
      Working(p) =>
        /\ op[p] \in Ends
        /\ \E fd \in Fds : ofile[p][fd] # NoFile /\ type[ofile[p][fd]] = op[p]

FileInv == FileShape /\ RefsAgree /\ CallsAgree /\ OneHolder /\ EndsAgree /\ UsersHoldEnds
=============================================================================
