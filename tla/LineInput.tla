------------------------------ MODULE LineInput ------------------------------
(***************************************************************************)
(* The console's line discipline: the ring `input` that consoleintr fills  *)
(* from a device interrupt and consoleread empties on behalf of processes. *)
(* The ring, the interrupt handler and the readers are those of the        *)
(* unmodified console (B22ES019/bgcolor_change/console.c); the readers and *)
(* the ring are shared by every console of the project.                    *)
(*                                                                         *)
(* Granularity.  cons.lock is a variable, and a step never spans a point   *)
(* at which the code releases it.  Under the lock a step is one character  *)
(* of the handler's loop, or one access of a reader to an index or to a    *)
(* slot, because code that touches the ring WITHOUT the lock (see          *)
(* HelpfulConsole) may run between any two of those.                       *)
(*                                                                         *)
(* Left out: the echo on the screen and the serial line, the process       *)
(* listing and the colour toggle (they leave the ring alone), and the      *)
(* iunlock/ilock of the console's inode around a read.  The indices are    *)
(* 32-bit and free running; INPUT_BUF divides 2^32, so equality,           *)
(* differences and slots are those of the natural numbers used here.       *)
(***************************************************************************)
EXTENDS Integers, Sequences

CONSTANTS
    Readers,    \* the processes that read the console
    N,          \* INPUT_BUF, the number of slots of the ring
    Plain,      \* the characters the line discipline does not interpret
    NL, CR,     \* '\n' and '\r'
    EOT,        \* C('D'), end of file
    NUL,        \* the zero byte a slot holds before its first use
    Intr,       \* the CPU running the interrupt handler, as a lock holder
    Nobody,     \* no holder
    MaxRead,    \* bound: the longest read a process asks for
    MaxTyped    \* bound: how many characters are ever put in the ring

Char == Plain \cup {NL, EOT}

ASSUME NAssumption == N \in Nat \ {0}
ASSUME BoundAssumption == MaxRead \in Nat /\ MaxTyped \in Nat
ASSUME CharAssumption == NL # EOT /\ NL \notin Plain /\ EOT \notin Plain /\ CR \notin Char /\ NUL \notin Char \cup {CR}
ASSUME HolderAssumption == Intr # Nobody /\ Intr \notin Readers /\ Nobody \notin Readers

VARIABLES
    buf,        \* input.buf
    r, w, e,    \* input.r, input.w, input.e
    holder,     \* who holds cons.lock
    pc,         \* where each reader is in consoleread
    target,     \* the n each reader was called with
    got,        \* the bytes copied to dst in this call; n is target - Len(got)
    killed      \* proc.killed

ring    == <<buf, r, w, e>>
readers == <<pc, target, got, killed>>
vars    == <<ring, holder, readers>>

Slot(i) == buf[i % N]

(* The places of consoleread at which other code may run.  "acquire" is    *)
(* also where sleep() leaves a reader that was woken.                      *)
Places == {"idle", "acquire", "test", "tosleep", "asleep", "load", "unread", "release"}

(* wakeup(&input.r): every sleeping reader becomes runnable and goes on to *)
(* take cons.lock again, as the end of sleep() does.                       *)
Wakeup == [p \in Readers |-> IF pc[p] = "asleep" THEN "acquire" ELSE pc[p]]

Init ==
    /\ buf = [i \in 0 .. N - 1 |-> NUL]
    /\ r = 0 /\ w = 0 /\ e = 0
    /\ holder = Nobody
    /\ pc = [p \in Readers |-> "idle"]
    /\ target = [p \in Readers |-> 0]
    /\ got = [p \in Readers |-> <<>>]
    /\ killed = [p \in Readers |-> FALSE]

-----------------------------------------------------------------------------
(* consoleintr: the handler holds cons.lock while it drains the device.    *)

IntrAcquire ==
    /\ holder = Nobody
    /\ holder' = Intr
    /\ UNCHANGED <<ring, readers>>

IntrRelease ==
    /\ holder = Intr
    /\ holder' = Nobody
    /\ UNCHANGED <<ring, readers>>

Room == e - r < N

(* A carriage return is stored as a newline.                               *)
Stored(c) == IF c = CR THEN NL ELSE c

(* Mutants of Ends: a full ring, or an end of file, commits nothing.       *)
EndsLine(ch) == ch \in {NL, EOT}
EndsNoEof(ch) == ch = NL \/ e + 1 = r + N

(* The default case: store the character and, at the end of a line, at an  *)
(* end of file or when the ring is full, commit the line and wake readers. *)
Ends(ch) == ch \in {NL, EOT} \/ e + 1 = r + N

PutChar(c) ==
    LET ch == Stored(c) IN
    /\ holder = Intr
    /\ e < MaxTyped
    /\ Room
    /\ buf' = [buf EXCEPT ![e % N] = ch]
    /\ e' = e + 1
    /\ w' = IF Ends(ch) THEN e + 1 ELSE w
    /\ pc' = IF Ends(ch) THEN Wakeup ELSE pc
    /\ UNCHANGED <<r, holder, target, got, killed>>

(* Mutant of Backspace: it stops at input.r, not at input.w.               *)
BackspacePastCommit ==
    /\ holder = Intr
    /\ e # r
    /\ e' = e - 1
    /\ UNCHANGED <<buf, r, w, holder, readers>>

(* C('H') and DEL take back one uncommitted character.                     *)
Backspace ==
    /\ holder = Intr
    /\ e # w
    /\ e' = e - 1
    /\ UNCHANGED <<buf, r, w, holder, readers>>

(* Mutant of KillLine: it stops at input.r, not at input.w.                *)
KillPastCommit ==
    /\ holder = Intr
    /\ e # r
    /\ \E k \in r .. e :
         /\ \A i \in k .. e - 1 : Slot(i) # NL
         /\ k = r \/ Slot(k - 1) = NL
         /\ e' = k
    /\ UNCHANGED <<buf, r, w, holder, readers>>

(* C('U') takes back the uncommitted characters after the last newline:    *)
(* k is the index at which the loop stops.                                 *)
KillLine ==
    /\ holder = Intr
    /\ e # w
    /\ \E k \in w .. e :
         /\ \A i \in k .. e - 1 : Slot(i) # NL
         /\ k = w \/ Slot(k - 1) = NL
         /\ e' = k
    /\ UNCHANGED <<buf, r, w, holder, readers>>

-----------------------------------------------------------------------------
(* consoleread, one process p.                                             *)

ReadCall(p, n) ==
    /\ pc[p] = "idle"
    /\ ~killed[p]                       \* trap() exits a killed process
    /\ pc' = [pc EXCEPT ![p] = "acquire"]
    /\ target' = [target EXCEPT ![p] = n]
    /\ got' = [got EXCEPT ![p] = <<>>]
    /\ UNCHANGED <<ring, holder, killed>>

ReadAcquire(p) ==
    /\ pc[p] = "acquire"
    /\ holder = Nobody
    /\ holder' = p
    /\ pc' = [pc EXCEPT ![p] = "test"]
    /\ UNCHANGED <<ring, target, got, killed>>

(* while(n > 0) falls through: the caller has all it asked for.            *)
ReadFull(p) ==
    /\ pc[p] = "test"
    /\ Len(got[p]) = target[p]
    /\ pc' = [pc EXCEPT ![p] = "release"]
    /\ UNCHANGED <<ring, holder, target, got, killed>>

(* The ring is empty: a killed reader gives up with -1 (what it had copied *)
(* is forgotten), any other goes on to call sleep().                       *)
ReadEmpty(p) ==
    /\ pc[p] = "test"
    /\ Len(got[p]) < target[p]
    /\ r = w
    /\ pc' = [pc EXCEPT ![p] = IF killed[p] THEN "release" ELSE "tosleep"]
    /\ got' = [got EXCEPT ![p] = IF killed[p] THEN <<>> ELSE @]
    /\ UNCHANGED <<ring, holder, target, killed>>

(* input.buf[input.r++]: the index is advanced, and the byte loaded from   *)
(* the slot it left.                                                       *)
ReadAdvance(p) ==
    /\ pc[p] = "test"
    /\ Len(got[p]) < target[p]
    /\ r # w
    /\ r' = r + 1
    /\ pc' = [pc EXCEPT ![p] = "load"]
    /\ UNCHANGED <<buf, w, e, holder, target, got, killed>>

(* Mutant of ReadByte: a ^D after some bytes is not given back.            *)
ReadByteDropsEof(p) ==
    LET c == Slot(r - 1) IN
    /\ pc[p] = "load"
    /\ got' = IF c = EOT THEN got ELSE [got EXCEPT ![p] = Append(@, c)]
    /\ pc' = [pc EXCEPT ![p] = IF c \in {NL, EOT} THEN "release" ELSE "test"]
    /\ UNCHANGED <<ring, holder, target, killed>>

ReadByte(p) ==
    LET c == Slot(r - 1) IN
    /\ pc[p] = "load"
    /\ IF c = EOT
       THEN /\ pc' = [pc EXCEPT ![p] = IF got[p] = <<>> THEN "release" ELSE "unread"]
            /\ UNCHANGED got
       ELSE /\ got' = [got EXCEPT ![p] = Append(@, c)]
            /\ pc' = [pc EXCEPT ![p] = IF c = NL THEN "release" ELSE "test"]
    /\ UNCHANGED <<ring, holder, target, killed>>

(* "Save ^D for next time": input.r goes back by one.                      *)
ReadUnread(p) ==
    /\ pc[p] = "unread"
    /\ r' = r - 1
    /\ pc' = [pc EXCEPT ![p] = "release"]
    /\ UNCHANGED <<buf, w, e, holder, target, got, killed>>

(* sleep(&input.r, &cons.lock): the lock is given up once the process can  *)
(* be seen by wakeup().                                                    *)
ReadSleep(p) ==
    /\ pc[p] = "tosleep"
    /\ pc' = [pc EXCEPT ![p] = "asleep"]
    /\ holder' = Nobody
    /\ UNCHANGED <<ring, target, got, killed>>

(* Mutant of ReadReturn: an early return keeps the lock.                   *)
ReadReturnLocked(p) ==
    /\ pc[p] = "release"
    /\ pc' = [pc EXCEPT ![p] = "idle"]
    /\ UNCHANGED <<ring, holder, target, got, killed>>

ReadReturn(p) ==
    /\ pc[p] = "release"
    /\ pc' = [pc EXCEPT ![p] = "idle"]
    /\ holder' = Nobody
    /\ UNCHANGED <<ring, target, got, killed>>

(* kill(): the flag, and a wake-up if the process is asleep by then.       *)
KillProc(p) ==
    /\ ~killed[p]
    /\ killed' = [killed EXCEPT ![p] = TRUE]
    /\ pc' = [pc EXCEPT ![p] = IF @ = "asleep" THEN "acquire" ELSE @]
    /\ UNCHANGED <<ring, holder, target, got>>

ReadStep(p) ==
    \/ ReadFull(p) \/ ReadEmpty(p) \/ ReadAdvance(p) \/ ReadByte(p)
    \/ ReadUnread(p) \/ ReadSleep(p) \/ ReadReturn(p)

Reader(p) ==
    \/ \E n \in 0 .. MaxRead : ReadCall(p, n)
    \/ ReadAcquire(p)
    \/ ReadStep(p)
    \/ KillProc(p)

Handler ==
    \/ IntrAcquire \/ IntrRelease
    \/ \E c \in Char \cup {CR} : PutChar(c)
    \/ Backspace \/ KillLine

Next == Handler \/ \E p \in Readers : Reader(p)

Spec == Init /\ [][Next]_vars

(* A process in the kernel keeps running until it sleeps or returns, the   *)
(* handler ends once the device has no more bytes, and a CPU that spins in *)
(* acquire() takes the lock if it is free again and again.  Nothing makes  *)
(* anyone type, call read() or kill.                                       *)
Fairness ==
    /\ WF_vars(IntrRelease)
    /\ \A p \in Readers : WF_vars(ReadStep(p)) /\ SF_vars(ReadAcquire(p))

FairSpec == Spec /\ Fairness
-----------------------------------------------------------------------------
InCritical(p) == pc[p] \in {"test", "tosleep", "load", "unread", "release"}

(* The first character that nobody has: a reader that has yet to load the  *)
(* byte it advanced input.r over, or is about to give a ^D back, has moved *)
(* the index one too far.                                                  *)
Passed == \E p \in Readers : pc[p] \in {"load", "unread"}
R == IF Passed THEN r - 1 ELSE r

TypeOK ==
    /\ buf \in [0 .. N - 1 -> Char \cup {NUL}]
    /\ r \in Nat /\ w \in Nat /\ e \in Nat
    /\ holder \in Readers \cup {Intr, Nobody}
    /\ pc \in [Readers -> Places]
    /\ target \in [Readers -> Nat]
    /\ got \in [Readers -> Seq(Char)]
    /\ killed \in [Readers -> BOOLEAN]

(* What is read trails what is committed, which trails what is typed, and  *)
(* the typist never laps the readers, not even by the one slot a reader    *)
(* gives back when it saves a ^D.                                          *)
IndexOrder == R <= w /\ w <= e /\ e - R <= N

(* The handler refuses every further character of a full ring, newline     *)
(* included, so a full ring whose last line was not committed could never  *)
(* be read.                                                                *)
FullIsCommitted == e - R = N => w = e

(* The lock belongs to whoever is between acquire() and release() of       *)
(* consoleread.                                                            *)
LockInv == \A p \in Readers : InCritical(p) <=> holder = p

(* A reader on its way to sleep has seen the ring empty and the ring still *)
(* is; one that has advanced input.r wants a byte and has one to load.     *)
ReaderInv ==
    /\ \A p \in Readers : pc[p] = "tosleep" => r = w
    /\ \A p \in Readers : pc[p] = "load" => Len(got[p]) < target[p]
    /\ R >= 0 /\ r <= w

(* A line that ends is committed at once: what may still be edited has no  *)
(* newline and no end of file in it.                                       *)
PendingIsOpen == \A i \in w .. e - 1 : Slot(i) \notin {NL, EOT}

(* sleep()'s promise seen from the console: a reader does not sleep while  *)
(* there is committed input, however its test of the ring and the wake-up  *)
(* interleave.                                                             *)
NoLostWakeup == \A p \in Readers : pc[p] = "asleep" => R = w

(* Every slot a reader can still reach has been typed into.                *)
RingFilled == \A i \in R .. e - 1 : Slot(i) \in Char

(* The inductive invariant.                                                *)
IInv ==
    /\ TypeOK /\ LockInv /\ ReaderInv /\ RingFilled
    /\ IndexOrder /\ FullIsCommitted /\ PendingIsOpen /\ NoLostWakeup

(* Backspace, kill and the reuse of slots leave a committed character in   *)
(* place until it is read, and a commit is never undone.                   *)
CommittedIsStable ==
    [][ /\ w' >= w
        /\ \A i \in R .. w - 1 : i >= R' => buf'[i % N] = buf[i % N] ]_vars

(* A reader that is in the kernel while there is committed input returns,  *)
(* or the input goes to another reader.                                    *)
ReaderServed ==
    \A p \in Readers : (pc[p] # "idle" /\ R # w) ~> (pc[p] = "idle" \/ R = w)

(* "Wake process from sleep if necessary" (kill): a killed reader leaves   *)
(* the kernel even if nobody types again.                                  *)
KilledReturns == \A p \in Readers : killed[p] ~> pc[p] = "idle"
-----------------------------------------------------------------------------
(* The ring as the two sequences a user would speak of, and a reader's     *)
(* place in consoleread as its place in the protocol.  A ^D that is being  *)
(* given back has never left the stream.                                   *)
Stretch(i, n) == [k \in 1 .. n |-> Slot(i + k - 1)]

Ready == Stretch(R, w - R)
Line  == Stretch(w, e - w)

Phase == [p \in Readers |->
    CASE pc[p] = "idle" -> "idle"
      [] pc[p] \in {"release", "unread"} -> "done"
      [] OTHER -> "reading"]

Promised == INSTANCE Terminal WITH
       Size  <- N,
       ready <- Ready,
       line  <- Line,
       phase <- Phase,
       want  <- target,
       taken <- got

(* The ring, its lock and the readers' sleeping implement the stream of    *)
(* lines that Terminal promises.                                           *)
ImplementsTerminal == Promised!Spec
=============================================================================
