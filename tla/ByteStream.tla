------------------------------ MODULE ByteStream ------------------------------
(***************************************************************************)
(* What a pipe promises: a queue of bytes of bounded length.  What is read *)
(* is what was written, in order and once each; a read of nothing means    *)
(* that every writer is gone and everything they wrote has been read.      *)
(***************************************************************************)
EXTENDS Integers, Sequences

CONSTANTS Bytes, Size, ReadCounts, Readers, Nobody

VARIABLES
    queue,          \* the bytes written and not read
    readopen, writeopen,
    asked,          \* how many bytes a reader asks for, 0 if it reads nothing
    out             \* the reader that has just been given bytes, and the bytes

vars == <<queue, readopen, writeopen, asked, out>>

Result(p, bytes) == [to |-> p, bytes |-> bytes]
Quiet == Result(Nobody, <<>>)

Init ==
    /\ queue = <<>>
    /\ readopen = writeopen /\ readopen \in BOOLEAN
    /\ asked = [p \in Readers |-> 0]
    /\ out = Quiet

Create ==
    /\ ~readopen /\ ~writeopen
    /\ readopen' = TRUE /\ writeopen' = TRUE /\ queue' = <<>>
    /\ out' = Quiet
    /\ UNCHANGED asked

(* Closing an end loses nothing.                                           *)
Close ==
    /\ readopen' \in {FALSE, readopen} /\ writeopen' \in {FALSE, writeopen}
    /\ out' = Quiet
    /\ UNCHANGED <<queue, asked>>

Put(b) ==
    /\ writeopen /\ Len(queue) < Size
    /\ queue' = Append(queue, b)
    /\ out' = Quiet
    /\ UNCHANGED <<readopen, writeopen, asked>>

(* A read begins, or gives up.                                             *)
Ask(p) ==
    /\ \E n \in ReadCounts \cup {0} : asked' = [asked EXCEPT ![p] = n]
    /\ out' = Quiet
    /\ UNCHANGED <<queue, readopen, writeopen>>

Take(p) ==
    LET n == IF asked[p] < Len(queue) THEN asked[p] ELSE Len(queue) IN
    /\ queue # <<>> \/ ~writeopen
    /\ out' = Result(p, SubSeq(queue, 1, n))
    /\ queue' = SubSeq(queue, n + 1, Len(queue))
    /\ asked' = [asked EXCEPT ![p] = 0]
    /\ UNCHANGED <<readopen, writeopen>>

Next ==
    \/ Create \/ Close
    \/ \E b \in Bytes : Put(b)
    \/ \E p \in Readers : Ask(p) \/ Take(p)

Spec == Init /\ [][Next]_vars
=============================================================================
