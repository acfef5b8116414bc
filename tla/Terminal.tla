------------------------------- MODULE Terminal -------------------------------
(***************************************************************************)
(* What a console promises the processes that read it, with no ring, no    *)
(* lock and no sleeping: one stream of committed characters, in the order  *)
(* typed, cut into lines and ends of file.                                 *)
(***************************************************************************)
EXTENDS Integers, Sequences

CONSTANTS Readers, Size, Plain, NL, EOT, MaxRead

Char == Plain \cup {NL, EOT}

VARIABLES
    ready,      \* committed characters no reader has taken
    line,       \* the line being edited
    phase,      \* where each reader is: "idle", "reading", "done"
    want,       \* how many characters it asked for
    taken       \* what it has been given

vars == <<ready, line, phase, want, taken>>

Init ==
    /\ ready = <<>> /\ line = <<>>
    /\ phase = [p \in Readers |-> "idle"]
    /\ want = [p \in Readers |-> 0]
    /\ taken = [p \in Readers |-> <<>>]

(* A character is accepted while there is room; the one that ends a line,  *)
(* a file or the room commits the whole line.                              *)
Type(c) ==
    LET l == Append(line, c) IN
    /\ Len(ready) + Len(line) < Size
    /\ IF c \in {NL, EOT} \/ Len(ready) + Len(l) = Size
       THEN ready' = ready \o l /\ line' = <<>>
       ELSE line' = l /\ UNCHANGED ready
    /\ UNCHANGED <<phase, want, taken>>

(* Editing takes characters from the end of the line and nowhere else.     *)
Edit ==
    /\ \E k \in 0 .. Len(line) - 1 : line' = SubSeq(line, 1, k)
    /\ UNCHANGED <<ready, phase, want, taken>>

Ask(p, n) ==
    /\ phase[p] = "idle"
    /\ phase' = [phase EXCEPT ![p] = "reading"]
    /\ want' = [want EXCEPT ![p] = n]
    /\ taken' = [taken EXCEPT ![p] = <<>>]
    /\ UNCHANGED <<ready, line>>

(* The next character goes to p, and p has its answer if that ends a line. *)
Take(p) ==
    /\ phase[p] = "reading"
    /\ Len(taken[p]) < want[p]
    /\ ready # <<>> /\ Head(ready) # EOT
    /\ taken' = [taken EXCEPT ![p] = Append(@, Head(ready))]
    /\ ready' = Tail(ready)
    /\ phase' = [phase EXCEPT ![p] = IF Head(ready) = NL THEN "done" ELSE @]
    /\ UNCHANGED <<line, want>>

(* An end of file is worth one empty answer, to a reader that has nothing; *)
(* a reader that has something leaves it where it is.                      *)
EndOfFile(p) ==
    /\ phase[p] = "reading"
    /\ Len(taken[p]) < want[p]
    /\ ready # <<>> /\ Head(ready) = EOT
    /\ ready' = IF taken[p] = <<>> THEN Tail(ready) ELSE ready
    /\ phase' = [phase EXCEPT ![p] = "done"]
    /\ UNCHANGED <<line, want, taken>>

Satisfied(p) ==
    /\ phase[p] = "reading"
    /\ Len(taken[p]) = want[p]
    /\ phase' = [phase EXCEPT ![p] = "done"]
    /\ UNCHANGED <<ready, line, want, taken>>

(* A reader that is killed while there is nothing to read gets nothing.    *)
GiveUp(p) ==
    /\ phase[p] = "reading"
    /\ ready = <<>>
    /\ phase' = [phase EXCEPT ![p] = "done"]
    /\ taken' = [taken EXCEPT ![p] = <<>>]
    /\ UNCHANGED <<ready, line, want>>

Answer(p) ==
    /\ phase[p] = "done"
    /\ phase' = [phase EXCEPT ![p] = "idle"]
    /\ UNCHANGED <<ready, line, want, taken>>

Next ==
    \/ \E c \in Char : Type(c)
    \/ Edit
    \/ \E p \in Readers :
         \/ \E n \in 0 .. MaxRead : Ask(p, n)
         \/ Take(p) \/ EndOfFile(p) \/ Satisfied(p) \/ GiveUp(p) \/ Answer(p)

Spec == Init /\ [][Next]_vars
=============================================================================
