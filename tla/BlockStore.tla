------------------------------ MODULE BlockStore ------------------------------
(***************************************************************************)
(* What bread(), bwrite() and brelse() promise: one copy of every block,   *)
(* which a process has to itself from bread() to brelse(), and which       *)
(* changes only at its hands.                                              *)
(***************************************************************************)
CONSTANTS Procs, Blocks, Data, Nobody

VARIABLES
    content,        \* what each block holds
    holder          \* who has it

vars == <<content, holder>>

Init ==
    /\ content \in [Blocks -> Data]
    /\ holder = [k \in Blocks |-> Nobody]

Take(p, k) ==
    /\ holder[k] = Nobody
    /\ holder' = [holder EXCEPT ![k] = p]
    /\ UNCHANGED content

Change(p, k) ==
    /\ holder[k] = p
    /\ \E v \in Data : content' = [content EXCEPT ![k] = v]
    /\ UNCHANGED holder

Leave(p, k) ==
    /\ holder[k] = p
    /\ holder' = [holder EXCEPT ![k] = Nobody]
    /\ UNCHANGED content

Next == \E p \in Procs, k \in Blocks : Take(p, k) \/ Change(p, k) \/ Leave(p, k)

Spec == Init /\ [][Next]_vars
===============================================================================
