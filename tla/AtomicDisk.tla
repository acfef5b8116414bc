------------------------------ MODULE AtomicDisk ------------------------------
(***************************************************************************)
(* What the file-system log promises: the operations that overlap form a   *)
(* group, and the writes of a group reach the disk all together or, if the *)
(* machine stops first, not at all.                                        *)
(***************************************************************************)
CONSTANTS Ops, Blocks, Values, Zero

VARIABLES
    durable,    \* what the disk would hold after a crash and its recovery
    shown,      \* what the operations of the group have written and read
    open        \* the operations in progress

vars == <<durable, shown, open>>

Init ==
    /\ durable = [b \in Blocks |-> Zero]
    /\ shown = durable
    /\ open = {}

(* An operation joins a group, or starts one once the last is on disk.     *)
Join(p) ==
    /\ p \notin open
    /\ open # {} \/ shown = durable
    /\ open' = open \cup {p}
    /\ UNCHANGED <<durable, shown>>

Write(p, b, v) ==
    /\ p \in open
    /\ shown' = [shown EXCEPT ![b] = v]
    /\ UNCHANGED <<durable, open>>

Leave(p) ==
    /\ p \in open
    /\ open' = open \ {p}
    /\ UNCHANGED <<durable, shown>>

Commit ==
    /\ open = {}
    /\ durable' = shown
    /\ UNCHANGED <<shown, open>>

Crash ==
    /\ open' = {}
    /\ shown' = durable
    /\ UNCHANGED durable

Next ==
    \/ \E p \in Ops : Join(p) \/ Leave(p) \/ \E b \in Blocks, v \in Values : Write(p, b, v)
    \/ Commit
    \/ Crash

Spec == Init /\ [][Next]_vars
=============================================================================
