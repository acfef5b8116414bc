------------------------------- MODULE MCInodes -------------------------------
(***************************************************************************)
(* Inodes on small instances: a directory /a, a file or directory /a/b and *)
(* a second name /b.  One process makes and works in the directory, the    *)
(* other makes, links and removes what is in it, and the directory itself. *)
(* There is an inode more than there are names and entries in the cache.   *)
(***************************************************************************)
EXTENDS Inodes, TLC

CONSTANTS a, b, p1

C(op, path) == [op |-> op, path |-> path, second |-> <<>>]

Closing == C("close", <<>>)
A == <<"/", a>>
B == <<"/", b>>
AB == <<"/", a, b>>

Inhabitant ==
    {C("mkdir", A), C("chdir", A), C("chdir", <<"/">>), C("create", <<b>>), Closing, C("unlink", B)}

Remover ==
    {C("create", AB), C("mkdir", AB), Closing, [op |-> "link", path |-> AB, second |-> B],
     C("unlink", AB), C("unlink", A)}

TwoSorts == [p \in Procs |-> IF p = p1 THEN Inhabitant ELSE Remover]

(* An inhabitant who climbs out of a directory that was removed: with      *)
(* these calls one inode gets two names and one link (see the README).     *)
Climber == {C("chdir", AB), C("chdir", <<"..">>), C("create", B)}
Builder == {C("mkdir", A), C("mkdir", AB), C("unlink", AB), C("unlink", A), C("create", AB)}

Climbing == [p \in Procs |-> IF p = p1 THEN Climber ELSE Builder]

(* An entry that nobody refers to is recycled whatever is in it, and a     *)
(* copy that is not valid is read again.                                   *)
Content(s) ==
    IF ref[s] = 0 THEN None ELSE <<inum[s], IF valid[s] THEN core[s] ELSE None>>

View == <<disk, ref, [s \in Slots |-> Content(s)], lock, proc, panicked>>

Symmetry == Permutations(Slots) \cup Permutations(Inums \ {ROOTINO})
===============================================================================
