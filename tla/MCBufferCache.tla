----------------------------- MODULE MCBufferCache -----------------------------
(***************************************************************************)
(* BufferCache on a small instance: one process that keeps a block of the  *)
(* log while it reads the block's home, as install_trans and write_log do, *)
(* or an indirect block while it reads the bitmap or a fresh block, as     *)
(* bmap does; and one that has one buffer at a time.                       *)
(***************************************************************************)
EXTENDS BufferCache, TLC

CONSTANTS first, second, other, log, indirect, bitmap, content

TwoHands == (first :> 1) @@ (second :> 1) @@ (other :> 2)

Inward ==
    ({log} \X {indirect, bitmap, content}) \cup ({indirect} \X {bitmap, content})

Symmetry ==
    Permutations(Bufs) \cup Permutations(Data) \cup Permutations({first, second})
    \cup Permutations({bitmap, content})
================================================================================
