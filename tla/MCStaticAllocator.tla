------------------------- MODULE MCStaticAllocator -------------------------
(* StaticAllocator for TLC: alignment 4, a size_t of eight bits.            *)
EXTENDS StaticAllocator

(* Aligned and not, zero, and one that spans several units.                 *)
SmallSizes == {0, 1, 3, 4, 6}
=============================================================================
