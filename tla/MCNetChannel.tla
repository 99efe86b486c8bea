----------------------------- MODULE MCNetChannel -----------------------------
(***************************************************************************)
(* A steady peer announces a primary block and a block of a sub-fork that  *)
(* refers to it.  The other peer knows the latter, and announces a block   *)
(* that repeats another and one whose previous block is of another fork.   *)
(* Another thread may store the first block of the sub-fork.               *)
(***************************************************************************)
EXTENDS NetChannel

CONSTANTS g0, r1, r2, s0, s1, s2, p1, p2, primary, sub

\* The sub-fork starts at s0; s1 refers to r1, s2 follows s1 and repeats
\* another block, r2 claims a previous block of the sub-fork
MixBlocks == {g0, r1, r2, s0, s1, s2}
MixNew == {r1, r2, s1, s2}
MixForkOf == [b \in MixBlocks |-> IF b \in {g0, r1, r2} THEN primary ELSE sub]
MixPrev == [b \in MixNew |-> CASE b = r1 -> g0 [] b = s2 -> s1 [] OTHER -> s0]
MixRef == [b \in MixBlocks |-> CASE b = s1 -> r1 [] b = s2 -> g0 [] OTHER -> NoBlock]
MixHeight == [b \in MixBlocks |-> CASE b = g0 -> 0 [] b \in {r1, s0} -> 1 [] b = s2 -> 3 [] OTHER -> 2]
MixHas == [p \in {p1, p2} |-> IF p = p1 THEN {r1, s1} ELSE {s1, s2, r2}]
=============================================================================
