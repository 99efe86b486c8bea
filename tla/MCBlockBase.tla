---------------------------- MODULE MCBlockBase ----------------------------
(***************************************************************************)
(* A primary chain with two branches, and a sub-fork whose two blocks      *)
(* refer to one branch each.                                               *)
(***************************************************************************)
EXTENDS BlockBase, SequencesExt

\* 11 and 12 follow the genesis block; the sub-fork starts at 13 with 23, on the
\* branch of 11, and the vacant 24, on that of 12
Blocks == {0, 11, 12, 13, 23, 24}
BlockPrev == [b \in Blocks \ {0} |-> IF b \in {23, 24} THEN 13 ELSE 0]
BlockRef == [b \in {23, 24} |-> IF b = 23 THEN 11 ELSE 12]
BlockTrust == [b \in Blocks |-> CASE b \in {0, 13, 24} -> 0 [] b \in {11, 23} -> 1 [] b = 12 -> 2]

\* Branches share transactions
BlockTxs == [b \in Blocks |-> CASE b \in {11, 23} -> {"t1"} [] b = 12 -> {"t1", "t2"} [] OTHER -> {}]

RefersTo(b, last) == IsPrimary(b) \/ Ref[b] \in Chain[last]

\* The store in the middle of VerifyDB, for the last blocks that follow from a
\* verify file
Reload == INSTANCE ChainStore WITH OnPrimary <- RefersTo, saved <- verify, last <- load.last

\* The blocks that count as saved: a block does from the moment the last block
\* of its fork is settled
SavedBlocks == IF run = "up" /\ op.step \in {"longchain", "last"} THEN Front(verify) ELSE verify

\* The last blocks; between a stop and the end of VerifyDB, those that VerifyDB
\* is to find
LastBlocks ==
  IF run = "up" THEN [f \in Origin |-> IF ForkLast(f) \in ToSet(SavedBlocks) THEN ForkLast(f) ELSE None]
  ELSE Reload!LastOf(verify)

Store == INSTANCE ChainStore WITH OnPrimary <- RefersTo, saved <- SavedBlocks, last <- LastBlocks

\* The databases implement the block store, although a block is saved in ten
\* writes, any of which may be the last before a stop: a block and the choice
\* of the last block take effect at once, the last block changes to a longer
\* one only, and a start finds the blocks and the last blocks of the verify file
StoreSpec == Store!Spec
=============================================================================
