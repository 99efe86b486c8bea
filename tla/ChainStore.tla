----------------------------- MODULE ChainStore -----------------------------
(***************************************************************************)
(* What the block store promises to the rest of the node: the blocks saved *)
(* so far, in the order they were saved, and the last block of each fork.  *)
(* Saving a block and choosing the last block of its fork are one step; a  *)
(* restart keeps a beginning of the saved blocks (all of them if only the  *)
(* process stopped, perhaps with the block that was being saved) and finds *)
(* the last blocks from them alone.                                        *)
(***************************************************************************)
EXTENDS Integers, Sequences, SequencesExt

CONSTANTS
  Block, Genesis, Origin, Prev, None,
  ForkOf,            \* the origin of each block's fork
  Longer(_, _),      \* whether a block takes the place of the last one
  OnPrimary(_, _)    \* whether the block refers to the chain of a primary block

VARIABLES saved, last

vars == <<saved, last>>

Saved == ToSet(saved)

\* The last blocks that follow from the order in which blocks were saved
LastOf(order) ==
  [f \in Origin |->
     FoldLeft(LAMBDA l, b : IF b = f THEN b ELSE IF Longer(b, l) THEN b ELSE l,
              None, SelectSeq(order, LAMBDA b : ForkOf[b] = f))]

Init == saved = <<>> /\ last = [f \in Origin |-> None]

\* b may be saved
New(b) == b \in Block \ Saved /\ (IF b = Genesis THEN saved = <<>> ELSE Prev[b] \in Saved)

\* b becomes the last block of its fork
Wins(b) == b \in Origin \/ (OnPrimary(b, last[Genesis]) /\ Longer(b, last[ForkOf[b]]))

\* A block is saved. On a failed write it may not become the last one
Save(b) ==
  /\ New(b)
  /\ saved' = Append(saved, b)
  /\ last' = [last EXCEPT ![ForkOf[b]] = IF Wins(b) THEN b ELSE @]

SaveOnly(b) == New(b) /\ saved' = Append(saved, b) /\ UNCHANGED last

\* The last block of a sub-fork moves to another block of the fork
Move(f) ==
  /\ f \in Origin \ {Genesis}
  /\ \E b \in Saved : ForkOf[b] = f /\ last' = [last EXCEPT ![f] = b]
  /\ UNCHANGED saved

\* Restart: of the blocks saved (and the block being saved) a beginning is left
Restart ==
  /\ \E s \in {saved} \cup {Append(saved, b) : b \in {c \in Block : New(c)}} :
       \E n \in 0 .. Len(s) : saved' = SubSeq(s, 1, n)
  /\ last' = LastOf(saved')

Next == (\E b \in Block : Save(b) \/ SaveOnly(b)) \/ (\E f \in Origin : Move(f)) \/ Restart

Spec == Init /\ [][Next]_vars
=============================================================================
