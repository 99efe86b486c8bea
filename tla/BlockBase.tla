----------------------------- MODULE BlockBase -----------------------------
(***************************************************************************)
(* CBlockBase and its databases: how a block is saved (block file, state   *)
(* roots, fork database, block index, verify file, transaction index of    *)
(* the long chain, last block of the fork), what a stop in between leaves  *)
(* behind, how the next start verifies, repairs and reloads the records,   *)
(* and how the last block of a sub-fork is moved when the primary chain    *)
(* has switched.                                                           *)
(*                                                                         *)
(* A block is a number: its height, times HeightBase, and its place among  *)
(* the blocks of that height, which the code walks in the order of their   *)
(* hashes.                                                                 *)
(***************************************************************************)
EXTENDS Integers, Sequences, FiniteSets, Functions

CONSTANTS
  Block,             \* hashes of the blocks that may arrive
  Genesis,           \* the genesis block, origin of the primary fork
  Origin,            \* origins of the forks, Genesis among them
  Prev,              \* hashPrev, for the blocks other than Genesis
  Ref,               \* hashRefBlock, for the blocks of sub-forks but their origins
  Trust,             \* nChainTrust: the block's trust added to that of its chain
  Vacant,            \* the BLOCK_VACANT blocks
  Tx, Txs,           \* transactions, and those of each block
  HeightBase,        \* the height of b is b \div HeightBase
  None,              \* no block
  nNeedVerifyCount,  \* how many records VerifyDB checks at each end of the file
  MaxFault,          \* bound on the stops of the process and the writes that fail
  MaxLost            \* bound on the writes that a power failure takes from a store

\* Heights, and slots within a height, grow along hashPrev; so does the trust
ASSUME BlockAssumption ==
  /\ Block \subseteq Nat /\ IsFiniteSet(Block) /\ None \notin Block
  /\ Origin \subseteq Block /\ Genesis \in Origin
  /\ Prev \in [Block \ {Genesis} -> Block]
  /\ \A b \in Block \ {Genesis} : Prev[b] < b
  /\ \A b \in Block \ {Genesis} : Trust[Prev[b]] <= Trust[b]
  /\ nNeedVerifyCount \in Nat /\ MaxLost \in Nat

VARIABLES
  run,     \* "down", "loading", "up", or "failed": the start was refused
  file,    \* blocks in the block file (tsBlock)
  state,   \* the other databases of state: roots written before and after the fork context
  fork,    \* fork database: context roots and last blocks, in the order written
  index,   \* block index database: outlines, in the order written
  verify,  \* verify file: the blocks saved
  txpos,   \* transaction index database: the block of each transaction of the long chain
  mapIndex, \* memory: the indexed blocks
  next,    \* memory: CBlockIndex::pNext
  op,      \* the write in progress under rwAccess: its next step, and its block
  check,   \* CheckForkValidLast in progress: the block chosen and its branch
  load,    \* VerifyDB in progress: position, fAllVerify, mapForkLast
  gap,     \* history: forks whose transaction index is known to have missed a switch
  faults   \* stops and failed writes so far

disk == <<file, state, fork, index, verify, txpos>>
memory == <<mapIndex, next, op, check, load>>
vars == <<run, file, state, fork, index, verify, txpos, mapIndex, next, op, check, load, gap, faults>>

Height(b) == b \div HeightBase

\* GetOriginHash
ForkOf[b \in Block] == IF b \in Origin THEN b ELSE ForkOf[Prev[b]]

IsPrimary(b) == ForkOf[b] = Genesis

\* A block and the blocks before it, down to the origin of its fork
Chain[b \in Block] == IF b \in Origin THEN {b} ELSE {b} \cup Chain[Prev[b]]

\* IsEquivalent: vacant blocks only between b and c
IsEquivalent(b, c) ==
  /\ c \in Chain[b]
  /\ \A a \in Chain[b] \ Chain[c] : a \in Vacant /\ Height(a) > Height(c)

\* The test that makes b the last block of its fork in place of last
Longer(b, last) ==
  ~(Trust[last] > Trust[b] \/ (Trust[last] = Trust[b] /\ ~IsEquivalent(b, last)))

ContextRoot(b) == [type |-> "root", fork |-> Genesis, block |-> b]
LastRecord(f, b) == [type |-> "last", fork |-> f, block |-> b]

\* RetrieveForkLast
ForkLast(f) ==
  LET written == {i \in DOMAIN fork : fork[i].type = "last" /\ fork[i].fork = f}
  IN  IF written = {} THEN None ELSE fork[CHOOSE i \in written : \A j \in written : j <= i].block

\* GetForkLastIndex
GetForkLastIndex(f) == IF ForkLast(f) \in mapIndex THEN ForkLast(f) ELSE None

NoTx == [t \in Tx |-> None]

\* UpdateBlockLongChain: transactions of added blocks are found there, those of
\* removed blocks that were not added again are not found any more
UpdateBlockLongChain(pos, removed, added) ==
  [t \in Tx |-> IF \E b \in added : t \in Txs[b] THEN CHOOSE b \in added : t \in Txs[b]
                ELSE IF \E b \in removed : t \in Txs[b] THEN None
                ELSE pos[t]]

\* Blocks that follow p along pNext, p included
Following(p) ==
  {b \in mapIndex : p \in Chain[b] /\ \A a \in Chain[b] \ Chain[p] : next[Prev[a]] = a}

\* Mutant: what followed the fork point keeps its links
UpdateBlockNextOnly(b) ==
  [a \in Block |->
     IF a \in Chain[b] \ {b} THEN CHOOSE c \in Chain[b] : c \notin Origin /\ Prev[c] = a ELSE next[a]]

\* UpdateBlockNext: the links behind b, and behind the point where its chain
\* leaves the linked one, are cut; b's chain is linked
UpdateBlockNext(b) ==
  LET unlinked == {c \in Chain[b] \ Origin : \A a \in Chain[b] : c \in Chain[a] => next[Prev[a]] # a}
      climbed == {Prev[c] : c \in unlinked}
      cut == UNION {Following(a) : a \in climbed \cup {b}}
  IN  [a \in Block |->
         IF a \in climbed THEN CHOOSE c \in Chain[b] : c \notin Origin /\ Prev[c] = a
         ELSE IF a \in cut THEN None
         ELSE next[a]]

\* The k-th of a set of numbers
Nth(S, k) == CHOOSE x \in S : Cardinality({y \in S : y < x}) = k - 1

\* A log without the entries for b
Erase(log, b) ==
  LET kept == {i \in DOMAIN log : log[i] # b}
  IN  [k \in 1 .. Cardinality(kept) |-> log[Nth(kept, k)]]

Idle == [step |-> "idle", block |-> None]
NoCheck == [step |-> "idle", fork |-> None, last |-> None, from |-> None, removed |-> {}, added |-> {}]
NoLoad == [pos |-> 0, all |-> FALSE, last |-> [f \in Origin |-> None]]

\* A new data directory
Init ==
  /\ run = "down"
  /\ file = {} /\ state = <<>> /\ fork = <<>> /\ index = <<>> /\ verify = <<>>
  /\ txpos = [f \in Origin |-> NoTx]
  /\ mapIndex = {} /\ next = [b \in Block |-> None] /\ op = Idle /\ check = NoCheck /\ load = NoLoad
  /\ gap = {} /\ faults = 0

\* rwAccess is not held for writing
Unlocked == run = "up" /\ op = Idle /\ check.step # "writing"

\* CBlockChain::AddNewBlock, AddNewOrigin and Initiate up to SaveBlock: the
\* block is new, its previous block is indexed and, on a sub-fork, the block
\* that it refers to; the genesis block is stored first
StorageNewBlock(b) ==
  /\ Unlocked
  /\ b \notin mapIndex
  /\ IF b = Genesis THEN mapIndex = {} ELSE Prev[b] \in mapIndex
  /\ ~IsPrimary(b) /\ b \notin Origin => Ref[b] \in mapIndex
  /\ op' = [step |-> "file", block |-> b]
  /\ UNCHANGED <<run, file, state, fork, index, verify, txpos, mapIndex, next, check, load, gap, faults>>

\* A step of the write in progress, which goes on with step s
Writing(s) == run = "up" /\ op.step = s
Then(s) == op' = [op EXCEPT !.step = s]

\* tsBlock.Write
WriteFile ==
  /\ Writing("file")
  /\ file' = file \cup {op.block}
  /\ Then(IF op.block \in Origin THEN "newfork" ELSE "state")
  /\ UNCHANGED <<run, state, fork, index, verify, txpos, mapIndex, next, check, load, gap, faults>>

\* AddNewFork: the origin becomes the last block of its fork, and what an
\* earlier attempt left in the databases of the fork is removed
AddNewFork ==
  /\ Writing("newfork")
  /\ fork' = Append(fork, LastRecord(op.block, op.block))
  /\ txpos' = [txpos EXCEPT ![op.block] = NoTx]
  /\ Then("state")
  /\ UNCHANGED <<run, file, state, index, verify, mapIndex, next, check, load, gap, faults>>

\* AddNewIndex; the roots of states, transactions, addresses and codes
UpdateBlockState ==
  /\ Writing("state")
  /\ mapIndex' = mapIndex \cup {op.block}
  /\ state' = Append(state, <<"state", op.block>>)
  /\ Then(IF IsPrimary(op.block) THEN "context" ELSE "number")
  /\ UNCHANGED <<run, file, fork, index, verify, txpos, next, check, load, gap, faults>>

\* AddBlockForkContext
AddBlockForkContext ==
  /\ Writing("context")
  /\ fork' = Append(fork, ContextRoot(op.block))
  /\ Then("number")
  /\ UNCHANGED <<run, file, state, index, verify, txpos, mapIndex, next, check, load, gap, faults>>

\* UpdateDelegate, UpdateVote, UpdateBlockVoteReward and AddNewBlockNumber
AddNewBlockNumber ==
  /\ Writing("number")
  /\ state' = Append(state, <<"number", op.block>>)
  /\ Then("index")
  /\ UNCHANGED <<run, file, fork, index, verify, txpos, mapIndex, next, check, load, gap, faults>>

\* AddNewBlockIndex
AddNewBlockIndex ==
  /\ Writing("index")
  /\ index' = Append(index, op.block)
  /\ Then("verify")
  /\ UNCHANGED <<run, file, state, fork, verify, txpos, mapIndex, next, check, load, gap, faults>>

\* Mutant: the reference to the primary chain is not checked
CheckForkLongChainTrust(b) == LET last == GetForkLastIndex(ForkOf[b]) IN last # None => Longer(b, last)

\* CheckForkLongChain: a block of a sub-fork must refer to the primary chain
CheckForkLongChain(b) ==
  LET last == GetForkLastIndex(ForkOf[b])
  IN  /\ ~IsPrimary(b) /\ b \notin Origin => Ref[b] \in Chain[ForkLast(Genesis)]
      /\ last # None => Longer(b, last)

\* AddBlockVerify, and whether the block becomes the last one of its fork
AddBlockVerify ==
  /\ Writing("verify")
  /\ verify' = Append(verify, op.block)
  /\ IF CheckForkLongChain(op.block) THEN Then("longchain") ELSE op' = Idle
  /\ UNCHANGED <<run, file, state, fork, index, txpos, mapIndex, next, check, load, gap, faults>>

\* GetBlockBranchListNolock: what leaves and what joins the chain when b takes
\* the place of last
Removed(b, last) == IF b \in Origin THEN {} ELSE Chain[last] \ Chain[b]
Added(b, last) == IF b \in Origin THEN {b} ELSE Chain[b] \ Chain[last]

\* The transaction index follows the branch
SetLongChain ==
  /\ Writing("longchain")
  /\ LET f == ForkOf[op.block]
         last == GetForkLastIndex(f)
     IN  txpos' = [txpos EXCEPT ![f] = UpdateBlockLongChain(@, Removed(op.block, last), Added(op.block, last))]
  /\ Then("last")
  /\ UNCHANGED <<run, file, state, fork, index, verify, mapIndex, next, check, load, gap, faults>>

\* UpdateBlockNext and UpdateForkLast: the block is the last one of its fork
UpdateForkLast ==
  /\ Writing("last")
  /\ next' = UpdateBlockNext(op.block)
  /\ fork' = Append(fork, LastRecord(ForkOf[op.block], op.block))
  /\ op' = Idle
  /\ UNCHANGED <<run, file, state, index, verify, txpos, mapIndex, check, load, gap, faults>>

\* A write fails: SaveBlock takes back the index in memory, and the outline if
\* it was the verify record; after that the block stays saved, but it does not
\* become the last block. A failure to store the genesis block ends the process:
\* it is a Stop
Fail ==
  /\ run = "up" /\ op # Idle /\ op.block # Genesis /\ faults < MaxFault
  /\ faults' = faults + 1
  /\ mapIndex' = IF op.step \in {"longchain", "last"} THEN mapIndex ELSE mapIndex \ {op.block}
  /\ index' = IF op.step = "verify" THEN Erase(index, op.block) ELSE index
  /\ next' = IF op.step = "last" THEN UpdateBlockNext(op.block) ELSE next
  /\ gap' = IF op.step = "last" THEN gap \cup {ForkOf[op.block]} ELSE gap
  /\ op' = Idle
  /\ UNCHANGED <<run, file, state, fork, verify, txpos, check, load>>

\* VerifyValidBlock: the block refers to the primary chain
VerifyValidBlock(b) == b \in Origin \/ Ref[b] \in Chain[ForkLast(Genesis)]

\* Of blocks taken in the order of heights and hashes, the one of most trust after each
MaxTrust(blocks) ==
  LET max[k \in 0 .. Cardinality(blocks)] ==
        IF k = 0 THEN None
        ELSE IF max[k - 1] = None \/ Longer(Nth(blocks, k), max[k - 1]) THEN Nth(blocks, k)
        ELSE max[k - 1]
  IN  max

\* GetLongChainLastBlock: the valid block of most trust from height h on
GetLongChainLastBlock(f, h, invalid) ==
  LET indexed == {b \in mapIndex : ForkOf[b] = f}
      listed == {b \in indexed \ (invalid \cup Origin) :
                   Height(b) >= h /\ \A g \in h .. Height(b) : \E c \in indexed : Height(c) = g}
      valid == {b \in listed : VerifyValidBlock(b)}
  IN  MaxTrust(valid)[Cardinality(valid)]

\* GetForkValidLast: None if the last block of the fork is valid
GetForkValidLast(f) ==
  LET last == GetForkLastIndex(f)
      valid == {b \in Chain[last] : VerifyValidBlock(b)}
      low == CHOOSE b \in valid : \A c \in valid : c <= b
      best == GetLongChainLastBlock(f, Height(low), Chain[last] \ Chain[low])
  IN  IF last = None THEN None ELSE IF last \in Origin \/ low = last THEN None
      ELSE IF best = None THEN low ELSE best

\* CBlockChain::CheckForkValidLast, first read: another last block is chosen
ChooseValidLast(f) ==
  /\ Unlocked /\ check.step = "idle"
  /\ f # Genesis /\ GetForkLastIndex(Genesis) # None
  /\ GetForkValidLast(f) # None
  /\ check' = [NoCheck EXCEPT !.step = "chosen", !.fork = f, !.last = GetForkValidLast(f)]
  /\ UNCHANGED <<run, file, state, fork, index, verify, txpos, mapIndex, next, op, load, gap, faults>>

\* Second read, GetBlockBranchList: what leaves and what joins the chain now
ListBranch ==
  /\ Unlocked /\ check.step = "chosen"
  /\ LET last == GetForkLastIndex(check.fork)
     IN  check' = [check EXCEPT !.step = "listed", !.from = last,
                                !.removed = Chain[last] \ Chain[check.last], !.added = Chain[check.last] \ Chain[last]]
  /\ UNCHANGED <<run, file, state, fork, index, verify, txpos, mapIndex, next, op, load, gap, faults>>

\* UpdateForkNext, the transaction index; a block stored since the branch was
\* listed may have moved the last block
UpdateForkNextTx ==
  /\ Unlocked /\ check.step = "listed"
  /\ txpos' = [txpos EXCEPT ![check.fork] = UpdateBlockLongChain(@, check.removed, check.added)]
  /\ gap' = IF ForkLast(check.fork) # check.from THEN gap \cup {check.fork} ELSE gap
  /\ check' = [check EXCEPT !.step = "writing"]
  /\ UNCHANGED <<run, file, state, fork, index, verify, mapIndex, next, op, load, faults>>

\* UpdateForkNext, the links and the last block
UpdateForkNext ==
  /\ run = "up" /\ check.step = "writing"
  /\ next' = UpdateBlockNext(check.last)
  /\ fork' = Append(fork, LastRecord(check.fork, check.last))
  /\ check' = NoCheck
  /\ UNCHANGED <<run, file, state, index, verify, txpos, mapIndex, op, load, gap, faults>>

\* A log without its last n entries
Without(log, n) == SubSeq(log, 1, Len(log) - n)

\* The blocks being saved, and the latest nNeedVerifyCount of a verify file
Recent(log) == Block \ Range(SubSeq(log, 1, Len(log) - nNeedVerifyCount))

\* The process ends, at any point; when the machine stops with it, each store
\* may lose what was written to it last, but only for recent blocks. The
\* transaction index is written with sync; the block file is taken to be
\* flushed no later than the verify file
Stop ==
  /\ run \in {"up", "loading"} /\ faults < MaxFault
  /\ faults' = faults + 1
  /\ run' = "down"
  /\ \E n \in [{"state", "fork", "index", "verify"} -> 0 .. MaxLost] :
       /\ n["state"] <= Len(state) /\ n["fork"] <= Len(fork)
       /\ n["index"] <= Len(index) /\ n["verify"] <= Len(verify)
       /\ state' = Without(state, n["state"]) /\ fork' = Without(fork, n["fork"])
       /\ index' = Without(index, n["index"]) /\ verify' = Without(verify, n["verify"])
       /\ {r[2] : r \in Range(state) \ Range(state')} \subseteq Recent(verify')
       /\ Range(index) \ Range(index') \subseteq Recent(verify')
       /\ {r.block : r \in Range(fork) \ Range(fork')} \subseteq Recent(verify')
       /\ gap' = gap \cup (IF n["verify"] > 0 THEN Origin ELSE {})
                     \cup (IF check.step = "writing" THEN {check.fork} ELSE {})
                     \cup {r.fork : r \in Range(SubSeq(fork, Len(fork') + 1, Len(fork)))}
  /\ mapIndex' = {} /\ next' = [b \in Block |-> None]
  /\ op' = Idle /\ check' = NoCheck /\ load' = NoLoad
  /\ UNCHANGED <<file, txpos>>

\* VerifyBlockRoot: the roots of b are in the databases
HasRoots(b) ==
  /\ <<"state", b>> \in Range(state) /\ <<"number", b>> \in Range(state)
  /\ IsPrimary(b) => ContextRoot(b) \in Range(fork)

\* VerifyBlockDB: the outline is there, and when asked, or for an origin, the roots
VerifyBlockDB(b, fVerify) == b \in Range(index) /\ (fVerify \/ b \in Origin => HasRoots(b))

\* Mutant: the latest records are not looked at first
AllVerifyNever == FALSE

\* VerifyDB, first loop: whether one of the latest records does not verify
AllVerify ==
  /\ Len(verify) > nNeedVerifyCount
  /\ \E i \in Len(verify) - nNeedVerifyCount + 1 .. Len(verify) : ~VerifyBlockDB(verify[i], TRUE)

\* Initialize: the forks are loaded from the context of the last primary block,
\* which must be there; then VerifyDB begins
Start ==
  /\ run = "down"
  /\ IF ForkLast(Genesis) # None /\ ContextRoot(ForkLast(Genesis)) \notin Range(fork)
     THEN run' = "failed" /\ UNCHANGED load
     ELSE run' = "loading" /\ load' = [NoLoad EXCEPT !.all = AllVerify]
  /\ UNCHANGED <<file, state, fork, index, verify, txpos, mapIndex, next, op, check, gap, faults>>

\* VerifyDB: a record away from both ends of the file is trusted
MustVerify(pos) ==
  load.all \/ pos <= nNeedVerifyCount \div 2 \/ Len(verify) <= nNeedVerifyCount
           \/ pos > Len(verify) - nNeedVerifyCount

\* VerifyDB, b found to be the last block of its fork so far
LoadLast(b, repaired) ==
  LET f == ForkOf[b]
      last == load.last[f]
      longer == IF b \in Origin THEN TRUE ELSE Longer(b, last)
  IN  /\ load' = [load EXCEPT !.pos = @ + 1, !.all = @ \/ repaired, !.last[f] = IF longer THEN b ELSE @]
      /\ next' = IF longer /\ b \notin Origin THEN UpdateBlockNext(b) ELSE next
      /\ txpos' = IF longer /\ repaired
                  THEN [txpos EXCEPT ![f] = UpdateBlockLongChain(@, Removed(b, last), Added(b, last))]
                  ELSE txpos

\* A record that verifies: LoadBlockIndex
LoadRecord ==
  /\ run = "loading" /\ load.pos < Len(verify)
  /\ LET b == verify[load.pos + 1]
     IN  /\ VerifyBlockDB(b, MustVerify(load.pos))
         /\ mapIndex' = mapIndex \cup {b}
         /\ LoadLast(b, FALSE)
  /\ UNCHANGED <<run, file, state, fork, index, verify, op, check, gap, faults>>

Put(log, e) == IF e \in Range(log) THEN log ELSE Append(log, e)

\* A record that does not verify: RepairBlockDB saves the block again from the
\* block file, on the roots of its previous block
RepairRecord ==
  /\ run = "loading" /\ load.pos < Len(verify)
  /\ LET b == verify[load.pos + 1]
     IN  /\ ~VerifyBlockDB(b, MustVerify(load.pos))
         /\ IF b \in file /\ (b \in Origin \/ (Prev[b] \in mapIndex /\ HasRoots(Prev[b])))
            THEN /\ mapIndex' = mapIndex \cup {b}
                 /\ state' = Put(Put(state, <<"state", b>>), <<"number", b>>)
                 /\ index' = Put(index, b)
                 /\ fork' = IF IsPrimary(b) THEN Put(fork, ContextRoot(b)) ELSE fork
                 /\ LoadLast(b, TRUE)
                 /\ UNCHANGED run
            ELSE run' = "failed" /\ UNCHANGED <<mapIndex, state, index, fork, load, next, txpos>>
  /\ UNCHANGED <<file, verify, op, check, gap, faults>>

InSomeOrder(records) == CHOOSE log \in Bijection(1 .. Cardinality(records), records) : TRUE

\* VerifyDB, at the end: the last blocks found replace the ones recorded
LoadDone ==
  /\ run = "loading" /\ load.pos = Len(verify)
  /\ LET wrong == {f \in Origin : load.last[f] # None /\ ForkLast(f) # load.last[f]}
     IN  /\ fork' = fork \o InSomeOrder({LastRecord(f, load.last[f]) : f \in wrong})
         /\ gap' = gap \cup wrong
  /\ run' = "up"
  /\ load' = NoLoad
  /\ UNCHANGED <<file, state, index, verify, txpos, mapIndex, next, op, check, faults>>

Next ==
  \/ \E b \in Block : StorageNewBlock(b)
  \/ WriteFile \/ AddNewFork \/ UpdateBlockState \/ AddBlockForkContext \/ AddNewBlockNumber
  \/ AddNewBlockIndex
  \/ AddBlockVerify \/ SetLongChain \/ UpdateForkLast \/ Fail
  \/ \E f \in Origin : ChooseValidLast(f)
  \/ ListBranch \/ UpdateForkNextTx \/ UpdateForkNext
  \/ Stop \/ Start \/ LoadRecord \/ RepairRecord \/ LoadDone

Spec == Init /\ [][Next]_vars

(***************************************************************************)
(* Properties                                                              *)
(***************************************************************************)

\* The records of the fork database
ForkRecord == [type : {"root", "last"}, fork : Origin, block : Block]

TypeOK ==
  /\ run \in {"down", "loading", "up", "failed"}
  /\ file \subseteq Block /\ mapIndex \subseteq Block
  /\ state \in Seq({"state", "number"} \X Block) /\ index \in Seq(Block) /\ verify \in Seq(Block)
  /\ fork \in Seq(ForkRecord)
  /\ txpos \in [Origin -> [Tx -> Block \cup {None}]]
  /\ next \in [Block -> Block \cup {None}]
  /\ gap \subseteq Origin

\* Whatever was lost, the start succeeds unless the fork database holds nothing
\* but the record that AddNewFork wrote for the genesis block; and the blocks
\* that VerifyDB loaded or StorageNewBlock saved are, each once, in the verify
\* file, with their outlines, their roots and their previous blocks
Recovers ==
  /\ TypeOK
  /\ run = "failed" => fork = <<LastRecord(Genesis, Genesis)>>
  /\ run = "up" /\ op = Idle =>
       /\ mapIndex = Range(verify) /\ IsInjective(verify)
       /\ \A b \in mapIndex : b \in file /\ b \in Range(index) /\ HasRoots(b)
       /\ \A b \in mapIndex \ {Genesis} : Prev[b] \in mapIndex

\* The blocks of a fork's long chain
LongChain(f) == Chain[ForkLast(f)]

\* Between writes, the transaction index finds the transactions of the long
\* chain and no others, and pNext links the long chain and nothing else, but
\* for forks whose last block was found by a start, moved on an old branch list
\* or not recorded after a failed write, and for what a stop between the two
\* writes of UpdateForkNext or a loss in the verify file or in the fork database
\* leaves behind (gap)
IndexFollowsChain ==
  Unlocked => \A f \in (Origin \cap mapIndex) \ gap :
    /\ \A t \in Tx : txpos[f][t] = IF \E b \in LongChain(f) : t \in Txs[b]
                                   THEN CHOOSE b \in LongChain(f) : t \in Txs[b] ELSE None
    /\ \A a \in {b \in mapIndex : ForkOf[b] = f} :
         next[a] = IF a \in LongChain(f) \ {ForkLast(f)}
                   THEN CHOOSE c \in LongChain(f) : c \notin Origin /\ Prev[c] = a ELSE None

-----------------------------------------------------------------------------
(* The invariants that make Recovers inductive.                            *)

\* The outline and the roots of b are in the databases
Complete(b) == b \in Range(index) /\ HasRoots(b)

\* The verify file holds each block once, after its previous block
SavedInOrder ==
  /\ IsInjective(verify) /\ Range(verify) \subseteq file
  /\ verify # <<>> => verify[1] = Genesis
  /\ \A i \in DOMAIN verify : verify[i] # Genesis => \E j \in 1 .. i - 1 : verify[j] = Prev[verify[i]]

\* A last block of the primary fork was recorded after its context, but for the
\* genesis block at the beginning
ContextBeforeLast ==
  /\ \A i \in DOMAIN fork :
       fork[i].type = "last" /\ fork[i].fork = Genesis /\ fork[i].block # Genesis =>
         \E j \in 1 .. i - 1 : fork[j] = ContextRoot(fork[i].block)
  /\ fork # <<>> => fork[1] \in {LastRecord(Genesis, Genesis), ContextRoot(Genesis)}
  /\ Len(fork) > 1 => ContextRoot(Genesis) \in {fork[1], fork[2]}

\* The write in progress has made the records of the steps behind it
WriteInOrder ==
  /\ DOMAIN op = {"step", "block"} /\ op.block \in Block
  /\ op.step \in {"file", "newfork", "state", "context", "number", "index", "verify", "longchain", "last"}
  /\ op.step \in {"longchain", "last"} <=> op.block \in Range(verify)
  /\ IF op.block = Genesis THEN op.block \in Range(verify) \/ verify = <<>>
     ELSE Prev[op.block] \in Range(verify)
  /\ op.step # "file" => op.block \in file
  /\ op.step = "newfork" => op.block \in Origin
  /\ op.step \in {"context", "number", "index", "verify"} => <<"state", op.block>> \in Range(state)
  /\ op.step \in {"number", "index", "verify"} /\ IsPrimary(op.block) => ContextRoot(op.block) \in Range(fork)
  /\ op.step \in {"index", "verify"} => <<"number", op.block>> \in Range(state)
  /\ op.step = "verify" => op.block \in Range(index)

\* CheckForkValidLast works on a sub-fork, with the genesis block saved
CheckInOrder ==
  /\ DOMAIN check = DOMAIN NoCheck
  /\ check.step \in {"idle", "chosen", "listed", "writing"}
  /\ check.step # "idle" =>
       check.fork \in Origin \ {Genesis} /\ check.last \in Block /\ check.added \subseteq Block
  /\ check.step # "idle" => Range(verify) # {}
  /\ check.step = "writing" => op = Idle

\* The steps between the index in memory and the verify file
Indexed == {"context", "number", "index", "verify"}

\* While the node is up, every saved block is complete
UpInv ==
  run = "up" =>
    /\ \A b \in Range(verify) : Complete(b)
    /\ mapIndex = Range(verify) \cup (IF op.step \in Indexed THEN {op.block} ELSE {})
    /\ op = Idle \/ WriteInOrder
    /\ CheckInOrder
    /\ \/ fork = <<>> \/ ContextRoot(Genesis) \in Range(fork)
       \/ op.block = Genesis /\ op.step \in {"state", "context"}

\* After a stop all but the latest are, and each one that VerifyDB has loaded
DownInv ==
  run # "up" =>
    /\ op = Idle /\ check = NoCheck
    /\ \A i \in 1 .. Len(verify) - nNeedVerifyCount : Complete(verify[i])
    /\ run = "down" => mapIndex = {}
    /\ run = "failed" => fork = <<LastRecord(Genesis, Genesis)>>

LoadInv ==
  run = "loading" =>
    /\ DOMAIN load = DOMAIN NoLoad /\ load.pos \in 0 .. Len(verify) /\ load.all \in BOOLEAN
    /\ DOMAIN load.last = Origin
    /\ mapIndex = {verify[i] : i \in 1 .. load.pos}
    /\ \A i \in 1 .. load.pos : Complete(verify[i])
    /\ ~load.all /\ Len(verify) > nNeedVerifyCount => \A i \in DOMAIN verify : Complete(verify[i])
    /\ \A f \in Origin : load.last[f] # None => load.last[f] \in mapIndex /\ ForkOf[load.last[f]] = f
    /\ fork = <<>> \/ ContextRoot(Genesis) \in Range(fork)

RecoveryInv ==
  TypeOK /\ SavedInOrder /\ ContextBeforeLast /\ UpInv /\ DownInv /\ LoadInv
=============================================================================
