---------------------------- MODULE ForkManager ----------------------------
(***************************************************************************)
(* CForkManager, and what CDispatcher and CNetChannel do with the forks it *)
(* names.  A fork is made by a transaction of a primary block; its context *)
(* belongs to the chains through that block.  When the primary chain       *)
(* changes, the dispatcher opens the forks that came (their origin block   *)
(* is stored, the channels subscribe) and unsubscribes those that went.    *)
(* Blocks are added by several threads, and only the single calls lock.    *)
(***************************************************************************)
EXTENDS Integers, FiniteSets, Sequences, SequencesExt

CONSTANTS Block,        \* the primary blocks
          Genesis,      \* the first one, which is also the name of its fork
          Prev,         \* the previous block of each
          Time,         \* the time stamp of each
          Vtx,          \* its transactions: a fork is made, or its lock is spent
          Fork,         \* the sub-forks
          Profile,      \* of each: name, chain id, parent and address, and of its
                        \* origin block the joint (previous) block, time and hash
          Configs,      \* the fork configurations that the node may start with
          Thread,       \* the threads that add blocks
          MaxStart      \* bound on restarts

VARIABLES chain,   \* the primary chain, a record:
          config,  \* the configuration of this run
          setCurActiveFork,
          mapSched,  \* the forks that the net channel subscribes to
          mapChnFork, \* those of the block channel and the user transaction channel
          todo,    \* what each thread is about to do, a sequence of calls
          starts,  \* the number of restarts
          failed,  \* history: the transaction pool could not follow an update
          early    \* history: forks whose parent was not open when their turn came

\* chain.path: of each stored block, the blocks from the first one to it;
\* chain.ctxt: of each stored block, the forks that have a context there;
\* chain.last: the last block of the long chain; chain.origins: the forks whose
\* origin block is stored.

net == <<mapSched, mapChnFork>>
vars == <<chain, config, setCurActiveFork, net, todo, starts, failed, early>>

Main == "main"
Timer == "timer"
Threads == Thread \cup {Main, Timer}

(***************************************************************************)
(* The contexts of the forks                                               *)
(***************************************************************************)
\* A fork that is made in a block with the contexts ctxt below it, where the
\* forks new were made before it
VerifyBlockForkTx(ctxt, new, f) ==
  IF /\ Profile[f].parent \in ctxt \cup ToSet(new)
     /\ f \notin ctxt \cup ToSet(new)
     /\ \A g \in (ctxt \cup ToSet(new)) \ {Genesis} :
          Profile[g].name # Profile[f].name /\ Profile[g].id # Profile[f].id
  THEN Append(new, f) ELSE new

\* A transaction from the address of a fork that this block made cancels it
AddBlockForkContext(ctxt, vtx) ==
  ctxt \cup ToSet(FoldLeft(
    LAMBDA new, tx : IF tx.type = "fork" THEN VerifyBlockForkTx(ctxt, new, tx.fork)
                     ELSE SelectSeq(new, LAMBDA g : Profile[g].address # tx.address),
    << >>, vtx))

\* Of the last block: the primary fork and those that its chain made
ListForkContext == chain.ctxt[chain.last]

\* A fork and the forks it comes from, as far as their contexts are found
Lineage(f) ==
  LET ctxt == ListForkContext
      up[g \in Fork \cup {Genesis}] ==
        {g} \cup (IF g \in ctxt \ {Genesis} THEN up[Profile[g].parent] ELSE {})
  IN  up[f]

\* By the configuration cfg; a group is a fork with all that come from it
IsAllowedFork(cfg, f) ==
  /\ f \notin cfg.setForkExcluded
  /\ cfg.fAllowAnyFork \/ f \in cfg.setForkAllowed \/ cfg.setGroupAllowed \cap Lineage(f) # {}

Allowed(fs) == {f \in fs : IsAllowedFork(config, f)}

HashOf(f) == IF f = Genesis THEN 0 ELSE Profile[f].hash

\* As the maps order them
InOrder(fs) == SetToSortSeq(fs, LAMBDA f, g : HashOf(f) < HashOf(g))

(***************************************************************************)
(* Starting: CForkManager::HandleInvoke, GetActiveFork and                 *)
(* CDispatcher::HandleInvoke                                               *)
(***************************************************************************)
Calls(name, fs) == [i \in DOMAIN fs |-> [call |-> name, fork |-> fs[i]]]

GetActiveFork(cfg) ==
  LET active == {f \in ListForkContext : IsAllowedFork(cfg, f)}
  IN  /\ setCurActiveFork' = active
      /\ todo' = [t \in Threads |-> IF t = Main THEN Calls("activate", InOrder(active)) ELSE << >>]

Init ==
  /\ chain = [path |-> [b \in {Genesis} |-> <<b>>], ctxt |-> [b \in {Genesis} |-> {b}],
              last |-> Genesis, origins |-> {Genesis}]
  /\ config \in Configs
  /\ setCurActiveFork = {Genesis}
  /\ mapSched = {} /\ mapChnFork = {}
  /\ todo = [t \in Threads |-> IF t = Main THEN Calls("activate", <<Genesis>>) ELSE << >>]
  /\ starts = 0 /\ failed = FALSE /\ early = {}

\* The node stops at any moment and starts again, with this configuration or
\* another; the chain is kept
Restart ==
  /\ starts < MaxStart
  /\ starts' = starts + 1
  /\ config' \in Configs
  /\ GetActiveFork(config')
  /\ mapSched' = {} /\ mapChnFork' = {}
  /\ failed' = FALSE /\ early' = {}
  /\ UNCHANGED chain

(***************************************************************************)
(* CDispatcher::AddNewBlock                                                *)
(***************************************************************************)
Idle(t) == todo[t] = << >>

NextCall(t, name) == ~Idle(t) /\ Head(todo[t]).call = name

\* The call of thread t is done, and those of calls come first now
Then(t, calls) == todo' = [todo EXCEPT ![t] = calls \o Tail(@)]

Saved == DOMAIN chain.path
LongChain == ToSet(chain.path[chain.last])

\* CBlockChain::AddNewBlock: the block with the contexts that it has
StorageNewBlock(b) ==
  [chain EXCEPT !.path = [x \in Saved \cup {b} |-> IF x = b THEN Append(@[Prev[b]], b) ELSE @[x]],
                !.ctxt = [x \in Saved \cup {b} |->
                            IF x = b THEN AddBlockForkContext(@[Prev[b]], Vtx[b]) ELSE @[x]]]

\* The block is stored; it becomes the last one if its chain has more trust.
\* The call ends there when it does not, or when the transaction pool fails.
\* Else ForkUpdate gets the blocks that were not in the long chain.
AddNewBlock(t, b) ==
  /\ Idle(t)
  /\ b \notin Saved /\ Prev[b] \in Saved
  /\ LET stored == StorageNewBlock(b)
         added == SelectSeq(stored.path[b], LAMBDA x : x \notin LongChain)
     IN  \/ chain' = stored /\ UNCHANGED <<todo, failed>>
         \/ /\ chain' = [stored EXCEPT !.last = b]
            /\ \/ failed' = TRUE /\ UNCHANGED todo
               \/ todo' = [todo EXCEPT ![t] = <<[call |-> "update", blocks |-> added]>>] /\ UNCHANGED failed
  /\ UNCHANGED <<config, setCurActiveFork, net, starts, early>>

\* The forks that the transactions of a block make
ForksMade(b) == LET txs == SelectSeq(Vtx[b], LAMBDA tx : tx.type = "fork") IN [i \in DOMAIN txs |-> txs[i].fork]

\* Mutant: of a new branch the last block is looked at only
ForkUpdateLast(t) ==
  /\ NextCall(t, "update")
  /\ LET b == Last(Head(todo[t]).blocks)
         ctxt == ListForkContext
     IN  /\ Then(t, Calls("activate", SelectSeq(ForksMade(b), LAMBDA f : f \in Allowed(ctxt)))
                      \o Calls("unsubscribe", InOrder(setCurActiveFork \ ctxt)))
         /\ setCurActiveFork' = (setCurActiveFork \cap ctxt) \cup Allowed(ctxt)
  /\ UNCHANGED <<chain, config, net, starts, failed, early>>

\* CForkManager::ForkUpdate, by the contexts of the last block there is now:
\* the forks that are joined to one of the new blocks, and those that their
\* transactions make, are to be activated; those that have no context any more
\* are to be given up
ForkUpdate(t) ==
  /\ NextCall(t, "update")
  /\ LET blocks == Head(todo[t]).blocks
         ctxt == ListForkContext
         Joined(b) == InOrder({f \in Allowed(ctxt) \ {Genesis} : Profile[f].joint = b})
         joined == IF \E f \in ctxt \ {Genesis} : Profile[f].parent = Genesis
                   THEN FlattenSeq([i \in DOMAIN blocks |-> Joined(blocks[i])]) ELSE << >>
         made == SelectSeq(FlattenSeq([i \in DOMAIN blocks |-> ForksMade(blocks[i])]),
                           LAMBDA f : f \in Allowed(ctxt))
     IN  /\ Then(t, Calls("activate", joined \o made)
                      \o Calls("unsubscribe", InOrder(setCurActiveFork \ ctxt)))
         /\ setCurActiveFork' = (setCurActiveFork \cap ctxt) \cup Allowed(ctxt)
  /\ UNCHANGED <<chain, config, net, starts, failed, early>>

(***************************************************************************)
(* CDispatcher::ActivateFork                                               *)
(***************************************************************************)

\* The chain of the parent goes through the joint block
Joint(f) ==
  LET p == Profile[f].parent
  IN  /\ p \in chain.origins
      /\ Profile[f].joint \in
           IF p = Genesis THEN LongChain ELSE ToSet(chain.path[Profile[p].joint])

\* A fork whose origin is stored is subscribed to; another must have its
\* context and be joined to its parent, and its origin is stored first
ActivateFork(t) ==
  /\ NextCall(t, "activate")
  /\ LET f == Head(todo[t]).fork
     IN  /\ Then(t, IF f \in chain.origins THEN Calls("subscribe", <<f>>)
                    ELSE IF f \in ListForkContext /\ Joint(f)
                    THEN Calls("origin", <<f>>) \o Calls("subscribe", <<f>>) ELSE << >>)
         /\ early' = IF f \notin chain.origins /\ Profile[f].parent \notin chain.origins
                     THEN early \cup {f} ELSE early
  /\ UNCHANGED <<chain, config, setCurActiveFork, net, starts, failed>>

\* CBlockChain::AddNewOrigin accepts the origin: it has the time of the primary
\* block of its height
OriginFits(f) ==
  LET main == chain.path[chain.last]
      height == Len(chain.path[Profile[f].joint]) + 1
  IN  height <= Len(main) /\ Time[main[height]] = Profile[f].time

\* ProcessForkTx; the fork is not subscribed to when its origin is refused, or
\* the transaction pool fails.  (What AddNewBlock does for the new fork opens no
\* other: a fork is joined to a primary block.)
ProcessForkTx(t) ==
  /\ NextCall(t, "origin")
  /\ LET f == Head(todo[t]).fork
         skip == todo' = [todo EXCEPT ![t] = Tail(Tail(@))]
     IN  IF f \in chain.origins \/ ~OriginFits(f) THEN skip /\ UNCHANGED <<chain, failed>>
         ELSE /\ chain' = [chain EXCEPT !.origins = @ \cup {f}]
              /\ \/ Then(t, << >>) /\ UNCHANGED failed
                 \/ skip /\ failed' = TRUE
  /\ UNCHANGED <<config, setCurActiveFork, net, starts, early>>

\* CNetChannel::SubscribeFork asks for the last block of the fork; the timer
\* calls it alone, ActivateFork the other channels too
SubscribeFork(t) ==
  /\ NextCall(t, "subscribe")
  /\ LET f == Head(todo[t]).fork
     IN  /\ mapSched' = mapSched \cup ({f} \cap chain.origins)
         /\ mapChnFork' = IF t = Timer THEN mapChnFork ELSE mapChnFork \cup ({f} \cap chain.origins)
  /\ Then(t, << >>)
  /\ UNCHANGED <<chain, config, setCurActiveFork, starts, failed, early>>

UnsubscribeFork(t) ==
  /\ NextCall(t, "unsubscribe")
  /\ mapSched' = mapSched \ {Head(todo[t]).fork}
  /\ Then(t, << >>)
  /\ UNCHANGED <<chain, config, setCurActiveFork, mapChnFork, starts, failed, early>>

(***************************************************************************)
(* The fork update timer of CNetChannel                                    *)
(***************************************************************************)

\* The contexts are read ...
ForkUpdateTimerFunc ==
  /\ Idle(Timer)
  /\ todo' = [todo EXCEPT ![Timer] = <<[call |-> "valid", forks |-> ListForkContext]>>]
  /\ UNCHANGED <<chain, config, setCurActiveFork, net, starts, failed, early>>

\* Mutant: forks are given up by the timer, and none is subscribed to
UpdateValidForkLess ==
  /\ NextCall(Timer, "valid")
  /\ Then(Timer, Calls("unsubscribe", InOrder(mapSched \ Head(todo[Timer]).forks)))
  /\ UNCHANGED <<chain, config, setCurActiveFork, net, starts, failed, early>>

\* ... and compared with the subscriptions
UpdateValidFork ==
  /\ NextCall(Timer, "valid")
  /\ LET valid == Head(todo[Timer]).forks
     IN  Then(Timer, Calls("unsubscribe", InOrder(mapSched \ valid))
                       \o Calls("subscribe", InOrder(valid \ mapSched)))
  /\ UNCHANGED <<chain, config, setCurActiveFork, net, starts, failed, early>>

Step(t) ==
  ForkUpdate(t) \/ ActivateFork(t) \/ ProcessForkTx(t) \/ SubscribeFork(t) \/ UnsubscribeFork(t)

Next ==
  \/ \E t \in Thread, b \in Block : AddNewBlock(t, b)
  \/ \E t \in Threads : Step(t)
  \/ ForkUpdateTimerFunc \/ UpdateValidFork
  \/ Restart

Spec == Init /\ [][Next]_vars

\* Every thread goes on with its calls, and the timer expires again and again
FairSpec ==
  /\ Spec
  /\ \A t \in Threads : WF_vars(Step(t))
  /\ WF_vars(ForkUpdateTimerFunc) /\ WF_vars(UpdateValidFork)

(***************************************************************************)
(* Properties                                                              *)
(***************************************************************************)

\* Where the forks of a chain stand when no thread is at work: the active forks
\* are those that the last block has a context of and that the configuration
\* allows, and each of these whose origin fits the chain is open, although the
\* threads that changed the chain looked at it at different moments.  Exempt
\* are runs in which the transaction pool failed, for then AddNewBlock returns
\* before ForkUpdate, and forks that come before their parent in the map.
ForksOpen ==
  (\A t \in Threads : Idle(t)) /\ ~failed =>
    /\ setCurActiveFork = Allowed(ListForkContext)
    /\ \A f \in Allowed(ListForkContext) \ {Genesis} :
         Joint(f) /\ OriginFits(f) /\ f \notin early => f \in chain.origins \cap mapChnFork

\* No chain has two forks of one name or one chain id (VerifyBlockForkTx)
NamesDiffer ==
  \A b \in Saved : \A f, g \in chain.ctxt[b] \ {Genesis} :
    f # g => Profile[f].name # Profile[g].name /\ Profile[f].id # Profile[g].id

\* Once the chain has stopped to change, the net channel subscribes to exactly
\* the forks that the chain has a context of and whose origin is stored: an
\* activation and a cancellation of two threads may be applied in the wrong
\* order, and the fork update timer mends it
Settles == <>[](mapSched = chain.origins \cap ListForkContext)
=============================================================================
