--------------------------- MODULE DataScheduler ---------------------------
(***************************************************************************)
(* CDataScheduler: which peer is asked for which piece of data. A peer has *)
(* the list of what it announced, in order, and at most one request at a   *)
(* time; a piece of data knows the peers that announced it and the one it  *)
(* is assigned to. The operators take the scheduler, a record, and return  *)
(* it changed:                                                             *)
(*   mapPeer       the peers that are connected                            *)
(*   listDataIdent what each of them announced and still may be asked for  *)
(*   fAssigned     the peers with a request                                *)
(*   setKnownPeer, nAssigned   of each piece of data                       *)
(***************************************************************************)
EXTENDS Naturals, Sequences, SequencesExt

CONSTANTS Peer, Ident, NoPeer

NoData ==
    [mapPeer |-> {}, listDataIdent |-> [p \in Peer |-> << >>], fAssigned |-> {},
     setKnownPeer |-> [i \in Ident |-> {}], nAssigned |-> [i \in Ident |-> NoPeer]]

ActivatePeer(s, p) ==
    IF p \in s.mapPeer THEN s ELSE [s EXCEPT !.mapPeer = @ \cup {p}]

\* Mutant: the data that was assigned to the peer stays so.
DeactivatePeerKeep(s, p) ==
    IF p \notin s.mapPeer THEN s
    ELSE [s EXCEPT
            !.mapPeer = @ \ {p}, !.fAssigned = @ \ {p}, !.listDataIdent[p] = << >>,
            !.setKnownPeer = [i \in Ident |-> @[i] \ {p}]]

\* The peer is taken from the data of its list, and its record goes.
DeactivatePeer(s, p) ==
    IF p \notin s.mapPeer THEN s
    ELSE LET of == Range(s.listDataIdent[p])
         IN  [s EXCEPT
                !.mapPeer = @ \ {p}, !.fAssigned = @ \ {p}, !.listDataIdent[p] = << >>,
                !.setKnownPeer = [i \in Ident |-> IF i \in of THEN @[i] \ {p} ELSE @[i]],
                !.nAssigned = [i \in Ident |-> IF i \in of /\ @[i] = p THEN NoPeer ELSE @[i]]]

AddKnownData(s, p, i) ==
    IF p \notin s.mapPeer \/ p \in s.setKnownPeer[i] THEN s
    ELSE [s EXCEPT !.setKnownPeer[i] = @ \cup {p}, !.listDataIdent[p] = Append(@, i)]

\* Mutant: the peer that was asked stays busy.
RemoveKnownDataBusy(s, i) ==
    [s EXCEPT !.listDataIdent = [p \in Peer |-> SelectSeq(@[p], LAMBDA j : j # i)],
              !.setKnownPeer[i] = {}, !.nAssigned[i] = NoPeer]

\* The data is forgotten for all peers that announced it, and the one that was
\* asked is free again.
RemoveKnownData(s, i) ==
    [s EXCEPT !.listDataIdent = [p \in Peer |-> IF p \in s.setKnownPeer[i]
                                                THEN SelectSeq(@[p], LAMBDA j : j # i)
                                                ELSE @[p]],
              !.fAssigned = @ \ {s.nAssigned[i]},
              !.setKnownPeer[i] = {}, !.nAssigned[i] = NoPeer]

\* CDataKnown::Assign.
CanAssign(s, p, i) == s.nAssigned[i] \in {NoPeer, p}

\* What Schedule assigns to the peer: the first data of its list, if any, that
\* is wanted and free.
Assignable(s, p, wanted) ==
    {k \in DOMAIN s.listDataIdent[p] :
        s.listDataIdent[p][k] \in wanted /\ CanAssign(s, p, s.listDataIdent[p][k])}

\* Schedule's turn of one peer; new requests are appended to the field out.
SchedulePeer(t, p, wanted) ==
    LET free == Assignable(t, p, wanted)
    IN  IF p \notin t.mapPeer \/ p \in t.fAssigned \/ free = {} THEN t
        ELSE LET i == t.listDataIdent[p][CHOOSE k \in free : \A l \in free : k <= l]
             IN  [t EXCEPT !.fAssigned = @ \cup {p}, !.nAssigned[i] = p,
                           !.out = Append(@, [to |-> p, ident |-> i])]

\* Schedule, in the order of the peers' nonces.
Schedule(s, order, wanted) ==
    FoldLeft(LAMBDA t, p : SchedulePeer(t, p, wanted),
            [mapPeer |-> s.mapPeer, listDataIdent |-> s.listDataIdent, fAssigned |-> s.fAssigned,
             setKnownPeer |-> s.setKnownPeer, nAssigned |-> s.nAssigned, out |-> << >>],
            order)

-----------------------------------------------------------------------------

\* The lists of the peers and of the data agree: RemoveKnownData and the
\* removal of a peer go by these lists and dereference mapPeer[nonce] for every
\* peer they find, so an entry for a peer that left would be a null pointer.
Consistent(s) ==
    /\ \A i \in Ident :
          /\ \A p \in Peer : p \in s.setKnownPeer[i] <=> i \in Range(s.listDataIdent[p])
          /\ s.setKnownPeer[i] \subseteq s.mapPeer
          /\ s.nAssigned[i] # NoPeer => s.nAssigned[i] \in s.setKnownPeer[i]
    /\ \A p \in Peer :
          /\ IsInjective(s.listDataIdent[p])
          /\ p \in s.fAssigned <=> \E i \in Ident : s.nAssigned[i] = p
          /\ \A i, j \in Ident : s.nAssigned[i] = p /\ s.nAssigned[j] = p => i = j
=============================================================================
