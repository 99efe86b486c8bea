---------------------------- MODULE IOPoolProofs ----------------------------
(***************************************************************************)
(* Proofs about IOPool, for any number of sockets: the references of a     *)
(* socket object are exactly its owner and its outstanding operations, an  *)
(* object is offered for reuse only when nothing of its last use is left,  *)
(* none drops out of the pool, and the node keeps listening.               *)
(***************************************************************************)
EXTENDS IOPool, CountingFacts

\* The fields of the state record s
Fields == {"open", "inuse", "owner", "ref", "ops", "idleIn", "idleOut", "nAcceptCount",
           "pending", "garbage"}

\* The types of the fields
Typed(t) ==
  /\ DOMAIN t = Fields
  /\ t.open \subseteq Client /\ t.inuse \subseteq Client /\ t.owner \subseteq Client
  /\ t.ref \in [Client -> Int] /\ t.ops \in [Client -> SUBSET Op]
  /\ t.idleIn \in Seq(InClient) /\ t.idleOut \in Seq(OutClient)
  /\ t.pending \subseteq Client /\ t.garbage \subseteq SSLClient

\* The reference that p stands for
One(p) == IF p THEN 1 ELSE 0

\* What holds of one object when the running handler still has a reference
\* to the objects in H
Counted(t, H, d) ==
  /\ t.ref[d] = Cardinality(t.ops[d]) + One(d \in t.owner) + One(d \in H)
  /\ d \in t.inuse <=> d \in t.owner \/ t.ops[d] # {} \/ d \in H
  /\ "accept" \in t.ops[d] =>
        t.ops[d] = {"accept"} /\ d \in InClient /\ d \notin t.owner \cup H \cup t.open
  /\ "connect" \in t.ops[d] =>
        t.ops[d] = {"connect"} /\ d \notin InClient /\ d \notin t.owner \cup H
  /\ d \in t.pending => d \in t.open /\ "connect" \in t.ops[d]
  /\ d \in t.open => d \in t.owner \/ "connect" \in t.ops[d] \/ d \in H

\* The queue of a container holds each object that is not in use once
Queued(q, C, inuse) == IsInjective(q) /\ Range(q) = C \ inuse

\* nAcceptCount counts the outstanding accepts, of which there is at most one
Accepts(t) ==
  /\ t.nAcceptCount \in {0, 1}
  /\ t.nAcceptCount = 1 <=> \E d \in Client : "accept" \in t.ops[d]
  /\ \A d, e \in Client : "accept" \in t.ops[d] /\ "accept" \in t.ops[e] => d = e

\* What holds of the whole state when the running handler still has a
\* reference to the objects in H
Kept(t, H) ==
  /\ Typed(t)
  /\ \A d \in Client : Counted(t, H, d)
  /\ Queued(t.idleIn, InClient, t.inuse) /\ Queued(t.idleOut, OutClient, t.inuse)
  /\ Accepts(t)
  /\ t.garbage = {} \/ \E c \in SSLClient : t.garbage = {c}
  /\ Cardinality(t.inuse \cap SSLClient) <= nMaxConn

\* The listening socket has an accept outstanding while clients are idle
Listens(t) == Len(t.idleIn) > 2 => t.nAcceptCount = 1

\* The inductive invariant: between handlers nobody has a reference but the
\* owners and the operations
IInv == Kept(s, {}) /\ Listens(s)

-----------------------------------------------------------------------------
(* Queues of objects *)

\* An object that is put at the end of a queue
LEMMA QueueAppend ==
  ASSUME NEW C, NEW q \in Seq(C), IsInjective(q), NEW c \in C, c \notin Range(q)
  PROVE  /\ Append(q, c) \in Seq(C) /\ IsInjective(Append(q, c))
         /\ Range(Append(q, c)) = Range(q) \cup {c}
         /\ Len(Append(q, c)) = Len(q) + 1
         /\ Len(q) > 0 => Head(Append(q, c)) = Head(q)
<1>1. /\ Append(q, c) \in Seq(C) /\ Len(Append(q, c)) = Len(q) + 1
      /\ \A i \in 1..Len(q) : Append(q, c)[i] = q[i]
      /\ Append(q, c)[Len(q) + 1] = c
      /\ Len(q) \in Nat /\ DOMAIN q = 1..Len(q) /\ DOMAIN Append(q, c) = 1..(Len(q) + 1)
  BY SeqAppend, SeqFunction
<1>2. IsInjective(Append(q, c))
  <2> SUFFICES ASSUME NEW i \in 1..(Len(q) + 1), NEW j \in 1..(Len(q) + 1),
                      Append(q, c)[i] = Append(q, c)[j]
               PROVE  i = j
    BY <1>1, Zenon DEF IsInjective
  <2>1. \A k \in 1..Len(q) : q[k] # c
    BY <1>1, Zenon DEF Range
  <2> QED BY <1>1, <2>1 DEF IsInjective
<1>3. Range(Append(q, c)) = Range(q) \cup {c}
  <2>1. \A k \in 1..(Len(q) + 1) : k = Len(q) + 1 \/ k \in 1..Len(q)
    BY <1>1
  <2>2. \A k \in 1..Len(q) : k \in 1..(Len(q) + 1)
    BY <1>1
  <2>3. Len(q) + 1 \in 1..(Len(q) + 1)
    BY <1>1
  <2> QED BY <1>1, <2>1, <2>2, <2>3, Zenon DEF Range
<1>4. Len(q) > 0 => Head(Append(q, c)) = Head(q)
  BY <1>1
<1> QED BY <1>1, <1>2, <1>3, <1>4, Zenon

\* An object that is taken from the front of a queue
LEMMA QueueTail ==
  ASSUME NEW C, NEW q \in Seq(C), IsInjective(q), q # <<>>
  PROVE  /\ Head(q) \in Range(q) /\ Tail(q) \in Seq(C) /\ IsInjective(Tail(q))
         /\ Range(Tail(q)) = Range(q) \ {Head(q)}
         /\ Len(Tail(q)) = Len(q) - 1
<1>1. /\ Tail(q) \in Seq(C) /\ Len(Tail(q)) = Len(q) - 1
      /\ \A i \in 1..(Len(q) - 1) : Tail(q)[i] = q[i + 1]
      /\ Len(q) \in Nat \ {0} /\ DOMAIN q = 1..Len(q) /\ DOMAIN Tail(q) = 1..(Len(q) - 1)
      /\ Head(q) = q[1]
  BY SeqHeadTail, SeqFunction, SeqEmpty
<1>2. IsInjective(Tail(q))
  <2> SUFFICES ASSUME NEW i \in 1..(Len(q) - 1), NEW j \in 1..(Len(q) - 1),
                      Tail(q)[i] = Tail(q)[j]
               PROVE  i = j
    BY <1>1, Zenon DEF IsInjective
  <2>1. i + 1 \in 1..Len(q) /\ j + 1 \in 1..Len(q) /\ q[i + 1] = q[j + 1]
    BY <1>1
  <2> QED BY <1>1, <2>1 DEF IsInjective
<1>3. Range(Tail(q)) = Range(q) \ {Head(q)}
  <2>1. ASSUME NEW x \in Range(Tail(q)) PROVE x \in Range(q) \ {Head(q)}
    <3>1. PICK i \in 1..(Len(q) - 1) : x = q[i + 1]
      BY <1>1, Zenon DEF Range
    <3>2. i + 1 \in 1..Len(q) /\ 1 \in 1..Len(q) /\ i + 1 # 1
      BY <1>1
    <3> QED BY <1>1, <3>1, <3>2, Zenon DEF Range, IsInjective
  <2>2. ASSUME NEW x \in Range(q), x # Head(q) PROVE x \in Range(Tail(q))
    <3>1. PICK i \in 1..Len(q) : x = q[i]
      BY <1>1, Zenon DEF Range
    <3>2. i # 1
      BY <2>2, <3>1, <1>1, Zenon
    <3>3. i - 1 \in 1..(Len(q) - 1) /\ Tail(q)[i - 1] = q[i]
      BY <1>1, <3>2
    <3> QED BY <1>1, <3>1, <3>3, Zenon DEF Range
  <2> QED BY <2>1, <2>2, Zenon
<1>4. Head(q) \in Range(q)
  <2>1. 1 \in 1..Len(q)
    BY <1>1
  <2> QED BY <1>1, <2>1, Zenon DEF Range
<1> QED BY <1>1, <1>2, <1>3, <1>4, Zenon

\* The length of a queue that holds each of its objects once
LEMMA QueueLength ==
  ASSUME NEW C, NEW q \in Seq(C), IsInjective(q), IsFiniteSet(Range(q))
  PROVE  Len(q) = Cardinality(Range(q))
<1>1. Len(q) \in Nat /\ q \in [1..Len(q) -> C] /\ DOMAIN q = 1..Len(q)
  BY SeqFunction, Zenon
<1>2. q \in [1..Len(q) -> Range(q)]
  BY <1>1, Zenon DEF Range
<1>3. q \in Bijection(1..Len(q), Range(q))
  BY <1>1, <1>2, Zenon DEF Bijection, Injection, Surjection, Range
<1>4. ExistsBijection(1..Len(q), Range(q))
  BY <1>3, Zenon DEF ExistsBijection
<1>5. IsFiniteSet(1..Len(q)) /\ Cardinality(1..Len(q)) = Len(q)
  BY <1>1, FS_Interval
<1> QED BY <1>4, <1>5, FS_Bijection, Zenon

\* The queue of a new container
LEMMA NewQueue ==
  ASSUME NEW C, IsFiniteSet(C)
  PROVE  PrepareClient(C) \in Seq(C) /\ Queued(PrepareClient(C), C, {})
<1> DEFINE n == Cardinality(C)
<1>1. n \in Nat /\ ExistsBijection(1..n, C)
  BY FS_CardinalityType, Zenon
<1>2. PrepareClient(C) \in Bijection(1..n, C)
  BY <1>1, Zenon DEF PrepareClient, ExistsBijection
<1>3. PrepareClient(C) \in [1..n -> C] /\ \A a \in C : \E i \in 1..n : PrepareClient(C)[i] = a
  BY <1>2, Zenon DEF Bijection, Surjection
<1>4. IsInjective(PrepareClient(C))
  BY <1>2, Zenon DEF Bijection, Injection
<1>5. Range(PrepareClient(C)) = C
  BY <1>3, Zenon DEF Range
<1>6. PrepareClient(C) \in Seq(C)
  BY <1>1, <1>3
<1> QED BY <1>4, <1>5, <1>6, Zenon DEF Queued

-----------------------------------------------------------------------------
(* The operations on the state *)

\* The containers share no objects
LEMMA Classes ==
  /\ \A c \in InClient : c \in Client /\ c \notin OutClient /\ c \notin SSLClient
  /\ \A c \in OutClient : c \in Client /\ c \notin InClient /\ c \notin SSLClient
  /\ \A c \in SSLClient : c \in Client /\ c \notin InClient /\ c \notin OutClient
  /\ \A c \in Client : c \in InClient \/ c \in OutClient \/ c \in SSLClient
BY PoolAssumption, Zenon DEF Client

\* Counting operations
LEMMA OpCount ==
  ASSUME NEW X \in SUBSET Op
  PROVE  /\ Cardinality(X) \in Nat /\ (Cardinality(X) = 0 <=> X = {})
         /\ \A op \in Op : /\ op \notin X => Cardinality(X \cup {op}) = Cardinality(X) + 1
                          /\ op \in X => Cardinality(X \ {op}) = Cardinality(X) - 1
         /\ \A op : Cardinality({op}) = 1
<1>1. IsFiniteSet(Op)
  <2>1. Op = (({"accept"} \cup {"connect"}) \cup {"read"}) \cup {"write"}
    BY Zenon DEF Op
  <2>2. IsFiniteSet({"accept"})
    BY FS_Singleton, Zenon
  <2>3. IsFiniteSet({"accept"} \cup {"connect"})
    BY <2>2, FS_AddElement, Zenon
  <2>4. IsFiniteSet(({"accept"} \cup {"connect"}) \cup {"read"})
    BY <2>3, FS_AddElement, Zenon
  <2> QED BY <2>1, <2>4, FS_AddElement, Zenon
<1>2. IsFiniteSet(X)
  BY <1>1, FS_Subset, Zenon
<1> QED BY <1>2, FS_CardinalityType, FS_EmptySet, FS_AddElement, FS_RemoveElement, FS_Singleton,
           Zenon

\* IOInAccept keeps the books and leaves the container listening; it changes
\* nothing of the objects that are not at the front of the queue
LEMMA IOInAcceptKept ==
  ASSUME NEW t, NEW H \in SUBSET Client, Kept(t, H)
  PROVE  /\ Kept(IOInAccept(t), H) /\ Listens(IOInAccept(t))
         /\ IOInAccept(t).open = t.open /\ IOInAccept(t).owner = t.owner
         /\ \A c \in Client : c \in t.inuse \/ (t.idleIn # <<>> /\ c # Head(t.idleIn)) =>
               IOInAccept(t).ref[c] = t.ref[c] /\ IOInAccept(t).ops[c] = t.ops[c]
         /\ Len(t.idleIn) <= 2 => IOInAccept(t) = t
<1> DEFINE c == Head(t.idleIn)
           u == [t EXCEPT !.idleIn = Tail(@), !.inuse = @ \cup {c}, !.ref[c] = @ + 1,
                          !.ops[c] = @ \cup {"accept"}, !.nAcceptCount = @ + 1]
<1>1. Typed(t) /\ Len(t.idleIn) \in Nat /\ t.nAcceptCount \in {0, 1}
  BY SeqFunction, Zenon DEF Kept, Typed, Accepts
<1>2. CASE ~(t.nAcceptCount <= 0 /\ Len(t.idleIn) > 2)
  <2>1. IOInAccept(t) = t
    BY <1>2, Zenon DEF IOInAccept
  <2> QED BY <1>1, <1>2, <2>1 DEF Listens
<1>3. CASE t.nAcceptCount <= 0 /\ Len(t.idleIn) > 2
  <2>1. IOInAccept(t) = u
    BY <1>3, Zenon DEF IOInAccept
  <2> HIDE DEF u
  <2>2. t.idleIn # <<>> /\ t.idleIn \in Seq(InClient) /\ t.nAcceptCount = 0
    BY <1>1, <1>3 DEF Typed
  <2>3. /\ c \in InClient \ t.inuse /\ c \in Client
        /\ Tail(t.idleIn) \in Seq(InClient) /\ IsInjective(Tail(t.idleIn))
        /\ Range(Tail(t.idleIn)) = (InClient \ t.inuse) \ {c}
        /\ Len(Tail(t.idleIn)) = Len(t.idleIn) - 1
    BY <2>2, QueueTail, Classes, Zenon DEF Kept, Queued
  <2>4. /\ Typed(u)
        /\ u.open = t.open /\ u.owner = t.owner /\ u.pending = t.pending /\ u.garbage = t.garbage
        /\ u.idleIn = Tail(t.idleIn) /\ u.idleOut = t.idleOut /\ u.inuse = t.inuse \cup {c}
        /\ u.nAcceptCount = 1
        /\ u.ref[c] = t.ref[c] + 1 /\ u.ops[c] = t.ops[c] \cup {"accept"}
        /\ \A d \in Client : d # c => u.ref[d] = t.ref[d] /\ u.ops[d] = t.ops[d]
    <3>1. /\ u.open = t.open /\ u.owner = t.owner /\ u.pending = t.pending /\ u.garbage = t.garbage
          /\ u.idleIn = Tail(t.idleIn) /\ u.idleOut = t.idleOut /\ u.inuse = t.inuse \cup {c}
          /\ u.nAcceptCount = t.nAcceptCount + 1
          /\ u.ref = [t.ref EXCEPT ![c] = @ + 1]
          /\ u.ops = [t.ops EXCEPT ![c] = @ \cup {"accept"}]
          /\ DOMAIN u = Fields
      BY <1>1, Zenon DEF u, Typed, Fields
    <3> QED BY <1>1, <2>2, <2>3, <3>1 DEF Typed, Op
  <2>5. /\ c \notin t.owner /\ t.ops[c] = {} /\ c \notin H /\ c \notin t.open
        /\ c \notin t.pending /\ t.ref[c] = 0 /\ u.ops[c] = {"accept"} /\ u.ref[c] = 1
    <3>1. Counted(t, H, c)
      BY <2>3, Zenon DEF Kept
    <3>2. c \notin t.owner /\ t.ops[c] = {} /\ c \notin H /\ c \notin t.open /\ c \notin t.pending
      BY <3>1, <2>3, Zenon DEF Counted
    <3>3. t.ref[c] = 0
      BY <3>1, <3>2, FS_EmptySet DEF Counted, One
    <3> QED BY <2>4, <3>2, <3>3
  <2>6. \A d \in Client : Counted(u, H, d)
    <3> SUFFICES ASSUME NEW d \in Client PROVE Counted(u, H, d)
      BY Zenon
    <3>1. CASE d = c
      <4>1. Cardinality(u.ops[c]) = 1
        BY <2>5, FS_Singleton, Zenon
      <4>2. u.ref[c] = Cardinality(u.ops[c]) + One(c \in u.owner) + One(c \in H)
        BY <2>4, <2>5, <4>1 DEF One
      <4>3. "connect" \notin u.ops[c] /\ u.ops[c] # {}
        BY <2>5, Zenon
      <4> QED BY <2>3, <2>4, <2>5, <3>1, <4>2, <4>3, Zenon DEF Counted
    <3>2. CASE d # c
      <4>1. Counted(t, H, d)
        BY Zenon DEF Kept
      <4> QED BY <2>4, <3>2, <4>1, Zenon DEF Counted
    <3> QED BY <3>1, <3>2, Zenon
  <2>7. Queued(u.idleIn, InClient, u.inuse) /\ Queued(u.idleOut, OutClient, u.inuse)
    BY <2>3, <2>4, Classes DEF Queued, Kept
  <2>8. Accepts(u)
    <3>1. \A d \in Client : "accept" \notin t.ops[d]
      BY <2>2 DEF Kept, Accepts
    <3> QED BY <2>3, <2>4, <2>5, <3>1, Zenon DEF Accepts
  <2>9. u.inuse \cap SSLClient = t.inuse \cap SSLClient
    BY <2>3, <2>4, Classes, Zenon
  <2>10. Kept(u, H)
    BY <2>4, <2>6, <2>7, <2>8, <2>9, Zenon DEF Kept
  <2>11. Listens(u)
    BY <2>4, Zenon DEF Listens
  <2> QED BY <1>1, <1>3, <2>1, <2>2, <2>3, <2>4, <2>10, <2>11
<1> QED BY <1>2, <1>3, Zenon

\* What is counted of an object depends on nothing else
LEMMA CountedSame ==
  ASSUME NEW t, NEW u, NEW H, NEW G, NEW d,
         Counted(t, H, d), u.ref[d] = t.ref[d], u.ops[d] = t.ops[d],
         d \in u.open <=> d \in t.open, d \in u.inuse <=> d \in t.inuse,
         d \in u.owner <=> d \in t.owner, d \in u.pending <=> d \in t.pending,
         d \in G <=> d \in H
  PROVE  Counted(u, G, d)
<1>1. One(d \in u.owner) = One(d \in t.owner) /\ One(d \in G) = One(d \in H)
  BY Zenon DEF One
<1> QED BY <1>1, Zenon DEF Counted

\* ClientClose of an object whose last reference is gone
LEMMA ClientCloseKept ==
  ASSUME NEW t, NEW c \in Client, Kept(t, {c}), t.ref[c] = 1,
         NEW w, w = Shutdown([t EXCEPT !.ref[c] = @ - 1], c)
  PROVE  /\ Kept(ClientClose(w, c), {})
         /\ Listens(t) \/ c \in InClient => Listens(ClientClose(w, c))
         /\ ClientClose(w, c).open = t.open \ {c} /\ ClientClose(w, c).owner = t.owner
         /\ ClientClose(w, c).ref[c] = 0
<1>1. /\ Typed(t) /\ Accepts(t) /\ \A d \in Client : Counted(t, {c}, d)
      /\ Queued(t.idleIn, InClient, t.inuse) /\ Queued(t.idleOut, OutClient, t.inuse)
      /\ t.idleIn \in Seq(InClient) /\ t.idleOut \in Seq(OutClient)
      /\ t.garbage \subseteq SSLClient
      /\ t.garbage = {} \/ \E e \in SSLClient : t.garbage = {e}
  BY Zenon DEF Kept, Typed
<1>2. /\ c \in t.inuse /\ "accept" \notin t.ops[c] /\ "connect" \notin t.ops[c]
      /\ c \notin t.pending /\ t.ref[c] = Cardinality(t.ops[c]) + One(c \in t.owner) + 1
  <2>1. Counted(t, {c}, c)
    BY <1>1, Zenon
  <2>2. One(c \in {c}) = 1
    BY Zenon DEF One
  <2> QED BY <2>1, <2>2, Zenon DEF Counted
<1>3. t.ops[c] = {} /\ c \notin t.owner
  <2>1. t.ops[c] \in SUBSET Op
    BY <1>1, Zenon DEF Typed
  <2>2. Cardinality(t.ops[c]) \in Nat /\ (Cardinality(t.ops[c]) = 0 <=> t.ops[c] = {})
    BY <2>1, OpCount, Zenon
  <2> QED BY <1>2, <2>2 DEF One
<1>4. /\ w.open = t.open \ {c} /\ w.inuse = t.inuse /\ w.owner = t.owner /\ w.ops = t.ops
      /\ w.idleIn = t.idleIn /\ w.idleOut = t.idleOut /\ w.nAcceptCount = t.nAcceptCount
      /\ w.pending = t.pending /\ w.garbage = t.garbage /\ w.ref = [t.ref EXCEPT ![c] = 0]
      /\ DOMAIN w = Fields
  <2>1. w.ref = [t.ref EXCEPT ![c] = @ - 1]
    BY <1>1, Zenon DEF Typed, Fields, Shutdown
  <2> QED BY <1>1, <2>1 DEF Typed, Fields, Shutdown
\* What the three containers have in common
<1>5. ASSUME NEW v, DOMAIN v = Fields, v.open = w.open, v.inuse = w.inuse \ {c},
             v.owner = w.owner, v.ref = w.ref, v.ops = w.ops, v.pending = w.pending,
             v.nAcceptCount = w.nAcceptCount,
             v.idleIn \in Seq(InClient), Queued(v.idleIn, InClient, v.inuse),
             v.idleOut \in Seq(OutClient), Queued(v.idleOut, OutClient, v.inuse),
             v.garbage \subseteq SSLClient,
             v.garbage = {} \/ \E e \in SSLClient : v.garbage = {e}
      PROVE  Kept(v, {}) /\ v.ref[c] = 0
  <2>1. Typed(v)
    BY <1>1, <1>4, <1>5 DEF Typed
  <2>2. v.ref[c] = 0
    BY <1>1, <1>4, <1>5 DEF Typed
  <2>3. \A d \in Client : Counted(v, {}, d)
    <3>1. ASSUME NEW d \in Client, d # c PROVE Counted(v, {}, d)
      <4>1. Counted(t, {c}, d)
        BY <1>1, Zenon
      <4>2. w.ref[d] = t.ref[d]
        BY <1>1, <1>4, <3>1, Zenon DEF Typed
      <4>3. v.ref[d] = t.ref[d] /\ v.ops[d] = t.ops[d]
        BY <1>4, <1>5, <4>2, Zenon
      <4> QED BY <1>4, <1>5, <3>1, <4>1, <4>3, CountedSame, ZenonT(30)
    <3>2. Counted(v, {}, c)
      <4>1. v.ops[c] = {} /\ c \notin v.owner /\ c \notin v.open /\ c \notin v.pending
            /\ c \notin v.inuse
        BY <1>2, <1>3, <1>4, <1>5, Zenon
      <4>2. v.ref[c] = Cardinality(v.ops[c]) + One(c \in v.owner) + One(c \in {})
        BY <2>2, <4>1, FS_EmptySet DEF One
      <4> QED BY <4>1, <4>2, Zenon DEF Counted
    <3> QED BY <3>1, <3>2, Zenon
  <2>4. Accepts(v)
    BY <1>1, <1>4, <1>5, Zenon DEF Accepts
  <2>5. Cardinality(v.inuse \cap SSLClient) <= nMaxConn
    <3>1. v.inuse \cap SSLClient \subseteq t.inuse \cap SSLClient
      BY <1>4, <1>5, Zenon
    <3>2. IsFiniteSet(t.inuse \cap SSLClient) /\ Cardinality(t.inuse \cap SSLClient) <= nMaxConn
      BY PoolAssumption, FS_Intersection, Zenon DEF Kept
    <3>3. /\ Cardinality(v.inuse \cap SSLClient) <= Cardinality(t.inuse \cap SSLClient)
          /\ Cardinality(v.inuse \cap SSLClient) \in Nat
          /\ Cardinality(t.inuse \cap SSLClient) \in Nat
      BY <3>1, <3>2, FS_Subset, FS_CardinalityType, Zenon
    <3> QED BY <3>2, <3>3, PoolAssumption
  <2> QED BY <2>1, <2>2, <2>3, <2>4, <2>5, <1>5, Zenon DEF Kept
<1>6. CASE c \in InClient
  <2> DEFINE v == [[w EXCEPT !.inuse = @ \ {c}] EXCEPT !.idleIn = Append(@, c)]
  <2>1. ClientClose(w, c) = IOInAccept(v)
    <3>1. c \in w.inuse
      BY <1>2, <1>4, Zenon
    <3> QED BY <1>6, <3>1, Classes, Zenon DEF ClientClose
  <2>2. /\ DOMAIN v = Fields /\ v.open = w.open /\ v.inuse = w.inuse \ {c} /\ v.owner = w.owner
        /\ v.ref = w.ref /\ v.ops = w.ops /\ v.pending = w.pending
        /\ v.nAcceptCount = w.nAcceptCount /\ v.idleIn = Append(t.idleIn, c)
        /\ v.idleOut = t.idleOut /\ v.garbage = t.garbage
    BY <1>4, Zenon DEF Fields
  <2> HIDE DEF v
  <2>3. /\ t.idleIn \in Seq(InClient) /\ IsInjective(t.idleIn) /\ c \notin Range(t.idleIn)
        /\ Range(t.idleIn) = InClient \ t.inuse /\ Len(t.idleIn) \in Nat
    BY <1>1, <1>2, SeqFunction, Zenon DEF Typed, Queued
  <2>4. /\ v.idleIn \in Seq(InClient) /\ IsInjective(v.idleIn)
        /\ Range(v.idleIn) = Range(t.idleIn) \cup {c} /\ Len(v.idleIn) = Len(t.idleIn) + 1
        /\ Len(t.idleIn) > 0 => Head(v.idleIn) = Head(t.idleIn)
    BY <1>6, <2>2, <2>3, QueueAppend
  <2>5. Queued(v.idleIn, InClient, v.inuse)
    BY <1>2, <1>4, <1>6, <2>2, <2>3, <2>4, Zenon DEF Queued
  <2>6. Queued(v.idleOut, OutClient, v.inuse)
    BY <1>1, <1>4, <1>6, <2>2, Classes DEF Queued
  <2>7. Kept(v, {}) /\ v.ref[c] = 0
    BY <1>1, <1>5, <2>2, <2>4, <2>5, <2>6, Zenon
  <2>8. Kept(IOInAccept(v), {}) /\ Listens(IOInAccept(v))
        /\ IOInAccept(v).open = t.open \ {c} /\ IOInAccept(v).owner = t.owner
    BY <1>4, <2>2, <2>7, IOInAcceptKept, Zenon
  <2>9. IOInAccept(v).ref[c] = 0
    <3>1. CASE Len(v.idleIn) <= 2
      BY <2>7, <3>1, IOInAcceptKept, Zenon
    <3>2. CASE Len(v.idleIn) > 2
      <4>1. Len(t.idleIn) > 0 /\ t.idleIn # <<>>
        BY <2>3, <2>4, <3>2, SeqEmpty
      <4>2. Head(t.idleIn) \in Range(t.idleIn)
        BY <2>3, <4>1, QueueTail, Zenon
      <4>3. v.idleIn # <<>> /\ c # Head(v.idleIn)
        BY <2>3, <2>4, <3>2, <4>1, <4>2, SeqEmpty
      <4> QED BY <2>7, <4>3, IOInAcceptKept, Zenon
    <3> QED BY <2>3, <2>4, <3>1, <3>2
  <2> QED BY <2>1, <2>8, <2>9, Zenon
<1>7. CASE c \in OutClient
  <2> DEFINE v == [[w EXCEPT !.inuse = @ \ {c}] EXCEPT !.idleOut = Append(@, c)]
  <2>1. ClientClose(w, c) = v
    <3>1. c \in w.inuse
      BY <1>2, <1>4, Zenon
    <3> QED BY <1>7, <3>1, Classes, Zenon DEF ClientClose
  <2>2. /\ DOMAIN v = Fields /\ v.open = w.open /\ v.inuse = w.inuse \ {c} /\ v.owner = w.owner
        /\ v.ref = w.ref /\ v.ops = w.ops /\ v.pending = w.pending
        /\ v.nAcceptCount = w.nAcceptCount /\ v.idleOut = Append(t.idleOut, c)
        /\ v.idleIn = t.idleIn /\ v.garbage = t.garbage
    BY <1>4, Zenon DEF Fields
  <2> HIDE DEF v
  <2>3. /\ t.idleOut \in Seq(OutClient) /\ IsInjective(t.idleOut) /\ c \notin Range(t.idleOut)
        /\ Range(t.idleOut) = OutClient \ t.inuse
    BY <1>1, <1>2, Zenon DEF Typed, Queued
  <2>4. /\ v.idleOut \in Seq(OutClient) /\ IsInjective(v.idleOut)
        /\ Range(v.idleOut) = Range(t.idleOut) \cup {c}
    BY <1>7, <2>2, <2>3, QueueAppend
  <2>5. Queued(v.idleOut, OutClient, v.inuse)
    BY <1>2, <1>4, <1>7, <2>2, <2>3, <2>4 DEF Queued
  <2>6. Queued(v.idleIn, InClient, v.inuse)
    BY <1>1, <1>4, <1>7, <2>2, Classes DEF Queued
  <2>7. Kept(v, {}) /\ v.ref[c] = 0
    BY <1>1, <1>5, <2>2, <2>4, <2>5, <2>6, Zenon
  <2> QED BY <1>4, <1>7, <2>1, <2>2, <2>7, Classes, Zenon DEF Listens
<1>8. CASE c \in SSLClient
  <2> DEFINE v == [[w EXCEPT !.inuse = @ \ {c}] EXCEPT !.garbage = {c}]
  <2>1. ClientClose(w, c) = v
    <3>1. c \in w.inuse
      BY <1>2, <1>4, Zenon
    <3> QED BY <1>8, <3>1, Classes, Zenon DEF ClientClose
  <2>2. /\ DOMAIN v = Fields /\ v.open = w.open /\ v.inuse = w.inuse \ {c} /\ v.owner = w.owner
        /\ v.ref = w.ref /\ v.ops = w.ops /\ v.pending = w.pending
        /\ v.nAcceptCount = w.nAcceptCount /\ v.idleOut = t.idleOut
        /\ v.idleIn = t.idleIn /\ v.garbage = {c}
    BY <1>4, Zenon DEF Fields
  <2> HIDE DEF v
  <2>3. Queued(v.idleIn, InClient, v.inuse) /\ Queued(v.idleOut, OutClient, v.inuse)
    BY <1>1, <1>4, <1>8, <2>2, Classes DEF Queued
  <2>4. v.garbage \subseteq SSLClient /\ (v.garbage = {} \/ \E e \in SSLClient : v.garbage = {e})
    BY <1>8, <2>2, Zenon
  <2>5. Kept(v, {}) /\ v.ref[c] = 0
    BY <1>1, <1>5, <2>2, <2>3, <2>4, Zenon
  <2> QED BY <1>4, <1>8, <2>1, <2>2, <2>5, Classes, Zenon DEF Listens
<1> QED BY <1>6, <1>7, <1>8, Classes, Zenon

\* A change of one object that leaves the containers alone
LEMMA KeptChange ==
  ASSUME NEW t, NEW u, NEW H, NEW G, NEW c \in Client, Kept(t, H), Typed(u),
         \A d \in Client \ {c} :
            /\ u.ref[d] = t.ref[d] /\ u.ops[d] = t.ops[d]
            /\ d \in u.open <=> d \in t.open
            /\ d \in u.owner <=> d \in t.owner
            /\ d \in u.pending <=> d \in t.pending
            /\ d \in G <=> d \in H,
         u.inuse = t.inuse, u.idleIn = t.idleIn, u.idleOut = t.idleOut, u.garbage = t.garbage,
         u.nAcceptCount = t.nAcceptCount,
         Counted(u, G, c), "accept" \notin t.ops[c], "accept" \notin u.ops[c]
  PROVE  Kept(u, G) /\ (Listens(t) <=> Listens(u))
<1>1. \A d \in Client : Counted(u, G, d)
  <2>1. ASSUME NEW d \in Client \ {c} PROVE Counted(u, G, d)
    <3>1. Counted(t, H, d)
      BY Zenon DEF Kept
    <3> QED BY <3>1, CountedSame, Zenon
  <2> QED BY <2>1, Zenon
<1>2. Accepts(u)
  <2>1. Accepts(t)
    BY Zenon DEF Kept
  <2>2. \A d \in Client : "accept" \in u.ops[d] <=> "accept" \in t.ops[d]
    BY Zenon
  <2> QED BY <2>1, <2>2, Zenon DEF Accepts
<1> QED BY <1>1, <1>2, Zenon DEF Kept, Listens

\* Release
LEMMA ReleaseKept ==
  ASSUME NEW t, NEW c \in Client, Kept(t, {c}),
         c \in t.open => c \in t.owner \/ t.ref[c] = 1
  PROVE  /\ Kept(Release(t, c), {})
         /\ Listens(t) \/ (t.ref[c] = 1 /\ c \in InClient) => Listens(Release(t, c))
         /\ Release(t, c).owner = t.owner
         /\ t.ref[c] = 1 => Release(t, c).ref[c] = 0 /\ Release(t, c).open = t.open \ {c}
         /\ t.ref[c] # 1 => Release(t, c).open = t.open /\ Release(t, c).ops = t.ops
<1> DEFINE u == [t EXCEPT !.ref[c] = @ - 1]
<1>1. Typed(t) /\ Counted(t, {c}, c)
  BY Zenon DEF Kept
<1>2. /\ u.open = t.open /\ u.inuse = t.inuse /\ u.owner = t.owner /\ u.ops = t.ops
      /\ u.idleIn = t.idleIn /\ u.idleOut = t.idleOut /\ u.nAcceptCount = t.nAcceptCount
      /\ u.pending = t.pending /\ u.garbage = t.garbage
      /\ u.ref = [t.ref EXCEPT ![c] = @ - 1] /\ DOMAIN u = Fields
  BY <1>1, Zenon DEF Typed, Fields
<1>3. Release(t, c) = IF u.ref[c] <= 0 THEN ClientClose(Shutdown(u, c), c) ELSE u
  BY Zenon DEF Release
<1>4. /\ c \in t.inuse /\ "accept" \notin t.ops[c] /\ "connect" \notin t.ops[c]
      /\ c \notin t.pending
      /\ t.ref[c] = Cardinality(t.ops[c]) + One(c \in t.owner) + 1
      /\ Cardinality(t.ops[c]) \in Nat /\ One(c \in t.owner) \in {0, 1}
      /\ t.ops[c] # {} \/ c \in t.owner \/ t.ref[c] = 1
  <2>1. One(c \in {c}) = 1 /\ One(c \in t.owner) \in {0, 1}
        /\ (c \notin t.owner => One(c \in t.owner) = 0)
    BY Zenon DEF One
  <2>2. t.ops[c] \in SUBSET Op
    BY <1>1, Zenon DEF Typed
  <2>3. Cardinality(t.ops[c]) \in Nat /\ (Cardinality(t.ops[c]) = 0 <=> t.ops[c] = {})
    BY <2>2, OpCount, Zenon
  <2>4. t.ref[c] = Cardinality(t.ops[c]) + One(c \in t.owner) + 1
    BY <1>1, <2>1, Zenon DEF Counted
  <2>5. t.ops[c] # {} \/ c \in t.owner \/ t.ref[c] = 1
    BY <2>1, <2>3, <2>4
  <2> QED BY <1>1, <2>1, <2>3, <2>4, <2>5, Zenon DEF Counted
<1>5. u.ref[c] = t.ref[c] - 1 /\ t.ref[c] \in Nat \ {0}
  BY <1>1, <1>2, <1>4 DEF Typed
<1>6. CASE t.ref[c] = 1
  <2>1. Release(t, c) = ClientClose(Shutdown(u, c), c)
    BY <1>3, <1>5, <1>6
  <2>2. /\ Kept(ClientClose(Shutdown(u, c), c), {})
        /\ Listens(t) \/ c \in InClient => Listens(ClientClose(Shutdown(u, c), c))
        /\ ClientClose(Shutdown(u, c), c).open = t.open \ {c}
        /\ ClientClose(Shutdown(u, c), c).owner = t.owner
        /\ ClientClose(Shutdown(u, c), c).ref[c] = 0
    BY <1>6, ClientCloseKept
  <2> QED BY <1>6, <2>1, <2>2, Zenon
<1>7. CASE t.ref[c] # 1
  <2>1. Release(t, c) = u
    BY <1>3, <1>5, <1>7
  <2> HIDE DEF u
  <2>2. Typed(u) /\ \A d \in Client \ {c} : u.ref[d] = t.ref[d]
    BY <1>1, <1>2 DEF Typed
  <2>3. Counted(u, {}, c)
    <3>1. One(c \in {}) = 0
      BY Zenon DEF One
    <3>2. u.ref[c] = Cardinality(u.ops[c]) + One(c \in u.owner) + One(c \in {})
      BY <1>2, <1>4, <1>5, <3>1
    <3> QED BY <1>2, <1>4, <1>7, <3>2, Zenon DEF Counted
  <2>4. Kept(u, {}) /\ (Listens(t) <=> Listens(u))
    BY <1>2, <1>4, <2>2, <2>3, KeptChange, Zenon
  <2> QED BY <1>2, <1>7, <2>1, <2>4, Zenon
<1> QED BY <1>6, <1>7, Zenon

\* Shutdown of an object that the handler holds
LEMMA ShutdownKept ==
  ASSUME NEW t, NEW c \in Client, Kept(t, {c})
  PROVE  /\ Kept(Shutdown(t, c), {c}) /\ (Listens(t) <=> Listens(Shutdown(t, c)))
         /\ Shutdown(t, c).open = t.open \ {c} /\ Shutdown(t, c).ref = t.ref
         /\ Shutdown(t, c).owner = t.owner
<1> DEFINE u == Shutdown(t, c)
<1>1. Typed(t) /\ Counted(t, {c}, c)
  BY Zenon DEF Kept
<1>2. /\ u.open = t.open \ {c} /\ u.inuse = t.inuse /\ u.owner = t.owner /\ u.ops = t.ops
      /\ u.idleIn = t.idleIn /\ u.idleOut = t.idleOut /\ u.nAcceptCount = t.nAcceptCount
      /\ u.pending = t.pending /\ u.garbage = t.garbage
      /\ u.ref = t.ref /\ DOMAIN u = Fields
  BY <1>1, Zenon DEF Typed, Fields, Shutdown
<1> HIDE DEF u
<1>3. Typed(u)
  BY <1>1, <1>2, Zenon DEF Typed
<1>4. Counted(u, {c}, c) /\ "accept" \notin t.ops[c]
  BY <1>1, <1>2, Zenon DEF Counted
<1>5. Kept(u, {c}) /\ (Listens(t) <=> Listens(u))
  BY <1>2, <1>3, <1>4, KeptChange, Zenon
<1> QED BY <1>2, <1>5, Zenon DEF u

\* Close
LEMMA CloseKept ==
  ASSUME NEW t, NEW c \in Client, Kept(t, {c})
  PROVE  /\ Kept(Close(t, c), {})
         /\ Listens(t) \/ (t.ref[c] = 1 /\ c \in InClient) => Listens(Close(t, c))
         /\ c \notin Close(t, c).open /\ (t.ref[c] = 1 => Close(t, c).ref[c] = 0)
<1> DEFINE u == Shutdown(t, c)
<1>1. /\ Kept(u, {c}) /\ (Listens(t) <=> Listens(u))
      /\ u.open = t.open \ {c} /\ u.ref = t.ref /\ u.owner = t.owner
  BY ShutdownKept, Zenon
<1> HIDE DEF u
<1>2. /\ Kept(Release(u, c), {})
      /\ Listens(u) \/ (u.ref[c] = 1 /\ c \in InClient) => Listens(Release(u, c))
      /\ u.ref[c] = 1 => Release(u, c).ref[c] = 0 /\ Release(u, c).open = u.open \ {c}
      /\ u.ref[c] # 1 => Release(u, c).open = u.open
  BY <1>1, ReleaseKept, Zenon
<1> QED BY <1>1, <1>2, Zenon DEF Close, u

\* A handler begins: its operation is done, and its reference is the handler's
LEMMA DoneKept ==
  ASSUME NEW t, NEW c \in Client, Kept(t, {}), NEW op \in Op \ {"accept"}, op \in t.ops[c],
         NEW u, DOMAIN u = Fields, u.open = t.open, u.inuse = t.inuse, u.owner = t.owner,
         u.ref = t.ref, u.ops = [t.ops EXCEPT ![c] = @ \ {op}], u.idleIn = t.idleIn,
         u.idleOut = t.idleOut, u.nAcceptCount = t.nAcceptCount, u.garbage = t.garbage,
         u.pending \subseteq t.pending, c \notin u.pending,
         \A d \in t.pending : d # c => d \in u.pending
  PROVE  Kept(u, {c}) /\ (Listens(t) <=> Listens(u))
<1>1. Typed(t) /\ Counted(t, {}, c)
  BY Zenon DEF Kept
<1>2. /\ Typed(u) /\ u.ops[c] = t.ops[c] \ {op}
      /\ \A d \in Client \ {c} : u.ops[d] = t.ops[d]
  BY <1>1, Zenon DEF Typed
<1>3. /\ "accept" \notin t.ops[c] /\ "accept" \notin u.ops[c] /\ "connect" \notin u.ops[c]
      /\ c \in t.inuse
  BY <1>1, <1>2, Zenon DEF Counted
<1>4. u.ref[c] = Cardinality(u.ops[c]) + One(c \in u.owner) + One(c \in {c})
  <2>1. t.ops[c] \in SUBSET Op
    BY <1>1, Zenon DEF Typed
  <2>2. Cardinality(t.ops[c]) \in Nat /\ Cardinality(t.ops[c] \ {op}) = Cardinality(t.ops[c]) - 1
    BY <2>1, OpCount, Zenon
  <2>3. Cardinality(u.ops[c]) = Cardinality(t.ops[c]) - 1
    BY <1>2, <2>2, Zenon
  <2>4. /\ One(c \in {}) = 0 /\ One(c \in {c}) = 1 /\ One(c \in t.owner) \in {0, 1}
        /\ One(c \in u.owner) = One(c \in t.owner)
    BY Zenon DEF One
  <2>5. t.ref[c] = Cardinality(t.ops[c]) + One(c \in t.owner)
    BY <1>1, <2>2, <2>4 DEF Counted
  <2> QED BY <2>2, <2>3, <2>4, <2>5
<1>5. Counted(u, {c}, c)
  BY <1>2, <1>3, <1>4, Zenon DEF Counted
<1> QED BY <1>2, <1>3, <1>5, KeptChange, Zenon

\* The owner starts an operation
LEMMA StartKept ==
  ASSUME NEW t, NEW c \in Client, Kept(t, {}), Listens(t), c \in t.owner,
         NEW op \in {"read", "write"}, op \notin t.ops[c]
  PROVE  Kept(Start(t, c, op), {}) /\ Listens(Start(t, c, op))
<1> DEFINE u == Start(t, c, op)
<1>1. Typed(t) /\ Counted(t, {}, c) /\ op \in Op
  BY Zenon DEF Kept, Op
<1>2. /\ u.open = t.open /\ u.inuse = t.inuse /\ u.owner = t.owner
      /\ u.ops = [t.ops EXCEPT ![c] = @ \cup {op}]
      /\ u.idleIn = t.idleIn /\ u.idleOut = t.idleOut /\ u.nAcceptCount = t.nAcceptCount
      /\ u.pending = t.pending /\ u.garbage = t.garbage
      /\ u.ref = [t.ref EXCEPT ![c] = @ + 1] /\ DOMAIN u = Fields
  BY <1>1, Zenon DEF Typed, Fields, Start
<1> HIDE DEF u
<1>3. /\ Typed(u) /\ u.ops[c] = t.ops[c] \cup {op} /\ u.ref[c] = t.ref[c] + 1
      /\ \A d \in Client \ {c} : u.ops[d] = t.ops[d] /\ u.ref[d] = t.ref[d]
  BY <1>1, <1>2 DEF Typed
<1>4. /\ "accept" \notin t.ops[c] /\ "accept" \notin u.ops[c] /\ "connect" \notin u.ops[c]
      /\ "connect" \notin t.ops[c] /\ c \in t.inuse
  BY <1>1, <1>3, Zenon DEF Counted
<1>5. u.ref[c] = Cardinality(u.ops[c]) + One(c \in u.owner) + One(c \in {})
  <2>1. t.ops[c] \in SUBSET Op
    BY <1>1, Zenon DEF Typed
  <2>2. Cardinality(t.ops[c]) \in Nat /\ Cardinality(t.ops[c] \cup {op}) = Cardinality(t.ops[c]) + 1
    BY <1>1, <2>1, OpCount
  <2>3. Cardinality(u.ops[c]) = Cardinality(t.ops[c]) + 1
    BY <1>3, <2>2, Zenon
  <2>4. /\ One(c \in {}) = 0 /\ One(c \in t.owner) \in {0, 1}
        /\ One(c \in u.owner) = One(c \in t.owner)
    BY <1>2, Zenon DEF One
  <2>5. t.ref[c] = Cardinality(t.ops[c]) + One(c \in t.owner)
    BY <1>1, <2>2, <2>4 DEF Counted
  <2> QED BY <1>3, <2>2, <2>3, <2>4, <2>5
<1>6. Counted(u, {}, c)
  BY <1>1, <1>2, <1>3, <1>4, <1>5, Zenon DEF Counted
<1>7. Kept(u, {}) /\ (Listens(t) <=> Listens(u))
  BY <1>2, <1>3, <1>4, <1>6, KeptChange, Zenon
<1> QED BY <1>7, Zenon DEF u

\* The new connection gets an owner, to whom the handler's reference passes
LEMMA ActivateKept ==
  ASSUME NEW t, NEW c \in Client, Kept(t, {c}), c \in t.open, c \notin t.owner, t.ops[c] = {},
         NEW ops \in SUBSET {"read", "write"}
  PROVE  /\ Kept(Activate(t, c, ops), {}) /\ (Listens(t) <=> Listens(Activate(t, c, ops)))
         /\ Activate(t, c, ops).open = t.open
<1> DEFINE u == Activate(t, c, ops)
<1>1. Typed(t) /\ Counted(t, {c}, c) /\ ops \in SUBSET Op
  BY Zenon DEF Kept, Op
<1>2. Cardinality(ops) \in Nat
  BY <1>1, OpCount, Zenon
<1>3. /\ u.open = t.open /\ u.inuse = t.inuse /\ u.owner = t.owner \cup {c}
      /\ u.ops = [t.ops EXCEPT ![c] = @ \cup ops]
      /\ u.idleIn = t.idleIn /\ u.idleOut = t.idleOut /\ u.nAcceptCount = t.nAcceptCount
      /\ u.pending = t.pending /\ u.garbage = t.garbage
      /\ u.ref = [t.ref EXCEPT ![c] = @ + Cardinality(ops)] /\ DOMAIN u = Fields
  BY <1>1, Zenon DEF Typed, Fields, Activate
<1> HIDE DEF u
<1>4. /\ Typed(u) /\ u.ops[c] = ops /\ u.ref[c] = t.ref[c] + Cardinality(ops)
      /\ \A d \in Client \ {c} : u.ops[d] = t.ops[d] /\ u.ref[d] = t.ref[d]
  BY <1>1, <1>2, <1>3 DEF Typed
<1>5. /\ "accept" \notin t.ops[c] /\ "accept" \notin u.ops[c] /\ "connect" \notin u.ops[c]
      /\ c \notin t.pending /\ c \in t.inuse
  BY <1>1, <1>4, Zenon DEF Counted
<1>6. t.ref[c] = 1
  BY <1>1, FS_EmptySet DEF Counted, One
<1>7. u.ref[c] = Cardinality(u.ops[c]) + One(c \in u.owner) + One(c \in {})
  <2>1. One(c \in u.owner) = 1 /\ One(c \in {}) = 0
    BY <1>3, Zenon DEF One
  <2>2. Cardinality(u.ops[c]) = Cardinality(ops)
    BY <1>4, Zenon
  <2> QED BY <1>2, <1>4, <1>6, <2>1, <2>2
<1>8. Counted(u, {}, c)
  BY <1>3, <1>5, <1>7, Zenon DEF Counted
<1>9. Kept(u, {}) /\ (Listens(t) <=> Listens(u))
  BY <1>3, <1>4, <1>5, <1>8, KeptChange, Zenon
<1> QED BY <1>3, <1>9, Zenon DEF u

\* RemovePeer, RemoveClient, CloseConn
LEMMA GiveUpKept ==
  ASSUME NEW t, NEW c \in Client, Kept(t, {}), Listens(t), c \in t.owner
  PROVE  Kept(GiveUp(t, c), {}) /\ Listens(GiveUp(t, c))
<1> DEFINE u == [t EXCEPT !.owner = @ \ {c}]
<1>1. Typed(t) /\ Counted(t, {}, c)
  BY Zenon DEF Kept
<1>2. /\ u.open = t.open /\ u.inuse = t.inuse /\ u.owner = t.owner \ {c} /\ u.ops = t.ops
      /\ u.idleIn = t.idleIn /\ u.idleOut = t.idleOut /\ u.nAcceptCount = t.nAcceptCount
      /\ u.pending = t.pending /\ u.garbage = t.garbage
      /\ u.ref = t.ref /\ DOMAIN u = Fields
  BY <1>1, Zenon DEF Typed, Fields
<1> HIDE DEF u
<1>3. Typed(u)
  BY <1>1, <1>2, Zenon DEF Typed
<1>4. /\ "accept" \notin t.ops[c] /\ "connect" \notin t.ops[c] /\ c \in t.inuse
      /\ c \notin t.pending
  BY <1>1, Zenon DEF Counted
<1>5. u.ref[c] = Cardinality(u.ops[c]) + One(c \in u.owner) + One(c \in {c})
  <2>1. /\ One(c \in u.owner) = 0 /\ One(c \in {c}) = 1
        /\ One(c \in t.owner) = 1 /\ One(c \in {}) = 0
    BY <1>2, Zenon DEF One
  <2>2. Cardinality(t.ops[c]) \in Nat
    BY <1>1, OpCount, Zenon DEF Typed
  <2> QED BY <1>1, <1>2, <2>1, <2>2 DEF Counted
<1>6. Counted(u, {c}, c)
  BY <1>2, <1>4, <1>5, Zenon DEF Counted
<1>7. Kept(u, {c}) /\ (Listens(t) <=> Listens(u))
  BY <1>2, <1>3, <1>4, <1>6, KeptChange, Zenon
<1>8. Kept(Close(u, c), {}) /\ Listens(Close(u, c))
  BY <1>7, CloseKept, Zenon
<1> QED BY <1>8, Zenon DEF GiveUp, u

-----------------------------------------------------------------------------
(* The actions *)

\* What the invariant says of the object of an outstanding accept or connect
LEMMA Outstanding ==
  ASSUME IInv, NEW c \in Client
  PROVE  /\ "accept" \in s.ops[c] =>
              /\ c \in InClient /\ s.ops[c] = {"accept"} /\ c \notin s.owner /\ c \notin s.open
              /\ c \notin s.pending /\ c \in s.inuse /\ s.ref[c] = 1
         /\ "connect" \in s.ops[c] =>
              /\ c \notin InClient /\ s.ops[c] = {"connect"} /\ c \notin s.owner
              /\ c \in s.inuse /\ s.ref[c] = 1 /\ (c \in s.pending => c \in s.open)
<1>1. Counted(s, {}, c)
  BY Zenon DEF IInv, Kept
<1>2. \A op : s.ops[c] = {op} => Cardinality(s.ops[c]) = 1
  BY FS_Singleton, Zenon
<1>3. One(c \in {}) = 0 /\ (c \notin s.owner => One(c \in s.owner) = 0)
  BY Zenon DEF One
<1>4. s.ref[c] = Cardinality(s.ops[c]) + One(c \in s.owner) + One(c \in {})
  BY <1>1, Zenon DEF Counted
<1>5. ASSUME NEW op, s.ops[c] = {op}, c \notin s.owner PROVE s.ref[c] = 1
  BY <1>2, <1>3, <1>4, <1>5
<1> QED BY <1>1, <1>5, Zenon DEF Counted

\* An accept that completes: the reference of the operation becomes the
\* owner's, or the object returns to the queue, and the next accept starts
LEMMA HandleAcceptInv ==
  ASSUME IInv, NEW c \in Client, HandleAccept(c)
  PROVE  IInv'
<1> DEFINE t == [Done(s, c, "accept") EXCEPT !.nAcceptCount = @ - 1]
           u == [t EXCEPT !.open = @ \cup {c}]
<1>1. /\ "accept" \in s.ops[c] /\ c \in InClient /\ s.ops[c] = {"accept"} /\ c \notin s.owner
      /\ c \notin s.open /\ c \notin s.pending /\ c \in s.inuse /\ s.ref[c] = 1
  BY Outstanding, Zenon DEF HandleAccept
<1>2. Kept(s, {}) /\ Typed(s) /\ Accepts(s) /\ Counted(s, {}, c)
  BY Zenon DEF IInv, Kept
<1>3. s.nAcceptCount = 1 /\ \A d \in Client \ {c} : "accept" \notin s.ops[d]
  BY <1>1, <1>2, Zenon DEF Accepts
<1>4. /\ t.inuse = s.inuse /\ t.owner = s.owner /\ t.ops = [s.ops EXCEPT ![c] = @ \ {"accept"}]
      /\ t.idleIn = s.idleIn /\ t.idleOut = s.idleOut /\ t.nAcceptCount = s.nAcceptCount - 1
      /\ t.pending = s.pending /\ t.garbage = s.garbage /\ t.open = s.open
      /\ t.ref = s.ref /\ DOMAIN t = Fields
  BY <1>2, Zenon DEF Typed, Fields, Done
<1>5. /\ u.inuse = s.inuse /\ u.owner = s.owner /\ u.ops = [s.ops EXCEPT ![c] = @ \ {"accept"}]
      /\ u.idleIn = s.idleIn /\ u.idleOut = s.idleOut /\ u.nAcceptCount = s.nAcceptCount - 1
      /\ u.pending = s.pending /\ u.garbage = s.garbage /\ u.open = s.open \cup {c}
      /\ u.ref = s.ref /\ DOMAIN u = Fields
  BY <1>2, <1>4, Zenon DEF Fields
<1>6. \/ s' = ConnCompleted(Close(t, c), c)
      \/ s' = ConnCompleted(Close(u, c), c)
      \/ s' = ConnCompleted(IOInAccept(Activate(u, c, {"read"})), c)
  BY Zenon DEF HandleAccept
<1> HIDE DEF t, u
\* Before the decision, whether or not there is a connection
<1>7. ASSUME NEW v, v.inuse = s.inuse, v.owner = s.owner,
             v.ops = [s.ops EXCEPT ![c] = @ \ {"accept"}],
             v.idleIn = s.idleIn, v.idleOut = s.idleOut, v.nAcceptCount = s.nAcceptCount - 1,
             v.pending = s.pending, v.garbage = s.garbage, v.ref = s.ref, DOMAIN v = Fields,
             v.open = s.open \/ v.open = s.open \cup {c}
      PROVE  Kept(v, {c}) /\ v.ops[c] = {} /\ v.ref[c] = 1
  <2>1. /\ Typed(v) /\ v.ops[c] = {} /\ v.ref[c] = 1
        /\ \A d \in Client \ {c} : v.ops[d] = s.ops[d]
    BY <1>1, <1>2, <1>7 DEF Typed
  <2>2. Counted(v, {c}, c)
    <3>1. One(c \in {c}) = 1 /\ One(c \in v.owner) = 0 /\ Cardinality(v.ops[c]) = 0
      BY <1>1, <1>7, <2>1, FS_EmptySet, Zenon DEF One
    <3>2. v.ref[c] = Cardinality(v.ops[c]) + One(c \in v.owner) + One(c \in {c})
      BY <2>1, <3>1
    <3> QED BY <1>1, <1>7, <2>1, <3>2, Zenon DEF Counted
  <2>3. \A d \in Client : Counted(v, {c}, d)
    <3>1. ASSUME NEW d \in Client \ {c} PROVE Counted(v, {c}, d)
      <4>1. Counted(s, {}, d)
        BY <1>2, Zenon DEF Kept
      <4> QED BY <1>7, <2>1, <4>1, CountedSame, Zenon
    <3> QED BY <2>2, <3>1, Zenon
  <2>4. Accepts(v)
    BY <1>3, <1>7, <2>1 DEF Accepts
  <2> QED BY <1>2, <1>7, <2>1, <2>3, <2>4, Zenon DEF Kept
<1>8. Kept(t, {c}) /\ t.ref[c] = 1
  BY <1>4, <1>7, Zenon
<1>9. Kept(u, {c}) /\ u.ref[c] = 1 /\ u.ops[c] = {}
  BY <1>5, <1>7, Zenon
<1>10. ASSUME NEW v, Kept(v, {c}), v.ref[c] = 1, s' = ConnCompleted(Close(v, c), c)
       PROVE  IInv'
  <2>1. Kept(Close(v, c), {}) /\ Listens(Close(v, c)) /\ Close(v, c).ref[c] = 0
    BY <1>1, <1>10, CloseKept, Zenon
  <2>2. s' = Close(v, c)
    BY <1>10, <2>1, Zenon DEF ConnCompleted
  <2> QED BY <2>1, <2>2, Zenon DEF IInv
<1>11. ASSUME s' = ConnCompleted(IOInAccept(Activate(u, c, {"read"})), c) PROVE IInv'
  <2>1. /\ Kept(Activate(u, c, {"read"}), {}) /\ Activate(u, c, {"read"}).open = u.open
    BY <1>1, <1>5, <1>9, ActivateKept, Zenon
  <2>2. /\ Kept(IOInAccept(Activate(u, c, {"read"})), {})
        /\ Listens(IOInAccept(Activate(u, c, {"read"})))
        /\ IOInAccept(Activate(u, c, {"read"})).open = u.open
    BY <2>1, IOInAcceptKept
  <2>3. s' = IOInAccept(Activate(u, c, {"read"}))
    BY <1>5, <1>11, <2>2, Zenon DEF ConnCompleted
  <2> QED BY <2>2, <2>3, Zenon DEF IInv
<1> QED BY <1>6, <1>8, <1>9, <1>10, <1>11, Zenon

\* A connect that completes: the object gets its owner, or is closed and
\* returned to the queue
LEMMA HandleConnectInv ==
  ASSUME IInv, NEW c \in Client, HandleConnect(c)
  PROVE  IInv'
<1> DEFINE t == Done(s, c, "connect")
           u == [t EXCEPT !.pending = @ \ {c}]
<1>1. /\ "connect" \in s.ops[c] /\ s.ops[c] = {"connect"} /\ c \notin s.owner
      /\ c \in s.inuse /\ s.ref[c] = 1 /\ (c \in s.pending => c \in s.open)
  BY Outstanding, Zenon DEF HandleConnect
<1>2. Kept(s, {}) /\ Listens(s) /\ Typed(s) /\ "connect" \in Op \ {"accept"}
  BY Zenon DEF IInv, Kept, Op
<1>3. /\ t.inuse = s.inuse /\ t.owner = s.owner /\ t.ops = [s.ops EXCEPT ![c] = @ \ {"connect"}]
      /\ t.idleIn = s.idleIn /\ t.idleOut = s.idleOut /\ t.nAcceptCount = s.nAcceptCount
      /\ t.pending = s.pending /\ t.garbage = s.garbage /\ t.open = s.open
      /\ t.ref = s.ref /\ DOMAIN t = Fields
  BY <1>2, Zenon DEF Typed, Fields, Done
<1>4. /\ u.inuse = s.inuse /\ u.owner = s.owner /\ u.ops = [s.ops EXCEPT ![c] = @ \ {"connect"}]
      /\ u.idleIn = s.idleIn /\ u.idleOut = s.idleOut /\ u.nAcceptCount = s.nAcceptCount
      /\ u.pending = s.pending \ {c} /\ u.garbage = s.garbage /\ u.open = s.open
      /\ u.ref = s.ref /\ DOMAIN u = Fields
  BY <1>3, Zenon DEF Fields
<1>5. IF c \notin s.open
      THEN s' = ConnCompleted(t, c)
      ELSE \/ s' = ConnCompleted(Activate(u, c, {"read", "write"}), c)
           \/ s' = ConnCompleted(Close(u, c), c)
  BY Zenon DEF HandleConnect
<1> HIDE DEF t, u
<1>6. Kept(u, {c}) /\ Listens(u) /\ u.ops[c] = {} /\ u.ref[c] = 1
  <2>1. /\ Kept(s, {}) /\ "connect" \in s.ops[c] /\ u.pending \subseteq s.pending
        /\ c \notin u.pending /\ \A d \in s.pending : d # c => d \in u.pending
    BY <1>1, <1>2, <1>4, Zenon
  <2>2. Kept(u, {c}) /\ (Listens(s) <=> Listens(u))
    BY <1>2, <1>4, <2>1, DoneKept, Zenon
  <2>3. u.ops[c] = {} /\ u.ref[c] = 1
    BY <1>1, <1>2, <1>4, Zenon DEF Typed
  <2> QED BY <1>2, <2>2, <2>3, Zenon
<1>7. CASE c \notin s.open
  <2>1. t.pending = s.pending \ {c}
    BY <1>1, <1>3, <1>7, Zenon
  <2>2. Kept(t, {c}) /\ Listens(t) /\ t.ref[c] = 1
    BY <1>1, <1>2, <1>3, <2>1, DoneKept, Zenon
  <2>3. s' = Release(t, c)
    BY <1>3, <1>5, <1>7, <2>2 DEF ConnCompleted
  <2> QED BY <2>2, <2>3, ReleaseKept, Zenon DEF IInv
<1>8. CASE s' = ConnCompleted(Activate(u, c, {"read", "write"}), c) /\ c \in s.open
  <2>1. /\ Kept(Activate(u, c, {"read", "write"}), {})
        /\ Listens(Activate(u, c, {"read", "write"}))
        /\ Activate(u, c, {"read", "write"}).open = u.open
    BY <1>1, <1>4, <1>6, <1>8, ActivateKept, Zenon
  <2>2. s' = Activate(u, c, {"read", "write"})
    BY <1>4, <1>8, <2>1, Zenon DEF ConnCompleted
  <2> QED BY <2>1, <2>2, Zenon DEF IInv
<1>9. CASE s' = ConnCompleted(Close(u, c), c)
  <2>1. Kept(Close(u, c), {}) /\ Listens(Close(u, c)) /\ Close(u, c).ref[c] = 0
    BY <1>6, CloseKept, Zenon
  <2>2. s' = Close(u, c)
    BY <1>9, <2>1, Zenon DEF ConnCompleted
  <2> QED BY <2>1, <2>2, Zenon DEF IInv
<1> QED BY <1>5, <1>7, <1>8, <1>9, Zenon

\* A connect over SSL that completes: the object gets its owner, or is
\* closed and left as garbage
LEMMA HandleSSLConnectInv ==
  ASSUME IInv, NEW c \in Client, HandleSSLConnect(c)
  PROVE  IInv'
<1> DEFINE u == [Done(s, c, "connect") EXCEPT !.pending = @ \ {c}]
<1>1. /\ "connect" \in s.ops[c] /\ s.ops[c] = {"connect"} /\ c \notin s.owner
      /\ c \in s.inuse /\ s.ref[c] = 1
  BY Outstanding, Zenon DEF HandleSSLConnect
<1>2. Kept(s, {}) /\ Listens(s) /\ Typed(s) /\ "connect" \in Op \ {"accept"}
  BY Zenon DEF IInv, Kept, Op
<1>3. /\ u.inuse = s.inuse /\ u.owner = s.owner /\ u.ops = [s.ops EXCEPT ![c] = @ \ {"connect"}]
      /\ u.idleIn = s.idleIn /\ u.idleOut = s.idleOut /\ u.nAcceptCount = s.nAcceptCount
      /\ u.pending = s.pending \ {c} /\ u.garbage = s.garbage /\ u.open = s.open
      /\ u.ref = s.ref /\ DOMAIN u = Fields
  BY <1>2, Zenon DEF Typed, Fields, Done
<1>4. IF c \notin s.open
      THEN s' = ConnCompleted(u, c)
      ELSE \/ s' = ConnCompleted(Activate(u, c, {"write"}), c)
           \/ s' = ConnCompleted(Shutdown(u, c), c)
  BY Zenon DEF HandleSSLConnect
<1> HIDE DEF u
<1>5. Kept(u, {c}) /\ Listens(u) /\ u.ops[c] = {} /\ u.ref[c] = 1
  <2>1. /\ Kept(s, {}) /\ "connect" \in s.ops[c] /\ u.pending \subseteq s.pending
        /\ c \notin u.pending /\ \A d \in s.pending : d # c => d \in u.pending
    BY <1>1, <1>2, <1>3, Zenon
  <2>2. Kept(u, {c}) /\ (Listens(s) <=> Listens(u))
    BY <1>2, <1>3, <2>1, DoneKept, Zenon
  <2>3. u.ops[c] = {} /\ u.ref[c] = 1
    BY <1>1, <1>2, <1>3, Zenon DEF Typed
  <2> QED BY <1>2, <2>2, <2>3, Zenon
<1>6. CASE c \notin s.open
  <2>1. s' = Release(u, c)
    BY <1>3, <1>4, <1>5, <1>6 DEF ConnCompleted
  <2> QED BY <1>5, <2>1, ReleaseKept, Zenon DEF IInv
<1>7. CASE s' = ConnCompleted(Activate(u, c, {"write"}), c) /\ c \in s.open
  <2>1. /\ Kept(Activate(u, c, {"write"}), {}) /\ Listens(Activate(u, c, {"write"}))
        /\ Activate(u, c, {"write"}).open = u.open
    BY <1>1, <1>3, <1>5, <1>7, ActivateKept, Zenon
  <2>2. s' = Activate(u, c, {"write"})
    BY <1>3, <1>7, <2>1, Zenon DEF ConnCompleted
  <2> QED BY <2>1, <2>2, Zenon DEF IInv
<1>8. CASE s' = ConnCompleted(Shutdown(u, c), c)
  <2>1. /\ Kept(Shutdown(u, c), {c}) /\ Listens(Shutdown(u, c))
        /\ c \notin Shutdown(u, c).open /\ Shutdown(u, c).ref[c] = 1
    <3>1. /\ Kept(Shutdown(u, c), {c}) /\ (Listens(u) <=> Listens(Shutdown(u, c)))
          /\ Shutdown(u, c).open = u.open \ {c} /\ Shutdown(u, c).ref = u.ref
      BY <1>5, ShutdownKept, Zenon
    <3> QED BY <1>5, <3>1, Zenon
  <2>2. s' = Release(Shutdown(u, c), c)
    BY <1>8, <2>1 DEF ConnCompleted
  <2> QED BY <2>1, <2>2, ReleaseKept, Zenon DEF IInv
<1> QED BY <1>4, <1>6, <1>7, <1>8, Zenon

\* An outbound object is taken into use
LEMMA AllocKept ==
  ASSUME NEW t, NEW v, NEW c \in Client \ InClient, Kept(t, {}), c \notin t.inuse, Typed(v),
         NEW G \in SUBSET {c},
         \A d \in Client \ {c} :
            /\ v.ref[d] = t.ref[d] /\ v.ops[d] = t.ops[d]
            /\ d \in v.open <=> d \in t.open
            /\ d \in v.owner <=> d \in t.owner
            /\ d \in v.pending <=> d \in t.pending,
         v.inuse = t.inuse \cup {c}, v.idleIn = t.idleIn, v.garbage = t.garbage,
         v.nAcceptCount = t.nAcceptCount, Queued(v.idleOut, OutClient, v.inuse),
         Counted(v, G, c), "accept" \notin v.ops[c],
         Cardinality(v.inuse \cap SSLClient) <= nMaxConn
  PROVE  Kept(v, G) /\ (Listens(t) <=> Listens(v))
<1>1. \A d \in Client : Counted(v, G, d)
  <2>1. ASSUME NEW d \in Client \ {c} PROVE Counted(v, G, d)
    <3>1. Counted(t, {}, d)
      BY Zenon DEF Kept
    <3> QED BY <3>1, CountedSame, Zenon
  <2> QED BY <2>1, Zenon
<1>2. Accepts(v)
  <2>1. Accepts(t) /\ Counted(t, {}, c)
    BY Zenon DEF Kept
  <2>2. \A d \in Client : "accept" \in v.ops[d] <=> "accept" \in t.ops[d]
    BY <2>1, Zenon DEF Counted
  <2> QED BY <2>1, <2>2, Zenon DEF Accepts
<1>3. Queued(v.idleIn, InClient, v.inuse)
  BY DEF Kept, Queued
<1> QED BY <1>1, <1>2, <1>3, Zenon DEF Kept, Listens

\* An object that is not in use is quiet
LEMMA UnusedQuiet ==
  ASSUME NEW t, Kept(t, {}), NEW c \in Client, c \notin t.inuse
  PROVE  /\ t.ops[c] = {} /\ c \notin t.owner /\ c \notin t.open /\ c \notin t.pending
         /\ t.ref[c] = 0
<1>1. Counted(t, {}, c)
  BY Zenon DEF Kept
<1>2. t.ops[c] = {} /\ c \notin t.owner /\ c \notin t.open /\ c \notin t.pending
  BY <1>1, Zenon DEF Counted
<1> QED BY <1>1, <1>2, FS_EmptySet DEF Counted, One

\* Starting a connect takes the head of the queue; the operation has the
\* only reference
LEMMA ConnectToInv ==
  ASSUME IInv, ConnectTo
  PROVE  IInv'
<1> DEFINE c == Head(s.idleOut)
           t == [s EXCEPT !.idleOut = Tail(@), !.inuse = @ \cup {c}]
           u == [Start(t, c, "connect") EXCEPT !.open = @ \cup {c}, !.pending = @ \cup {c}]
           r == [t EXCEPT !.ref[c] = @ + 1]
<1>1. Kept(s, {}) /\ Listens(s) /\ Typed(s) /\ "connect" \in Op
  BY Zenon DEF IInv, Kept, Op
<1>2. s' = u \/ s' = Release(r, c)
  BY Zenon DEF ConnectTo
<1>3. /\ s.idleOut # <<>> /\ s.idleOut \in Seq(OutClient) /\ IsInjective(s.idleOut)
      /\ Range(s.idleOut) = OutClient \ s.inuse
  BY <1>1, Zenon DEF ConnectTo, Kept, Typed, Queued
<1>4. /\ c \in Client \ InClient /\ c \in OutClient /\ c \notin SSLClient /\ c \notin s.inuse
      /\ Tail(s.idleOut) \in Seq(OutClient) /\ Queued(Tail(s.idleOut), OutClient, s.inuse \cup {c})
  <2>1. /\ c \in Range(s.idleOut) /\ Tail(s.idleOut) \in Seq(OutClient)
        /\ IsInjective(Tail(s.idleOut)) /\ Range(Tail(s.idleOut)) = Range(s.idleOut) \ {c}
    BY <1>3, QueueTail, Zenon
  <2>2. Range(Tail(s.idleOut)) = OutClient \ (s.inuse \cup {c})
    BY <1>3, <2>1, Zenon
  <2> QED BY <1>3, <2>1, <2>2, Classes, Zenon DEF Queued
<1>5. /\ s.ops[c] = {} /\ c \notin s.owner /\ c \notin s.open /\ c \notin s.pending /\ s.ref[c] = 0
  BY <1>1, <1>4, UnusedQuiet, Zenon
<1>6. /\ t.inuse = s.inuse \cup {c} /\ t.owner = s.owner /\ t.ops = s.ops
      /\ t.idleIn = s.idleIn /\ t.idleOut = Tail(s.idleOut) /\ t.nAcceptCount = s.nAcceptCount
      /\ t.pending = s.pending /\ t.garbage = s.garbage /\ t.open = s.open
      /\ t.ref = s.ref /\ DOMAIN t = Fields
  BY <1>1, Zenon DEF Typed, Fields
<1>7. /\ u.inuse = s.inuse \cup {c} /\ u.owner = s.owner
      /\ u.ops = [s.ops EXCEPT ![c] = @ \cup {"connect"}]
      /\ u.idleIn = s.idleIn /\ u.idleOut = Tail(s.idleOut) /\ u.nAcceptCount = s.nAcceptCount
      /\ u.pending = s.pending \cup {c} /\ u.garbage = s.garbage /\ u.open = s.open \cup {c}
      /\ u.ref = [s.ref EXCEPT ![c] = @ + 1] /\ DOMAIN u = Fields
  BY <1>6, Zenon DEF Fields, Start
<1>8. /\ r.inuse = s.inuse \cup {c} /\ r.owner = s.owner /\ r.ops = s.ops
      /\ r.idleIn = s.idleIn /\ r.idleOut = Tail(s.idleOut) /\ r.nAcceptCount = s.nAcceptCount
      /\ r.pending = s.pending /\ r.garbage = s.garbage /\ r.open = s.open
      /\ r.ref = [s.ref EXCEPT ![c] = @ + 1] /\ DOMAIN r = Fields
  BY <1>6, Zenon DEF Fields
<1> HIDE DEF c, t, u, r
<1>9. /\ Cardinality(u.inuse \cap SSLClient) <= nMaxConn
      /\ Cardinality(r.inuse \cap SSLClient) <= nMaxConn
  <2>1. u.inuse \cap SSLClient = s.inuse \cap SSLClient /\ r.inuse \cap SSLClient = s.inuse \cap SSLClient
    BY <1>4, <1>7, <1>8, Zenon
  <2> QED BY <1>1, <2>1, Zenon DEF Kept
<1>10. CASE s' = u
  <2>1. /\ Typed(u) /\ u.ops[c] = {"connect"} /\ u.ref[c] = 1
        /\ \A d \in Client \ {c} : u.ops[d] = s.ops[d] /\ u.ref[d] = s.ref[d]
    BY <1>1, <1>4, <1>5, <1>7 DEF Typed
  <2>2. Counted(u, {}, c)
    <3>1. Cardinality(u.ops[c]) = 1
      BY <2>1, FS_Singleton, Zenon
    <3>2. u.ref[c] = Cardinality(u.ops[c]) + One(c \in u.owner) + One(c \in {})
      BY <1>5, <1>7, <2>1, <3>1 DEF One
    <3>3. "accept" \notin u.ops[c] /\ "connect" \in u.ops[c] /\ u.ops[c] # {}
      BY <2>1, Zenon
    <3> QED BY <1>4, <1>5, <1>7, <2>1, <3>2, <3>3, Zenon DEF Counted
  <2>3. "accept" \notin u.ops[c] /\ Queued(u.idleOut, OutClient, u.inuse)
    BY <1>4, <1>7, <2>1, Zenon
  <2>4. Kept(u, {}) /\ (Listens(s) <=> Listens(u))
    BY <1>1, <1>4, <1>7, <1>9, <2>1, <2>2, <2>3, AllocKept, Zenon
  <2> QED BY <1>1, <1>10, <2>4, Zenon DEF IInv
<1>11. CASE s' = Release(r, c)
  <2>1. /\ Typed(r) /\ r.ops[c] = {} /\ r.ref[c] = 1
        /\ \A d \in Client \ {c} : r.ops[d] = s.ops[d] /\ r.ref[d] = s.ref[d]
    BY <1>1, <1>4, <1>5, <1>8 DEF Typed
  <2>2. Counted(r, {c}, c)
    <3>0. /\ Cardinality(r.ops[c]) = 0 /\ One(c \in r.owner) = 0 /\ One(c \in {c}) = 1
      BY <1>5, <1>8, <2>1, FS_EmptySet, Zenon DEF One
    <3>1. r.ref[c] = Cardinality(r.ops[c]) + One(c \in r.owner) + One(c \in {c})
      BY <2>1, <3>0
    <3> QED BY <1>5, <1>8, <2>1, <3>1, Zenon DEF Counted
  <2>3. "accept" \notin r.ops[c] /\ Queued(r.idleOut, OutClient, r.inuse)
    BY <1>4, <1>8, <2>1, Zenon
  <2>4. Kept(r, {c}) /\ (Listens(s) <=> Listens(r))
    BY <1>1, <1>4, <1>8, <1>9, <2>1, <2>2, <2>3, AllocKept, Zenon
  <2> QED BY <1>1, <1>4, <1>11, <2>1, <2>4, ReleaseKept, Zenon DEF IInv
<1> QED BY <1>2, <1>10, <1>11, Zenon DEF c

\* Starting a connect over SSL creates the object, below nMaxConn
LEMMA SSLConnectToInv ==
  ASSUME IInv, NEW c \in SSLClient, SSLConnectTo(c)
  PROVE  IInv'
<1>1. Kept(s, {}) /\ Listens(s) /\ Typed(s) /\ "connect" \in Op
  BY Zenon DEF IInv, Kept, Op
<1>2. c \in Client \ InClient /\ c \notin OutClient /\ c \in Client /\ c \notin s.inuse
  BY Classes, Zenon DEF SSLConnectTo
<1>3. /\ s.ops[c] = {} /\ c \notin s.owner /\ c \notin s.open /\ c \notin s.pending /\ s.ref[c] = 0
  BY <1>1, <1>2, UnusedQuiet, Zenon
<1>4. /\ s'.inuse = s.inuse \cup {c} /\ s'.owner = s.owner
      /\ s'.ops = [s.ops EXCEPT ![c] = @ \cup {"connect"}]
      /\ s'.idleIn = s.idleIn /\ s'.idleOut = s.idleOut /\ s'.nAcceptCount = s.nAcceptCount
      /\ s'.pending = s.pending \cup {c} /\ s'.garbage = s.garbage /\ s'.open = s.open \cup {c}
      /\ s'.ref = [s.ref EXCEPT ![c] = @ + 1] /\ DOMAIN s' = Fields
  BY <1>1, Zenon DEF SSLConnectTo, Typed, Fields, Start
<1>5. /\ Typed(s') /\ s'.ops[c] = {"connect"} /\ s'.ref[c] = 1
      /\ \A d \in Client \ {c} : s'.ops[d] = s.ops[d] /\ s'.ref[d] = s.ref[d]
  BY <1>1, <1>2, <1>3, <1>4 DEF Typed
<1>6. Counted(s', {}, c)
  <2>1. Cardinality(s'.ops[c]) = 1
    BY <1>5, FS_Singleton, Zenon
  <2>2. s'.ref[c] = Cardinality(s'.ops[c]) + One(c \in s'.owner) + One(c \in {})
    BY <1>3, <1>4, <1>5, <2>1 DEF One
  <2>3. "accept" \notin s'.ops[c] /\ "connect" \in s'.ops[c] /\ s'.ops[c] # {}
    BY <1>5, Zenon
  <2>4. c \notin s'.owner /\ c \in s'.inuse /\ c \in s'.open
    BY <1>3, <1>4, Zenon
  <2> QED BY <1>2, <1>5, <2>2, <2>3, <2>4, Zenon DEF Counted
<1>7. "accept" \notin s'.ops[c] /\ Queued(s'.idleOut, OutClient, s'.inuse)
  BY <1>1, <1>2, <1>4, <1>5, Zenon DEF Kept, Queued
<1>8. Cardinality(s'.inuse \cap SSLClient) <= nMaxConn
  <2>1. s'.inuse \cap SSLClient = (s.inuse \cap SSLClient) \cup {c}
    BY <1>4, Zenon
  <2>2. IsFiniteSet(s.inuse \cap SSLClient) /\ Cardinality(s.inuse \cap SSLClient) < nMaxConn
    BY PoolAssumption, FS_Intersection, Zenon DEF SSLConnectTo
  <2>3. /\ Cardinality((s.inuse \cap SSLClient) \cup {c}) = Cardinality(s.inuse \cap SSLClient) + 1
        /\ Cardinality(s.inuse \cap SSLClient) \in Nat
    BY <1>2, <2>2, FS_AddElement, FS_CardinalityType, Zenon
  <2>4. Cardinality(s'.inuse \cap SSLClient) = Cardinality(s.inuse \cap SSLClient) + 1
    BY <2>1, <2>3, Zenon
  <2> QED BY <2>2, <2>3, <2>4, PoolAssumption
<1>9. Kept(s', {}) /\ (Listens(s) <=> Listens(s'))
  BY <1>1, <1>2, <1>4, <1>5, <1>6, <1>7, <1>8, AllocKept, Zenon
<1> QED BY <1>1, <1>9, Zenon DEF IInv

\* The timeout of a connect closes the socket and leaves the references to
\* the completion that follows
LEMMA TimeoutInv ==
  ASSUME IInv, NEW c \in Client, Timeout(c)
  PROVE  IInv'
<1>1. Kept(s, {}) /\ Listens(s) /\ Typed(s) /\ Counted(s, {}, c)
  BY Zenon DEF IInv, Kept
<1>2. /\ s'.open = s.open \ {c} /\ s'.inuse = s.inuse /\ s'.owner = s.owner /\ s'.ops = s.ops
      /\ s'.idleIn = s.idleIn /\ s'.idleOut = s.idleOut /\ s'.nAcceptCount = s.nAcceptCount
      /\ s'.pending = s.pending \ {c} /\ s'.garbage = s.garbage
      /\ s'.ref = s.ref /\ DOMAIN s' = Fields
  BY <1>1, Zenon DEF Timeout, Typed, Fields, Shutdown
<1>3. Typed(s')
  BY <1>1, <1>2, Zenon DEF Typed
<1>4. Counted(s', {}, c) /\ "accept" \notin s.ops[c]
  BY <1>1, <1>2, Zenon DEF Counted, Timeout
<1>5. Kept(s', {}) /\ (Listens(s) <=> Listens(s'))
  BY <1>1, <1>2, <1>3, <1>4, KeptChange, Zenon
<1> QED BY <1>1, <1>5, Zenon DEF IInv

\* A read or a write that completes drops the reference of the operation,
\* and the last one returns the object
LEMMA HandleCompletedInv ==
  ASSUME IInv, NEW c \in Client, NEW op \in Op, HandleCompleted(c, op)
  PROVE  IInv'
<1> DEFINE d == Done(s, c, op)
           t == Release(d, c)
<1>1. Kept(s, {}) /\ Listens(s) /\ Typed(s) /\ Counted(s, {}, c)
  BY Zenon DEF IInv, Kept
<1>2. op \in s.ops[c] /\ op \in {"read", "write"} /\ op \in Op \ {"accept"}
  BY Zenon DEF HandleCompleted
<1>3. "connect" \notin s.ops[c] /\ c \notin s.pending /\ (c \in s.open => c \in s.owner)
  BY <1>1, <1>2, Zenon DEF Counted
<1>4. /\ d.inuse = s.inuse /\ d.owner = s.owner /\ d.ops = [s.ops EXCEPT ![c] = @ \ {op}]
      /\ d.idleIn = s.idleIn /\ d.idleOut = s.idleOut /\ d.nAcceptCount = s.nAcceptCount
      /\ d.pending = s.pending /\ d.garbage = s.garbage /\ d.open = s.open
      /\ d.ref = s.ref /\ DOMAIN d = Fields
  BY <1>1, Zenon DEF Typed, Fields, Done
<1>5. IF c \notin t.open
      THEN s' = t
      ELSE \/ s' = t
           \/ \E next \in {"read", "write"} \ t.ops[c] : s' = Start(t, c, next)
           \/ s' = GiveUp(t, c)
  BY Zenon DEF HandleCompleted
<1> HIDE DEF d
<1>6. Kept(d, {c}) /\ Listens(d)
  <2>1. d.pending \subseteq s.pending /\ c \notin d.pending
        /\ \A e \in s.pending : e # c => e \in d.pending
    BY <1>3, <1>4, Zenon
  <2>2. Kept(d, {c}) /\ (Listens(s) <=> Listens(d))
    BY <1>1, <1>2, <1>4, <2>1, DoneKept, Zenon
  <2> QED BY <1>1, <2>2, Zenon
<1>7. /\ Kept(t, {}) /\ Listens(t) /\ t.owner = d.owner /\ t.open \subseteq d.open
  BY <1>3, <1>4, <1>6, ReleaseKept
<1> HIDE DEF t
<1>8. c \in t.open => c \in t.owner
  BY <1>3, <1>4, <1>7, Zenon
<1>9. CASE s' = t
  BY <1>7, <1>9, Zenon DEF IInv
<1>10. CASE c \in t.open /\ \E next \in {"read", "write"} \ t.ops[c] : s' = Start(t, c, next)
  <2>1. PICK next \in {"read", "write"} \ t.ops[c] : s' = Start(t, c, next)
    BY <1>10, Zenon
  <2>2. next \in {"read", "write"} /\ next \notin t.ops[c]
    BY Zenon
  <2>3. Kept(Start(t, c, next), {}) /\ Listens(Start(t, c, next))
    BY <1>7, <1>8, <1>10, <2>2, StartKept, Zenon
  <2> QED BY <2>1, <2>3, Zenon DEF IInv
<1>11. CASE c \in t.open /\ s' = GiveUp(t, c)
  BY <1>7, <1>8, <1>11, GiveUpKept, Zenon DEF IInv
<1> QED BY <1>5, <1>9, <1>10, <1>11, Zenon

\* The pool begins with its objects queued, and listens
LEMMA InitInv == Init => IInv
<1> SUFFICES ASSUME Init PROVE IInv
  BY Zenon
<1> DEFINE t == [open |-> {}, inuse |-> {}, owner |-> {}, ref |-> [c \in Client |-> 0],
                 ops |-> [c \in Client |-> {}], idleIn |-> PrepareClient(InClient),
                 idleOut |-> PrepareClient(OutClient), nAcceptCount |-> 0,
                 pending |-> {}, garbage |-> {}]
<1>1. s = IOInAccept(t)
  BY Zenon DEF Init
<1>2. /\ t.open = {} /\ t.inuse = {} /\ t.owner = {} /\ t.ref = [c \in Client |-> 0]
      /\ t.ops = [c \in Client |-> {}] /\ t.idleIn = PrepareClient(InClient)
      /\ t.idleOut = PrepareClient(OutClient) /\ t.nAcceptCount = 0 /\ t.pending = {}
      /\ t.garbage = {} /\ DOMAIN t = Fields
  BY Zenon DEF Fields
<1> HIDE DEF t
<1>3. /\ t.idleIn \in Seq(InClient) /\ Queued(t.idleIn, InClient, t.inuse)
      /\ t.idleOut \in Seq(OutClient) /\ Queued(t.idleOut, OutClient, t.inuse)
  BY <1>2, NewQueue, PoolAssumption, Zenon
<1>4. Typed(t)
  BY <1>2, <1>3 DEF Typed
<1>5. \A d \in Client : Counted(t, {}, d)
  <2> SUFFICES ASSUME NEW d \in Client PROVE Counted(t, {}, d)
    BY Zenon
  <2>1. t.ops[d] = {} /\ t.ref[d] = 0
    BY <1>2, Zenon
  <2>2. Cardinality(t.ops[d]) = 0 /\ One(d \in t.owner) = 0 /\ One(d \in {}) = 0
    BY <1>2, <2>1, FS_EmptySet, Zenon DEF One
  <2>3. t.ref[d] = Cardinality(t.ops[d]) + One(d \in t.owner) + One(d \in {})
    BY <2>1, <2>2
  <2> QED BY <1>2, <2>1, <2>3, Zenon DEF Counted
<1>6. Accepts(t)
  BY <1>2 DEF Accepts
<1>7. Cardinality(t.inuse \cap SSLClient) <= nMaxConn
  <2>1. t.inuse \cap SSLClient = {}
    BY <1>2, Zenon
  <2>2. Cardinality(t.inuse \cap SSLClient) = 0
    BY <2>1, FS_EmptySet, Zenon
  <2> QED BY <2>2, PoolAssumption
<1>8. Kept(t, {})
  BY <1>2, <1>3, <1>4, <1>5, <1>6, <1>7, Zenon DEF Kept
<1> QED BY <1>1, <1>8, IOInAcceptKept, Zenon DEF IInv

\* Every handler keeps the books
LEMMA NextInv == IInv /\ [Next]_s => IInv'
<1> SUFFICES ASSUME IInv, [Next]_s PROVE IInv'
  BY Zenon
<1>1. CASE ConnectTo
  BY <1>1, ConnectToInv, Zenon
<1>2. ASSUME NEW c \in Client, HandleAccept(c) PROVE IInv'
  BY <1>2, HandleAcceptInv, Zenon
<1>3. ASSUME NEW c \in Client, SSLConnectTo(c) /\ c \in SSLClient PROVE IInv'
  BY <1>3, SSLConnectToInv, Zenon
<1>4. ASSUME NEW c \in Client, Timeout(c) PROVE IInv'
  BY <1>4, TimeoutInv, Zenon
<1>5. ASSUME NEW c \in Client, HandleConnect(c) PROVE IInv'
  BY <1>5, HandleConnectInv, Zenon
<1>6. ASSUME NEW c \in Client, HandleSSLConnect(c) PROVE IInv'
  BY <1>6, HandleSSLConnectInv, Zenon
<1>7. ASSUME NEW c \in Client, NEW op \in Op, HandleCompleted(c, op) PROVE IInv'
  BY <1>7, HandleCompletedInv, Zenon
<1>8. ASSUME NEW c \in Client, OwnerWrite(c) PROVE IInv'
  BY <1>8, StartKept, Zenon DEF OwnerWrite, IInv
<1>9. ASSUME NEW c \in Client, OwnerClose(c) PROVE IInv'
  BY <1>9, GiveUpKept, Zenon DEF OwnerClose, IInv
<1>10. CASE UNCHANGED s
  BY <1>10, Zenon DEF IInv
<1> QED BY <1>1, <1>2, <1>3, <1>4, <1>5, <1>6, <1>7, <1>8, <1>9, <1>10, Zenon DEF Next

-----------------------------------------------------------------------------
(* The properties *)

\* The invariant gives the types: no more than three references
LEMMA InvTypeOK == IInv => TypeOK
<1> SUFFICES ASSUME IInv PROVE TypeOK
  BY Zenon
<1>1. Kept(s, {}) /\ Typed(s) /\ Accepts(s) /\ \A d \in Client : Counted(s, {}, d)
  BY Zenon DEF IInv, Kept
<1>2. s.ref \in [Client -> 0..3]
  <2> SUFFICES ASSUME NEW d \in Client PROVE s.ref[d] \in 0..3
    BY <1>1, Zenon DEF Typed
  <2>1. /\ s.ref[d] = Cardinality(s.ops[d]) + One(d \in s.owner) + One(d \in {})
        /\ s.ops[d] \in SUBSET Op
        /\ "accept" \in s.ops[d] => s.ops[d] = {"accept"}
        /\ "connect" \in s.ops[d] => s.ops[d] = {"connect"}
    BY <1>1, Zenon DEF Counted, Typed
  <2>2. One(d \in {}) = 0 /\ One(d \in s.owner) \in {0, 1}
    BY Zenon DEF One
  <2>3. Cardinality(s.ops[d]) \in Nat /\ Cardinality(s.ops[d]) <= 2
    <3>1. CASE \E op : s.ops[d] = {op}
      <4>1. Cardinality(s.ops[d]) = 1
        BY <3>1, FS_Singleton, Zenon
      <4> QED BY <4>1
    <3>2. CASE s.ops[d] \subseteq {"read", "write"}
      <4>1. IsFiniteSet({"read"}) /\ Cardinality({"read"}) = 1
        BY FS_Singleton, Zenon
      <4>2. {"read", "write"} = {"read"} \cup {"write"} /\ "write" \notin {"read"}
        BY Zenon
      <4>3. IsFiniteSet({"read", "write"}) /\ Cardinality({"read", "write"}) = 2
        BY <4>1, <4>2, FS_AddElement
      <4> QED BY <3>2, <4>3, FS_Subset, FS_CardinalityType, Zenon
    <3> QED BY <2>1, <3>1, <3>2, Zenon DEF Op
  <2> QED BY <2>1, <2>2, <2>3
<1>3. s.pending \subseteq OutClient \cup SSLClient
  BY <1>1, Classes, Zenon DEF Counted, Typed
<1>4. Range(s.idleIn) \subseteq InClient /\ Range(s.idleOut) \subseteq OutClient
  BY <1>1, Zenon DEF Kept, Queued
<1>5. Cardinality(s.garbage) <= 1
  <2>1. s.garbage = {} => Cardinality(s.garbage) = 0
    BY FS_EmptySet, Zenon
  <2>2. (\E c \in SSLClient : s.garbage = {c}) => Cardinality(s.garbage) = 1
    BY FS_Singleton, Zenon
  <2> QED BY <1>1, <2>1, <2>2 DEF Kept
<1> QED BY <1>1, <1>2, <1>3, <1>4, <1>5, Zenon DEF TypeOK, Typed, Kept, Accepts

\* The invariant gives the properties
LEMMA InvProperties == IInv => IdleIsQuiet /\ RefsCounted /\ NoLeak /\ Listening
<1> SUFFICES ASSUME IInv PROVE IdleIsQuiet /\ RefsCounted /\ NoLeak /\ Listening
  BY Zenon
<1>1. /\ Kept(s, {}) /\ Typed(s) /\ Accepts(s) /\ \A d \in Client : Counted(s, {}, d)
      /\ Queued(s.idleIn, InClient, s.inuse) /\ Queued(s.idleOut, OutClient, s.inuse)
      /\ Listens(s)
  BY Zenon DEF IInv, Kept
<1>2. IdleIsQuiet
  <2> SUFFICES ASSUME NEW c \in Client, Idle(c)
               PROVE  s.ref[c] = 0 /\ s.ops[c] = {} /\ c \notin s.open /\ c \notin s.owner
    BY Zenon DEF IdleIsQuiet
  <2>1. c \notin s.inuse
    BY <1>1, Zenon DEF Idle, Queued
  <2> QED BY <1>1, <2>1, UnusedQuiet, Zenon
<1>3. RefsCounted
  <2> SUFFICES ASSUME NEW c \in Client
               PROVE  s.ref[c] = Cardinality(s.ops[c]) + (IF c \in s.owner THEN 1 ELSE 0)
    BY Zenon DEF RefsCounted
  <2>1. s.ref[c] = Cardinality(s.ops[c]) + One(c \in s.owner) + One(c \in {})
    BY <1>1, Zenon DEF Counted
  <2>2. Cardinality(s.ops[c]) \in Nat
    BY <1>1, OpCount, Zenon DEF Typed
  <2> QED BY <2>1, <2>2 DEF One
<1>4. NoLeak
  <2>1. \A c \in s.inuse : c \in s.owner \/ s.ops[c] # {}
    BY <1>1, Zenon DEF Counted, Typed
  <2>2. s.inuse \cap (Range(s.idleIn) \cup Range(s.idleOut)) = {}
    BY <1>1, Zenon DEF Queued
  <2>3. Len(s.idleIn) = Cardinality(InClient \ s.inuse)
    <3>1. IsFiniteSet(InClient \ s.inuse) /\ Range(s.idleIn) = InClient \ s.inuse
      BY <1>1, PoolAssumption, FS_Difference, Zenon DEF Queued
    <3>2. Len(s.idleIn) = Cardinality(Range(s.idleIn))
      BY <1>1, <3>1, QueueLength, Zenon DEF Queued, Typed
    <3> QED BY <3>1, <3>2, Zenon
  <2>4. Len(s.idleOut) = Cardinality(OutClient \ s.inuse)
    <3>1. IsFiniteSet(OutClient \ s.inuse) /\ Range(s.idleOut) = OutClient \ s.inuse
      BY <1>1, PoolAssumption, FS_Difference, Zenon DEF Queued
    <3>2. Len(s.idleOut) = Cardinality(Range(s.idleOut))
      BY <1>1, <3>1, QueueLength, Zenon DEF Queued, Typed
    <3> QED BY <3>1, <3>2, Zenon
  <2> QED BY <2>1, <2>2, <2>3, <2>4, Zenon DEF NoLeak
<1>5. Listening
  BY <1>1, Zenon DEF Listening, Listens, Accepts, Counted
<1> QED BY <1>2, <1>3, <1>4, <1>5, Zenon

\* Whatever the order of accepts, connections, timeouts, completions and
\* closings: the references of every socket object are its owner and its
\* outstanding operations, it is reused only when it is quiet, none is lost,
\* and the inbound container keeps listening.
THEOREM SocketsAreAccounted == Spec => []SocketsAccounted
<1>1. IInv => SocketsAccounted
  BY InvTypeOK, InvProperties, Zenon DEF SocketsAccounted
<1> QED BY InitInv, NextInv, <1>1, PTL DEF Spec
=============================================================================
