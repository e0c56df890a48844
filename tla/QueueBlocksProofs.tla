-------------------------- MODULE QueueBlocksProofs --------------------------
(***************************************************************************)
(* Proofs about the blocks of ConcurrentQueue: each is in one place, unused, *)
(* on the free list, in the hand of a thread or in an entry of a producer,   *)
(* and what is in it is what the dequeues of its indices want, for any       *)
(* numbers of threads (below the flag of the reference counts), producers,   *)
(* blocks and calls, block and index sizes, and hash functions.              *)
(***************************************************************************)
EXTENDS ConcurrentQueueProofs

-----------------------------------------------------------------------------
(* Places: where each block is.                                            *)

\* The finite number of threads that try_get may refer to a block with.
FewThreads == IsFiniteSet(Threads) /\ Cardinality(Threads) < SHOULD_BE_ON_FREELIST

\* K[b]: "unused", "listed" (on the free list), "owed" (to be put on it by the last
\* one that refers to it), "stored" (in an entry of a producer), or in the hand of a
\* thread: "held", "popped" (taken off the list, the count not yet lowered), "adding"
\* and "offered" (with and without FLAG).
Kind(l) ==
  IF l \in {"gotblock", "addblock"} THEN "held"
  ELSE IF l = "getsub" THEN "popped"
  ELSE IF l \in {"addhead", "addnext", "addrefs"} THEN "adding"
  ELSE IF l \in {"addcas", "addretry"} THEN "offered" ELSE "none"
HandKinds == {"held", "popped", "adding", "offered"}
Hand(t) == IF pc[t] = "getsub" THEN fl[t].head ELSE fl[t].block

\* W[b]: the thread that has b in its hand.
HandsInv(K, W) ==
  /\ \A t \in Threads : Kind(pc[t]) # "none" /\ Hand(t) # 0 =>
       K[Hand(t)] = Kind(pc[t]) /\ W[Hand(t)] = t
  /\ \A b \in Blocks : K[b] \in HandKinds =>
       W[b] \in Threads /\ Kind(pc[W[b]]) = K[b] /\ Hand(W[b]) = b

\* P[b], E[b]: the producer and the entry that a block is stored in.
Entries(p) == 1 .. Len(entries[p])
StoredInv(K, P, E) ==
  /\ \A p \in Producers : \A e \in Entries(p) :
       LET b == entries[p][e].value IN b # 0 => K[b] = "stored" /\ P[b] = p /\ E[b] = e
  /\ \A b \in Blocks : K[b] = "stored" =>
       P[b] \in Producers /\ E[b] \in Entries(P[b]) /\ entries[P[b]][E[b]].value = b

\* The block whose count a thread in try_get has incremented.
Ref(t) == IF pc[t] \in {"getnext", "getcas", "getsub"} THEN fl[t].head
          ELSE IF pc[t] = "getdec" THEN fl[t].prev ELSE 0
Referrers(b) == {t \in Threads : Ref(t) = b}
Weight(kind) ==
  IF kind \in {"listed", "popped", "offered"} THEN 1
  ELSE IF kind \in {"owed", "adding"} THEN SHOULD_BE_ON_FREELIST ELSE 0
PooledCounts(b, kind) ==
  /\ heap[b] = 0
  /\ kind = "unused" <=> b > poolIndex
  /\ freeListRefs[b] = Weight(kind) + Cardinality(Referrers(b))
  /\ kind \in {"unused", "adding"} => Referrers(b) = {}
  /\ kind = "owed" => Referrers(b) # {}
HeapCounts(b, kind) ==
  /\ heap[b] = IF kind = "unused" THEN 0 ELSE 1
  /\ kind \in {"unused", "held", "stored"}
Counts(b, kind) == IF b <= poolSize THEN PooledCounts(b, kind) ELSE HeapCounts(b, kind)
CountsInv(K) == \A b \in Blocks : Counts(b, K[b])

Pooled == 1 .. poolSize
\* What a thread in try_get or in add_knowing_refcount_is_zero knows.
Knows(t) ==
  LET f == fl[t] IN
  /\ pc[t] \in {"getrefs", "getinc", "getnext", "getcas", "getsub"} => f.head \in Pooled
  /\ pc[t] = "getinc" => f.refs % (REFS_MASK + 1) # 0
  /\ pc[t] = "getcas" => f.next = freeListNext[f.head]
  /\ pc[t] = "getdec" => f.prev \in Pooled /\ f.head \in {0} \cup Pooled
  /\ pc[t] = "addblock" => f.block # 0
  /\ pc[t] \in AddLabels => f.head \in {0} \cup Pooled
  /\ pc[t] \in AddLabels \ {"addblock"} => f.block \in Pooled
  /\ pc[t] \in {"addnext", "addrefs", "addcas", "addretry"} => f.to \in {0} \cup Pooled
  /\ pc[t] \in {"addrefs", "addcas"} => freeListNext[f.block] = f.to
KnowsInv == \A t \in Threads : Knows(t)

\* L[1], ..., L[n]: the free list.
ListInv(K, L, n) ==
  /\ n \in Nat
  /\ \A i \in 1 .. n : L[i] \in Blocks
  /\ \A i, j \in 1 .. n : L[i] = L[j] => i = j
  /\ \A b \in Blocks : K[b] = "listed" <=> \E i \in 1 .. n : L[i] = b
  /\ freeListHead = IF n = 0 THEN 0 ELSE L[1]
  /\ \A i \in 1 .. n : freeListNext[L[i]] = IF i = n THEN 0 ELSE L[i + 1]

Kinds == HandKinds \cup {"unused", "listed", "owed", "stored"}
PlacedAs(K, W, P, E, L, n) ==
  /\ \A b \in Blocks : K[b] \in Kinds
  /\ HandsInv(K, W) /\ StoredInv(K, P, E) /\ CountsInv(K) /\ KnowsInv /\ ListInv(K, L, n)
Placed == \E K, W, P, E, L, n : PlacedAs(K, W, P, E, L, n)

-----------------------------------------------------------------------------
\* K1 is K but at b.
ExceptAt(K, K1, b) == \A c \in Blocks : c # b => K1[c] = K[c]

\* The hand of t has b, before and after, or nothing.
LEMMA HandsKept ==
  ASSUME NEW t \in Threads, NEW b, NEW K, NEW W, NEW K1, NEW W1, HandsInv(K, W),
         ExceptAt(K, K1, b), ExceptAt(W, W1, b), PoolTypes, PoolTypes',
         \A u \in Threads : u # t => pc'[u] = pc[u] /\ fl'[u] = fl[u],
         Kind(pc[t]) # "none" => Hand(t) \in {0, b},
         b \in Blocks /\ K[b] \in HandKinds => W[b] = t,
         Kind(pc'[t]) # "none" =>
           Hand(t)' = 0 \/ (Hand(t)' = b /\ K1[b] = Kind(pc'[t]) /\ W1[b] = t),
         b \in Blocks /\ K1[b] \in HandKinds => W1[b] = t /\ Kind(pc'[t]) = K1[b] /\ Hand(t)' = b
  PROVE  HandsInv(K1, W1)'
<1>0. \A u \in Threads : Hand(u) \in {0} \cup Blocks
  BY DEF PoolTypes, PoolLocals, Addresses, Hand
<1>1. \A u \in Threads : u # t => Hand(u)' = Hand(u)
  BY DEF Hand
<1>2. ASSUME NEW u \in Threads, Kind(pc'[u]) # "none", Hand(u)' # 0
      PROVE  K1[Hand(u)'] = Kind(pc'[u]) /\ W1[Hand(u)'] = u
  <2>1. CASE u = t
    BY <1>2, <2>1
  <2>2. CASE u # t
    <3>1. PICK c : c = Hand(u)
      OBVIOUS
    <3>2. c \in Blocks /\ Hand(u)' = c /\ K[c] = Kind(pc[u]) /\ W[c] = u /\ pc'[u] = pc[u]
      BY <1>0, <1>1, <1>2, <2>2, <3>1 DEF HandsInv
    <3>3. K[c] \in HandKinds
      BY <1>2, <3>2 DEF Kind, HandKinds
    <3>4. c # b
      BY <2>2, <3>2, <3>3
    <3> QED
      BY <3>2, <3>4 DEF ExceptAt
  <2> QED
    BY <2>1, <2>2
<1>3. ASSUME NEW c \in Blocks, K1[c] \in HandKinds
      PROVE  W1[c] \in Threads /\ Kind(pc'[W1[c]]) = K1[c] /\ Hand(W1[c])' = c
  <2>1. CASE c = b
    BY <1>3, <2>1
  <2>2. CASE c # b
    <3>1. K1[c] = K[c] /\ W1[c] = W[c]
      BY <2>2 DEF ExceptAt
    <3>2. PICK u \in Threads : u = W[c] /\ Kind(pc[u]) = K[c] /\ Hand(u) = c
      BY <1>3, <3>1 DEF HandsInv
    <3>3. u # t
      BY <1>3, <2>2, <3>1, <3>2, BlocksAssumption DEF Kind, HandKinds, Blocks
    <3>4. pc'[u] = pc[u] /\ Hand(u)' = c
      BY <1>1, <3>2, <3>3
    <3> QED
      BY <3>1, <3>2, <3>4
  <2> QED
    BY <2>1, <2>2
<1> QED
  BY <1>2, <1>3 DEF HandsInv

\* No entry gets or loses a block.
SameValues ==
  \A p \in Producers :
    /\ Len(entries[p]) \in Nat /\ Len(entries'[p]) \in Nat /\ Len(entries[p]) <= Len(entries'[p])
    /\ \A e \in Entries(p) : entries'[p][e].value = entries[p][e].value
    /\ \A e \in Entries(p)' : e \notin Entries(p) => entries'[p][e].value = 0

\* The stored blocks stay so when no entry changes its value.
LEMMA StoredKept ==
  ASSUME NEW b, NEW K, NEW K1, NEW P, NEW E, StoredInv(K, P, E), ExceptAt(K, K1, b),
         ProducerTypes, SameValues, b \in Blocks => K[b] # "stored" /\ K1[b] # "stored"
  PROVE  StoredInv(K1, P, E)'
<1>1. ASSUME NEW p \in Producers, NEW e \in Entries(p)', entries'[p][e].value # 0
      PROVE  LET c == entries'[p][e].value IN K1[c] = "stored" /\ P[c] = p /\ E[c] = e
  <2>1. e \in Entries(p) /\ entries'[p][e].value = entries[p][e].value
    BY <1>1 DEF SameValues
  <2>2. PICK c : c = entries[p][e].value
    OBVIOUS
  <2>3. K[c] = "stored" /\ P[c] = p /\ E[c] = e
    BY <1>1, <2>1, <2>2 DEF StoredInv
  <2>4. c \in Blocks
    <3>1. entries[p][e] \in IndexEntry
      BY <2>1, ElementOfSeq DEF ProducerTypes, IndexTypes, Entries
    <3> QED
      BY <1>1, <2>1, <2>2, <3>1 DEF IndexEntry, Addresses
  <2> QED
    BY <2>1, <2>2, <2>3, <2>4 DEF ExceptAt
<1>2. ASSUME NEW c \in Blocks, K1[c] = "stored"
      PROVE  P[c] \in Producers /\ E[c] \in Entries(P[c])' /\ entries'[P[c]][E[c]].value = c
  <2>1. K[c] = "stored"
    BY <1>2 DEF ExceptAt
  <2>2. PICK p, e : p \in Producers /\ e \in Entries(p) /\ P[c] = p /\ E[c] = e
               /\ entries[p][e].value = c
    BY <2>1 DEF StoredInv
  <2>3. e \in Entries(p)' /\ entries'[p][e].value = c
    BY <2>2 DEF SameValues, Entries
  <2> QED
    BY <2>2, <2>3
<1> QED
  BY <1>1, <1>2 DEF StoredInv

\* Only t may begin or stop to refer to b.
LEMMA ReferrersKept ==
  ASSUME NEW t \in Threads, NEW b,
         \A u \in Threads : u # t => pc'[u] = pc[u] /\ fl'[u] = fl[u],
         Ref(t)' = Ref(t) \/ (Ref(t) \in {0, b} /\ Ref(t)' \in {0, b})
  PROVE  /\ \A c \in Blocks : c # b => Referrers(c)' = Referrers(c)
         /\ Ref(t)' = Ref(t) => \A c : Referrers(c)' = Referrers(c)
         /\ Ref(t)' = b /\ b # 0 => Referrers(b)' = Referrers(b) \cup {t}
         /\ Ref(t)' # b => Referrers(b)' = Referrers(b) \ {t}
<1>1. \A u \in Threads : u # t => Ref(u)' = Ref(u)
  BY DEF Ref
<1>2. \A c \in Blocks : c # 0
  BY BlocksAssumption DEF Blocks
<1>3. \A c : Referrers(c)' = {u \in Threads : Ref(u)' = c}
  BY DEF Referrers
<1>4. ASSUME NEW c \in Blocks, c # b PROVE Referrers(c)' = Referrers(c)
  BY <1>1, <1>2, <1>3, <1>4 DEF Referrers
<1>5. Ref(t)' = Ref(t) => \A c : Referrers(c)' = Referrers(c)
  <2> SUFFICES ASSUME Ref(t)' = Ref(t), NEW c PROVE Referrers(c)' = Referrers(c)
    OBVIOUS
  <2>1. \A u \in Threads : Ref(u)' = Ref(u)
    BY <1>1
  <2> QED
    BY <1>3, <2>1 DEF Referrers
<1>6. Ref(t)' = b /\ b # 0 => Referrers(b)' = Referrers(b) \cup {t}
  BY <1>1, <1>3 DEF Referrers
<1>7. Ref(t)' # b => Referrers(b)' = Referrers(b) \ {t}
  BY <1>1, <1>3 DEF Referrers
<1> QED
  BY <1>4, <1>5, <1>6, <1>7

\* poolIndex counts the blocks of the initial pool that have been used.
LEMMA CountsKept ==
  ASSUME NEW t \in Threads, NEW b, NEW K, NEW K1, CountsInv(K), ExceptAt(K, K1, b), PoolTypes,
         \A u \in Threads : u # t => pc'[u] = pc[u] /\ fl'[u] = fl[u],
         Ref(t)' = Ref(t) \/ (Ref(t) \in {0, b} /\ Ref(t)' \in {0, b}),
         ExceptAt(heap, heap', b), ExceptAt(freeListRefs, freeListRefs', b), poolSize' = poolSize,
         \/ poolIndex' = poolIndex
         \/ poolIndex' = poolIndex + 1 /\ (poolIndex >= poolSize \/ b = poolIndex + 1),
         b \in Blocks => Counts(b, K1[b])'
  PROVE  CountsInv(K1)'
<1> SUFFICES ASSUME NEW c \in Blocks, c # b PROVE Counts(c, K1[c])'
  BY DEF CountsInv
<1>1. Referrers(c)' = Referrers(c)
  BY ReferrersKept
<1>2. K1[c] = K[c] /\ heap'[c] = heap[c] /\ freeListRefs'[c] = freeListRefs[c]
  BY DEF ExceptAt
<1>3. c <= poolSize => (c > poolIndex <=> c > poolIndex')
  BY BlocksAssumption DEF PoolTypes, Blocks
<1>4. Counts(c, K[c])
  BY DEF CountsInv
<1> QED
  BY <1>1, <1>2, <1>3, <1>4 DEF Counts, PooledCounts, HeapCounts

\* The next of a block changes only in the hand that is adding it, or when it is new.
LEMMA KnowsKept ==
  ASSUME NEW t \in Threads, NEW b, NEW K, NEW W, KnowsInv, HandsInv(K, W), CountsInv(K), PoolTypes,
         \A u \in Threads : u # t => pc'[u] = pc[u] /\ fl'[u] = fl[u],
         ExceptAt(freeListNext, freeListNext', b), poolSize' = poolSize,
         b \in Blocks => \/ freeListNext'[b] = freeListNext[b]
                         \/ b \in Pooled /\ K[b] = "adding" /\ W[b] = t
                         \/ b \notin Pooled,
         Knows(t)'
  PROVE  KnowsInv'
<1> SUFFICES ASSUME NEW u \in Threads, u # t PROVE Knows(u)'
  BY DEF KnowsInv
<1>1. pc'[u] = pc[u] /\ fl'[u] = fl[u] /\ Pooled' = Pooled /\ Knows(u)
  BY DEF KnowsInv, Pooled
<1>2. Pooled \subseteq Blocks
  BY BlocksAssumption DEF PoolTypes, Pooled, Blocks
<1>3. pc[u] = "getcas" => freeListNext'[fl[u].head] = freeListNext[fl[u].head]
  <2> SUFFICES ASSUME pc[u] = "getcas", fl[u].head = b
               PROVE  freeListNext'[b] = freeListNext[b]
    BY <1>1, <1>2 DEF Knows, ExceptAt
  <2>1. b \in Pooled /\ b \in Blocks /\ u \in Referrers(b)
    BY <1>1, <1>2 DEF Knows, Referrers, Ref
  <2>2. K[b] # "adding"
    BY <2>1, BlocksAssumption DEF CountsInv, Counts, PooledCounts, Pooled, PoolTypes
  <2> QED
    BY <2>1, <2>2
<1>4. pc[u] \in {"addrefs", "addcas"} => freeListNext'[fl[u].block] = freeListNext[fl[u].block]
  <2> SUFFICES ASSUME pc[u] \in {"addrefs", "addcas"}, fl[u].block = b
               PROVE  freeListNext'[b] = freeListNext[b]
    BY <1>1, <1>2 DEF Knows, ExceptAt, AddLabels
  <2>1. b \in Pooled /\ b \in Blocks
    BY <1>1, <1>2 DEF Knows, AddLabels
  <2>2. b # 0
    BY <2>1 DEF PoolTypes, Pooled
  <2>3. W[b] = u
    BY <2>2 DEF HandsInv, Kind, Hand
  <2> QED
    BY <2>1, <2>3
<1> QED
  BY <1>1, <1>3, <1>4 DEF Knows

\* The free list stays as it is,
LEMMA ListKept ==
  ASSUME NEW K, NEW K1, NEW L, NEW n, ListInv(K, L, n), freeListHead' = freeListHead,
         \A b \in Blocks : K1[b] = "listed" <=> K[b] = "listed",
         \A b \in Blocks : K[b] = "listed" => freeListNext'[b] = freeListNext[b]
  PROVE  ListInv(K1, L, n)'
BY DEF ListInv

\* loses its first block,
LEMMA ListPopped ==
  ASSUME NEW K, NEW K1, NEW L, NEW n, NEW b \in Blocks, ListInv(K, L, n), freeListHead = b,
         freeListHead' = freeListNext[b], freeListNext' = freeListNext,
         K1[b] # "listed", ExceptAt(K, K1, b)
  PROVE  \E L1, n1 : ListInv(K1, L1, n1)'
<1>1. n \in Nat /\ n > 0 /\ L[1] = b
  BY BlocksAssumption DEF ListInv, Blocks
<1>2. PICK L1, n1 : n1 = n - 1 /\ L1 = [i \in 1 .. n - 1 |-> L[i + 1]]
  OBVIOUS
<1>3. n1 \in Nat /\ \A i \in 1 .. n1 : L1[i] = L[i + 1] /\ i + 1 \in 1 .. n
  BY <1>1, <1>2
<1>4. \A i \in 1 .. n1 : L1[i] \in Blocks
  BY <1>3 DEF ListInv
<1>5. \A i, j \in 1 .. n1 : L1[i] = L1[j] => i = j
  BY <1>1, <1>3 DEF ListInv
<1>6. ASSUME NEW c \in Blocks PROVE K1[c] = "listed" <=> \E i \in 1 .. n1 : L1[i] = c
  <2>1. CASE c = b
    <3>1. \A i \in 1 .. n1 : L1[i] # b
      BY <1>1, <1>3 DEF ListInv
    <3> QED
      BY <2>1, <3>1
  <2>2. CASE c # b
    <3>1. K1[c] = "listed" <=> \E i \in 1 .. n : L[i] = c
      BY <2>2 DEF ListInv, ExceptAt
    <3>2. ASSUME NEW i \in 1 .. n, L[i] = c PROVE i - 1 \in 1 .. n1 /\ L1[i - 1] = c
      BY <1>1, <1>2, <2>2, <3>2
    <3> QED
      BY <1>3, <3>1, <3>2
  <2> QED
    BY <2>1, <2>2
<1>7. freeListHead' = IF n1 = 0 THEN 0 ELSE L1[1]
  <2>1. freeListHead' = IF n = 1 THEN 0 ELSE L[2]
    BY <1>1 DEF ListInv
  <2> QED
    BY <1>1, <1>2, <1>3, <2>1
<1>8. ASSUME NEW i \in 1 .. n1
      PROVE  freeListNext'[L1[i]] = IF i = n1 THEN 0 ELSE L1[i + 1]
  <2>1. freeListNext'[L1[i]] = IF i + 1 = n THEN 0 ELSE L[i + 1 + 1]
    BY <1>3 DEF ListInv
  <2>2. i # n1 => i + 1 \in 1 .. n1
    BY <1>3
  <2> QED
    BY <1>1, <1>2, <1>3, <2>1, <2>2
<1>9. ListInv(K1, L1, n1)'
  BY <1>3, <1>4, <1>5, <1>6, <1>7, <1>8 DEF ListInv
<1> QED
  BY <1>9

\* or gets one more.
LEMMA ListPushed ==
  ASSUME NEW K, NEW K1, NEW L, NEW n, NEW b \in Blocks, ListInv(K, L, n), freeListHead' = b,
         freeListNext[b] = freeListHead, freeListNext' = freeListNext,
         K[b] # "listed", K1[b] = "listed", ExceptAt(K, K1, b)
  PROVE  \E L1, n1 : ListInv(K1, L1, n1)'
<1>1. n \in Nat /\ \A i \in 1 .. n : L[i] # b
  BY DEF ListInv
<1>2. PICK L1, n1 : n1 = n + 1 /\ L1 = [i \in 1 .. n + 1 |-> IF i = 1 THEN b ELSE L[i - 1]]
  OBVIOUS
<1>3. /\ n1 \in Nat /\ n1 > 0 /\ L1[1] = b
      /\ \A i \in 1 .. n1 : i # 1 => L1[i] = L[i - 1] /\ i - 1 \in 1 .. n
  BY <1>1, <1>2
<1>4. \A i \in 1 .. n1 : L1[i] \in Blocks
  BY <1>3 DEF ListInv
<1>5. ASSUME NEW i \in 1 .. n1, NEW j \in 1 .. n1, L1[i] = L1[j] PROVE i = j
  <2>1. CASE i = 1 \/ j = 1
    BY <1>1, <1>3, <1>5, <2>1
  <2>2. CASE i # 1 /\ j # 1
    <3>1. i - 1 = j - 1
      BY <1>3, <1>5, <2>2 DEF ListInv
    <3> QED
      BY <3>1
  <2> QED
    BY <2>1, <2>2
<1>6. ASSUME NEW c \in Blocks PROVE K1[c] = "listed" <=> \E i \in 1 .. n1 : L1[i] = c
  <2>1. CASE c = b
    BY <1>3, <2>1
  <2>2. CASE c # b
    <3>1. K1[c] = "listed" <=> \E i \in 1 .. n : L[i] = c
      BY <2>2 DEF ListInv, ExceptAt
    <3>2. ASSUME NEW i \in 1 .. n, L[i] = c PROVE i + 1 \in 1 .. n1 /\ L1[i + 1] = c
      BY <1>1, <1>2, <3>2
    <3> QED
      BY <1>3, <2>2, <3>1, <3>2
  <2> QED
    BY <2>1, <2>2
<1>7. freeListHead' = IF n1 = 0 THEN 0 ELSE L1[1]
  BY <1>3
<1>8. ASSUME NEW i \in 1 .. n1
      PROVE  freeListNext'[L1[i]] = IF i = n1 THEN 0 ELSE L1[i + 1]
  <2>0. i # n1 => i + 1 \in 1 .. n1 /\ L1[i + 1] = L[i]
    BY <1>1, <1>2
  <2>1. CASE i = 1
    BY <1>1, <1>2, <1>3, <2>0, <2>1 DEF ListInv
  <2>2. CASE i # 1
    <3>1. freeListNext[L[i - 1]] = IF i - 1 = n THEN 0 ELSE L[i - 1 + 1]
      BY <1>3, <2>2 DEF ListInv
    <3>2. i - 1 + 1 = i
      OBVIOUS
    <3> QED
      BY <1>1, <1>2, <1>3, <2>0, <2>2, <3>1, <3>2
  <2> QED
    BY <2>1, <2>2
<1>9. ListInv(K1, L1, n1)'
  BY <1>3, <1>4, <1>5, <1>6, <1>7, <1>8 DEF ListInv
<1> QED
  BY <1>9

-----------------------------------------------------------------------------
\* The fields of the records that the steps of BlockPool assign.
LEMMA Fields ==
  /\ NoBlock.block = 0 /\ NoBlock.head = 0 /\ NoBlock.prev = 0 /\ NoBlock.getting = FALSE
  /\ \A x : /\ [NoBlock EXCEPT !.head = x].head = x
            /\ [NoBlock EXCEPT !.head = x].block = 0
            /\ [NoBlock EXCEPT !.block = x].block = x
            /\ [NoBlock EXCEPT !.block = x].head = 0
  /\ \A x, y : /\ [NoBlock EXCEPT !.head = x, !.prev = y].head = x
               /\ [NoBlock EXCEPT !.head = x, !.prev = y].prev = y
  /\ \A f \in PoolLocals : \A x :
       /\ [f EXCEPT !.refs = x].head = f.head
       /\ [f EXCEPT !.refs = x].refs = x
       /\ [f EXCEPT !.next = x, !.refs = 0].head = f.head
       /\ [f EXCEPT !.next = x, !.refs = 0].next = x
       /\ [f EXCEPT !.block = x, !.getting = TRUE].block = x
       /\ [f EXCEPT !.block = x, !.getting = TRUE].head = f.head
       /\ [f EXCEPT !.to = x].to = x
       /\ [f EXCEPT !.to = x].block = f.block
       /\ [f EXCEPT !.to = x].head = f.head
BY DEF NoBlock, PoolLocals

\* A step of BlockPool by t.
Setting(t, K, W, P, E, L, n) ==
  /\ BaseInv /\ BaseInv' /\ FewThreads /\ t \in Threads
  /\ PlacedAs(K, W, P, E, L, n)

\* What is so before a step of BlockPool.
LEMMA SettingIs ==
  ASSUME NEW t, NEW K, NEW W, NEW P, NEW E, NEW L, NEW n, Setting(t, K, W, P, E, L, n), Pool(t)
  PROVE  /\ \A l : Go(t, l) => pc'[t] = l
         /\ \A v : Locals(t, v) => fl'[t] = v
         /\ \A u \in Threads : u # t => pc'[u] = pc[u] /\ fl'[u] = fl[u]
         /\ poolSize' = poolSize /\ Pooled' = Pooled /\ SameValues
         /\ Pooled \subseteq Blocks /\ 0 \notin Blocks
         /\ \A b \in Blocks : b \in Pooled <=> b <= poolSize
         /\ freeListHead \in {0} \cup Pooled
         /\ freeListHead # 0 => K[freeListHead] = "listed"
              /\ freeListNext[freeListHead] \in {0} \cup Pooled
         /\ fl[t] \in PoolLocals /\ Knows(t)
         /\ t \in Threads
<1>0. /\ QueueInv /\ WriterInv /\ RangeInv /\ TableInv /\ ProducerTypes /\ PoolTypes
      /\ PlacedAs(K, W, P, E, L, n) /\ t \in Threads
  BY DEF Setting, BaseInv, QueueInv
<1>1. (\A l : Go(t, l) => pc'[t] = l) /\ (\A v : Locals(t, v) => fl'[t] = v)
  BY <1>0, Assigned
<1>2. WorkStep(t) /\ UNCHANGED producerVars
  BY <1>0, PoolWorks, WorksWork
<1>3. /\ \A u \in Threads : u # t => pc'[u] = pc[u] /\ fl'[u] = fl[u]
      /\ poolSize' = poolSize /\ Pooled' = Pooled
  BY <1>2 DEF WorkStep, Pooled
<1>4. SameValues
  <2>1. \A p \in Producers : Len(entries[p]) \in Nat
    BY <1>0, CurrentIs DEF ProducerTypes
  <2> QED
    BY <1>2, <2>1 DEF SameValues, producerVars, Entries
<1>5. /\ Pooled \subseteq Blocks /\ 0 \notin Blocks
      /\ \A b \in Blocks : b \in Pooled <=> b <= poolSize
  BY <1>0, BlocksAssumption DEF Pooled, Blocks, PoolTypes
<1>6. \A i \in 1 .. n : L[i] \in Pooled
  <2> SUFFICES ASSUME NEW i \in 1 .. n PROVE L[i] \in Pooled
    OBVIOUS
  <2>1. L[i] \in Blocks /\ K[L[i]] = "listed"
    BY <1>0 DEF PlacedAs, ListInv
  <2> QED
    BY <1>0, <1>5, <2>1 DEF PlacedAs, CountsInv, Counts, HeapCounts
<1>7. /\ freeListHead \in {0} \cup Pooled
      /\ freeListHead # 0 => K[freeListHead] = "listed"
           /\ freeListNext[freeListHead] \in {0} \cup Pooled
  <2>1. CASE n = 0
    BY <1>0, <2>1 DEF PlacedAs, ListInv
  <2>2. CASE n # 0
    <3>1. n \in Nat /\ 1 \in 1 .. n /\ freeListHead = L[1] /\ L[1] \in Blocks
          /\ K[L[1]] = "listed" /\ freeListNext[L[1]] = IF 1 = n THEN 0 ELSE L[1 + 1]
      BY <1>0, <2>2 DEF PlacedAs, ListInv
    <3>2. 1 # n => 1 + 1 \in 1 .. n
      BY <3>1
    <3> QED
      BY <1>6, <3>1, <3>2
  <2> QED
    BY <2>1, <2>2
<1>8. fl[t] \in PoolLocals /\ Knows(t)
  BY <1>0 DEF PoolTypes, PlacedAs, KnowsInv
<1> QED
  BY <1>0, <1>1, <1>3, <1>4, <1>5, <1>7, <1>8

\* The number of threads that refer to a block.
LEMMA ReferrersCount ==
  ASSUME FewThreads, NEW t \in Threads, NEW b
  PROVE  /\ Cardinality(Referrers(b)) \in Nat
         /\ Cardinality(Referrers(b)) < SHOULD_BE_ON_FREELIST
         /\ Cardinality(Referrers(b)) = 0 <=> Referrers(b) = {}
         /\ t \notin Referrers(b) =>
              Cardinality(Referrers(b) \cup {t}) = Cardinality(Referrers(b)) + 1
         /\ t \in Referrers(b) =>
              Cardinality(Referrers(b) \ {t}) = Cardinality(Referrers(b)) - 1
<1>1. IsFiniteSet(Threads) /\ Cardinality(Threads) \in Nat /\ Referrers(b) \subseteq Threads
  BY FS_CardinalityType DEF FewThreads, Referrers
<1>2. IsFiniteSet(Referrers(b)) /\ Cardinality(Referrers(b)) <= Cardinality(Threads)
  BY <1>1, FS_Subset
<1>3. Cardinality(Referrers(b)) \in Nat
  BY <1>2, FS_CardinalityType
<1>4. SHOULD_BE_ON_FREELIST \in Nat
  BY DEF SHOULD_BE_ON_FREELIST
<1>5. Cardinality(Referrers(b)) < SHOULD_BE_ON_FREELIST
  BY <1>1, <1>2, <1>3, <1>4 DEF FewThreads
<1> QED
  BY <1>2, <1>3, <1>5, FS_EmptySet, FS_AddElement, FS_RemoveElement

\* The place of at most one block changes: that of b, between the hand of t and the list.
PlaceStep(t, b, K, W, K1, W1) ==
  /\ ExceptAt(K, K1, b) /\ ExceptAt(W, W1, b) /\ (b \in Blocks => K1[b] \in Kinds)
  /\ Kind(pc[t]) # "none" => Hand(t) \in {0, b}
  /\ b \in Blocks /\ K[b] \in HandKinds => W[b] = t
  /\ Kind(pc'[t]) # "none" => Hand(t)' = 0 \/ (Hand(t)' = b /\ K1[b] = Kind(pc'[t]) /\ W1[b] = t)
  /\ b \in Blocks /\ K1[b] \in HandKinds => W1[b] = t /\ Kind(pc'[t]) = K1[b] /\ Hand(t)' = b
  /\ b \in Blocks => K[b] # "stored" /\ K1[b] # "stored"
CountStep(t, b, K, W, K1) ==
  /\ ExceptAt(K, K1, b)
  /\ Ref(t)' = Ref(t) \/ (Ref(t) \in {0, b} /\ Ref(t)' \in {0, b})
  /\ ExceptAt(heap, heap', b) /\ ExceptAt(freeListRefs, freeListRefs', b)
  /\ ExceptAt(freeListNext, freeListNext', b)
  /\ \/ poolIndex' = poolIndex
     \/ poolIndex' = poolIndex + 1 /\ (poolIndex >= poolSize \/ b = poolIndex + 1)
  /\ b \in Blocks => Counts(b, K1[b])'
  /\ b \in Blocks => \/ freeListNext'[b] = freeListNext[b]
                     \/ b \in Pooled /\ K[b] = "adding" /\ W[b] = t
                     \/ b \notin Pooled
  /\ Knows(t)'

\* A step of BlockPool that moves the block b and counts at the block c.
LEMMA PlaceMoved ==
  ASSUME NEW t, NEW K, NEW W, NEW P, NEW E, NEW L, NEW n, Setting(t, K, W, P, E, L, n), Pool(t),
         NEW b, NEW c, NEW K1, NEW W1, PlaceStep(t, b, K, W, K1, W1), CountStep(t, c, K, W, K1),
         \E L1, n1 : ListInv(K1, L1, n1)'
  PROVE  Placed'
<1>0. PlacedAs(K, W, P, E, L, n) /\ PoolTypes /\ PoolTypes' /\ ProducerTypes /\ t \in Threads
  BY DEF Setting, BaseInv
<1>1. HandsInv(K1, W1)'
  <2>1. HandsInv(K, W)
    BY <1>0 DEF PlacedAs
  <2> QED
    BY <1>0, <2>1, SettingIs, HandsKept DEF PlaceStep
<1>2. StoredInv(K1, P, E)'
  <2>1. StoredInv(K, P, E)
    BY <1>0 DEF PlacedAs
  <2> QED
    BY <1>0, <2>1, SettingIs, StoredKept DEF PlaceStep
<1>3. CountsInv(K1)'
  <2>1. CountsInv(K)
    BY <1>0 DEF PlacedAs
  <2> QED
    BY <1>0, <2>1, SettingIs, CountsKept DEF PlaceStep, CountStep
<1>4. KnowsInv'
  <2>1. KnowsInv /\ HandsInv(K, W) /\ CountsInv(K)
    BY <1>0 DEF PlacedAs
  <2> QED
    BY <1>0, <2>1, SettingIs, KnowsKept DEF CountStep
<1>5. \A d \in Blocks : K1[d] \in Kinds
  BY <1>0 DEF PlaceStep, PlacedAs, ExceptAt
<1>6. PICK L1, n1 : ListInv(K1, L1, n1)'
  OBVIOUS
<1>7. PlacedAs(K1, W1, P, E, L1, n1)'
  BY <1>1, <1>2, <1>3, <1>4, <1>5, <1>6 DEF PlacedAs
<1> QED
  BY <1>7 DEF Placed

\* The free list is as before.
LEMMA PlaceMovedOffList ==
  ASSUME NEW t, NEW K, NEW W, NEW P, NEW E, NEW L, NEW n, Setting(t, K, W, P, E, L, n), Pool(t),
         NEW b, NEW c, NEW K1, NEW W1, PlaceStep(t, b, K, W, K1, W1), CountStep(t, c, K, W, K1),
         freeListHead' = freeListHead,
         b \in Blocks => (K[b] = "listed" <=> K1[b] = "listed"),
         c \in Blocks /\ K[c] = "listed" => freeListNext'[c] = freeListNext[c]
  PROVE  Placed'
<1>1. ListInv(K, L, n)
  BY DEF Setting, PlacedAs
<1>2. \A d \in Blocks : K1[d] = "listed" <=> K[d] = "listed"
  BY DEF PlaceStep, ExceptAt
<1>3. \A d \in Blocks : K[d] = "listed" => freeListNext'[d] = freeListNext[d]
  BY DEF CountStep, ExceptAt
<1>4. ListInv(K1, L, n)'
  BY <1>1, <1>2, <1>3, ListKept
<1> QED
  BY <1>4, PlaceMoved

\* try_get goes on with a head.
LEMMA TriedKnows ==
  ASSUME NEW t, NEW K, NEW W, NEW P, NEW E, NEW L, NEW n, Setting(t, K, W, P, E, L, n), Pool(t),
         NEW h \in {0} \cup Pooled, TryHead(t, h)
  PROVE  Kind(pc'[t]) = "none" /\ Ref(t)' = 0 /\ Knows(t)'
<1>1. pc'[t] = (IF h = 0 THEN "create" ELSE "getrefs") /\ fl'[t] = [NoBlock EXCEPT !.head = h]
  BY SettingIs DEF TryHead
<1>2. fl'[t].head = h /\ Pooled' = Pooled
  BY <1>1, Fields, SettingIs
<1>3. Kind(pc'[t]) = "none" /\ Ref(t)' = 0
  BY <1>1 DEF Kind, Ref
<1>4. Knows(t)'
  BY <1>1, <1>2 DEF Knows, AddLabels
<1> QED
  BY <1>3, <1>4

\* The end of an addition.
LEMMA AddedKnows ==
  ASSUME NEW t, NEW K, NEW W, NEW P, NEW E, NEW L, NEW n, Setting(t, K, W, P, E, L, n), Pool(t),
         pc[t] \in AddLabels, Added(t)
  PROVE  Kind(pc'[t]) = "none" /\ Ref(t)' = 0 /\ Knows(t)'
<1>1. CASE TryHead(t, fl[t].head)
  <2>1. fl[t].head \in {0} \cup Pooled
    BY SettingIs DEF Knows
  <2> QED
    BY <1>1, <2>1, TriedKnows
<1>2. CASE Go(t, "dequeued")
  <2>1. pc'[t] = "dequeued"
    BY <1>2, SettingIs
  <2> QED
    BY <2>1 DEF Kind, Ref, Knows, AddLabels
<1> QED
  BY <1>1, <1>2 DEF Added

-----------------------------------------------------------------------------
\* A step of a thread with nothing in its hand that changes no block.
LEMMA PlaceStill ==
  ASSUME NEW t, NEW K, NEW W, NEW P, NEW E, NEW L, NEW n, Setting(t, K, W, P, E, L, n), Pool(t),
         UNCHANGED <<heap, freeListRefs, freeListNext, freeListHead>>,
         poolIndex' = poolIndex \/ (poolIndex' = poolIndex + 1 /\ poolIndex >= poolSize),
         Kind(pc[t]) = "none", Kind(pc'[t]) = "none", Ref(t)' = Ref(t), Knows(t)'
  PROVE  Placed'
<1>1. 0 \notin Blocks
  BY SettingIs
<1>2. PlaceStep(t, 0, K, W, K, W)
  BY <1>1 DEF PlaceStep, ExceptAt
<1>3. CountStep(t, 0, K, W, K)
  BY <1>1 DEF CountStep, ExceptAt
<1> QED
  BY <1>1, <1>2, <1>3, PlaceMovedOffList

\* A step of a thread that keeps the block in its hand, and changes at most its next
\* while it adds it.
LEMMA PlaceKept ==
  ASSUME NEW t, NEW K, NEW W, NEW P, NEW E, NEW L, NEW n, Setting(t, K, W, P, E, L, n), Pool(t),
         UNCHANGED <<heap, freeListRefs, freeListHead, poolIndex>>,
         NEW b \in Pooled, Hand(t) = b, Hand(t)' = b, Kind(pc[t]) # "none",
         Kind(pc'[t]) = Kind(pc[t]), Ref(t) = 0, Ref(t)' = 0, Knows(t)',
         ExceptAt(freeListNext, freeListNext', b),
         Kind(pc[t]) = "adding" \/ freeListNext' = freeListNext
  PROVE  Placed'
<1>1. b \in Blocks /\ b # 0 /\ (b <= poolSize) /\ poolSize' = poolSize
  BY SettingIs
<1>2. K[b] = Kind(pc[t]) /\ W[b] = t /\ Counts(b, K[b]) /\ K[b] \in HandKinds
  <2>1. t \in Threads /\ HandsInv(K, W) /\ CountsInv(K)
    BY DEF Setting, PlacedAs
  <2>2. K[b] = Kind(pc[t]) /\ W[b] = t /\ Counts(b, K[b])
    BY <1>1, <2>1 DEF HandsInv, CountsInv
  <2>3. Kind(pc[t]) \in HandKinds
    BY DEF Kind, HandKinds
  <2> QED
    BY <2>2, <2>3
<1>3. PlaceStep(t, b, K, W, K, W)
  BY <1>1, <1>2 DEF PlaceStep, ExceptAt, HandKinds, Kinds
<1>4. Counts(b, K[b])'
  <2>1. Referrers(b)' = Referrers(b)
    BY SettingIs, ReferrersKept
  <2> QED
    BY <1>1, <1>2, <2>1 DEF Counts, PooledCounts
<1>5. CountStep(t, b, K, W, K)
  BY <1>2, <1>4 DEF CountStep, ExceptAt
<1> QED
  BY <1>2, <1>3, <1>5, PlaceMovedOffList DEF HandKinds

\* The test of initialBlockPoolIndex moves no block.
LEMMA PoolTestPlaced ==
  ASSUME NEW t, NEW K, NEW W, NEW P, NEW E, NEW L, NEW n, Setting(t, K, W, P, E, L, n), Pool(t),
         PoolTest(t)
  PROVE  Placed'
<1>1. pc[t] = "requisition" /\ pc'[t] \in {"getload", "poolinc"} /\ UNCHANGED <<poolVars, fl>>
  BY SettingIs DEF PoolTest
<1>2. Kind(pc[t]) = "none" /\ Kind(pc'[t]) = "none" /\ Ref(t)' = Ref(t) /\ Knows(t)'
  BY <1>1 DEF Kind, Ref, Knows, AddLabels
<1> QED
  BY <1>1, <1>2, PlaceStill DEF poolVars

\* A block of the initial pool gets into a hand, or the pool is used up.
LEMMA PoolIncrementPlaced ==
  ASSUME NEW t, NEW K, NEW W, NEW P, NEW E, NEW L, NEW n, Setting(t, K, W, P, E, L, n), Pool(t),
         PoolIncrement(t)
  PROVE  Placed'
<1>0. /\ pc[t] = "poolinc" /\ poolIndex' = poolIndex + 1
      /\ UNCHANGED <<heap, freeListHead, freeListRefs, freeListNext>>
  BY DEF PoolIncrement
<1>a. poolIndex \in Nat /\ poolSize \in 0 .. MaxBlocks
  BY DEF Setting, BaseInv, PoolTypes
<1>1. CASE poolIndex >= poolSize
  <2>1. pc'[t] = "getload"
    BY <1>1, <1>a, SettingIs DEF PoolIncrement
  <2>2. Kind(pc[t]) = "none" /\ Kind(pc'[t]) = "none" /\ Ref(t)' = Ref(t) /\ Knows(t)'
    BY <1>0, <2>1 DEF Kind, Ref, Knows, AddLabels
  <2> QED
    BY <1>0, <1>1, <2>2, PlaceStill
<1>2. CASE poolIndex < poolSize
  <2>1. PICK b : b = poolIndex + 1
    OBVIOUS
  <2>2. b \in Pooled /\ b \in Blocks /\ b # 0 /\ b > poolIndex /\ b <= poolSize
    BY <1>2, <1>a, <2>1, BlocksAssumption DEF Pooled, Blocks
  <2>3. pc'[t] = "gotblock" /\ fl'[t].block = b
    <3>1. Go(t, "gotblock") /\ Locals(t, [NoBlock EXCEPT !.block = b])
      BY <1>2, <1>a, <2>1 DEF PoolIncrement
    <3>2. pc'[t] = "gotblock" /\ fl'[t] = [NoBlock EXCEPT !.block = b]
      BY <3>1, SettingIs
    <3> QED
      BY <3>2, Fields
  <2>4. /\ Kind(pc[t]) = "none" /\ Kind(pc'[t]) = "held" /\ Hand(t)' = b
        /\ Ref(t) = 0 /\ Ref(t)' = 0 /\ Knows(t)'
    BY <1>0, <2>3 DEF Kind, Hand, Ref, Knows, AddLabels
  <2>5. PICK K1, W1 : /\ K1 = [c \in Blocks |-> IF c = b THEN "held" ELSE K[c]]
                      /\ W1 = [c \in Blocks |-> IF c = b THEN t ELSE W[c]]
    OBVIOUS
  <2>6. /\ ExceptAt(K, K1, b) /\ ExceptAt(W, W1, b) /\ K1[b] = "held" /\ W1[b] = t
    BY <2>2, <2>5 DEF ExceptAt
  <2>7. Counts(b, K[b])
    BY <2>2 DEF Setting, PlacedAs, CountsInv
  <2>8. /\ K[b] = "unused" /\ heap[b] = 0 /\ freeListRefs[b] = 0 + Cardinality(Referrers(b))
        /\ Referrers(b) = {}
    BY <2>2, <2>7 DEF Counts, PooledCounts, Weight
  <2>9. Counts(b, K1[b])'
    <3>1. Referrers(b)' = Referrers(b) /\ poolSize' = poolSize
      BY <2>4, SettingIs, ReferrersKept
    <3>2. ~ (b > poolIndex')
      BY <1>0, <1>a, <2>1
    <3> QED
      BY <1>0, <2>2, <2>6, <2>8, <3>1, <3>2 DEF Counts, PooledCounts, Weight
  <2>10. PlaceStep(t, b, K, W, K1, W1)
    BY <2>2, <2>4, <2>6, <2>8 DEF PlaceStep, HandKinds, Kinds
  <2>11. CountStep(t, b, K, W, K1)
    BY <1>0, <2>1, <2>4, <2>6, <2>9 DEF CountStep, ExceptAt
  <2> QED
    BY <1>0, <2>6, <2>8, <2>10, <2>11, PlaceMovedOffList
<1> QED
  BY <1>1, <1>2, <1>a

\* try_get reads the head.
LEMMA GetLoadPlaced ==
  ASSUME NEW t, NEW K, NEW W, NEW P, NEW E, NEW L, NEW n, Setting(t, K, W, P, E, L, n), Pool(t),
         GetLoad(t)
  PROVE  Placed'
<1>1. pc[t] = "getload" /\ TryHead(t, freeListHead) /\ UNCHANGED poolVars
  BY DEF GetLoad
<1>2. Kind(pc'[t]) = "none" /\ Ref(t)' = 0 /\ Knows(t)'
  BY <1>1, SettingIs, TriedKnows
<1>3. Kind(pc[t]) = "none" /\ Ref(t) = 0
  BY <1>1 DEF Kind, Ref
<1> QED
  BY <1>1, <1>2, <1>3, PlaceStill DEF poolVars

\* try_get reads the count of the head.
LEMMA GetRefsPlaced ==
  ASSUME NEW t, NEW K, NEW W, NEW P, NEW E, NEW L, NEW n, Setting(t, K, W, P, E, L, n), Pool(t),
         GetRefs(t)
  PROVE  Placed'
<1>1. PICK refs : refs = freeListRefs[fl[t].head]
  OBVIOUS
<1>2. /\ pc[t] = "getrefs" /\ UNCHANGED poolVars
      /\ \/ pc'[t] = "getload"
         \/ /\ pc'[t] = "getinc" /\ refs % (REFS_MASK + 1) # 0
            /\ fl'[t] = [fl[t] EXCEPT !.refs = refs]
  BY <1>1, SettingIs DEF GetRefs
<1>3. pc'[t] = "getinc" => fl'[t].head = fl[t].head /\ fl'[t].refs = refs
  <2>1. fl[t] \in PoolLocals
    BY SettingIs
  <2>2. SUFFICES ASSUME pc'[t] = "getinc" PROVE fl'[t].head = fl[t].head /\ fl'[t].refs = refs
    OBVIOUS
  <2>3. fl'[t] = [fl[t] EXCEPT !.refs = refs]
    BY <1>2, <2>2
  <2> QED
    BY <2>1, <2>3, Fields
<1>4. fl[t].head \in Pooled /\ Pooled' = Pooled
  BY <1>2, SettingIs DEF Knows
<1>5. Kind(pc[t]) = "none" /\ Kind(pc'[t]) = "none" /\ Ref(t) = 0 /\ Ref(t)' = 0
  BY <1>2 DEF Kind, Ref
<1>6. Knows(t)'
  <2>1. pc'[t] = "getload" => Knows(t)'
    BY DEF Knows, AddLabels
  <2>2. pc'[t] = "getinc" => fl'[t].head \in Pooled' /\ fl'[t].refs % (REFS_MASK + 1) # 0
    BY <1>2, <1>3, <1>4
  <2>3. pc'[t] = "getinc" => Knows(t)'
    BY <2>2 DEF Knows, AddLabels
  <2> QED
    BY <1>2, <2>1, <2>3
<1> QED
  BY <1>2, <1>5, <1>6, PlaceStill DEF poolVars

\* Only a block with a low count is referred to: one that is listed or owed, or was so.
LEMMA GetIncrementPlaced ==
  ASSUME NEW t, NEW K, NEW W, NEW P, NEW E, NEW L, NEW n, Setting(t, K, W, P, E, L, n), Pool(t),
         GetIncrement(t)
  PROVE  Placed'
<1>0. /\ pc[t] = "getinc" /\ fl' = fl
      /\ UNCHANGED <<poolIndex, heap, freeListHead, freeListNext>>
  BY DEF GetIncrement
<1>1. CASE freeListRefs[fl[t].head] # fl[t].refs
  <2>1. pc'[t] = "getload" /\ UNCHANGED freeListRefs
    BY <1>1, SettingIs DEF GetIncrement
  <2>2. Kind(pc[t]) = "none" /\ Kind(pc'[t]) = "none" /\ Ref(t)' = Ref(t) /\ Knows(t)'
    BY <1>0, <2>1 DEF Kind, Ref, Knows, AddLabels
  <2> QED
    BY <1>0, <2>1, <2>2, PlaceStill
<1>2. CASE freeListRefs[fl[t].head] = fl[t].refs
  <2>1. PICK b : b = fl[t].head
    OBVIOUS
  <2>2. b \in Pooled /\ b \in Blocks /\ b # 0 /\ b <= poolSize /\ Pooled' = Pooled
        /\ poolSize' = poolSize /\ fl[t].refs % (REFS_MASK + 1) # 0
    BY <1>0, <2>1, SettingIs DEF Knows
  <2>3. pc'[t] = "getnext" /\ freeListRefs' = [freeListRefs EXCEPT ![b] = @ + 1]
    BY <1>2, <2>1, SettingIs DEF GetIncrement, AddToRefs
  <2>4. /\ Kind(pc[t]) = "none" /\ Kind(pc'[t]) = "none"
        /\ Ref(t) = 0 /\ Ref(t)' = b /\ Knows(t)'
    BY <1>0, <2>1, <2>2, <2>3 DEF Kind, Ref, Knows, AddLabels
  <2>5. /\ freeListRefs'[b] = freeListRefs[b] + 1 /\ ExceptAt(freeListRefs, freeListRefs', b)
        /\ freeListRefs[b] \in Int
    BY <2>2, <2>3 DEF Setting, BaseInv, PoolTypes, ExceptAt
  <2>6. Counts(b, K[b]) /\ K[b] \in Kinds /\ HandsInv(K, W) /\ StoredInv(K, P, E)
    BY <2>2 DEF Setting, PlacedAs, CountsInv
  <2>7. K[b] \notin {"unused", "adding"}
    <3> SUFFICES ASSUME K[b] \in {"unused", "adding"} PROVE FALSE
      OBVIOUS
    <3>1. Referrers(b) = {} /\ freeListRefs[b] = Weight(K[b]) + Cardinality(Referrers(b))
      BY <2>2, <2>6 DEF Counts, PooledCounts
    <3>2. freeListRefs[b] \in {0, SHOULD_BE_ON_FREELIST}
      BY <3>1, FS_EmptySet DEF Weight, SHOULD_BE_ON_FREELIST
    <3>3. freeListRefs[b] % (REFS_MASK + 1) = 0
      BY <3>2 DEF REFS_MASK, SHOULD_BE_ON_FREELIST
    <3> QED
      BY <1>2, <2>1, <2>2, <3>3
  <2>8. Counts(b, K[b])'
    <3>1. Referrers(b)' = Referrers(b) \cup {t}
      BY <2>2, <2>4, SettingIs, ReferrersKept
    <3>2. t \notin Referrers(b)
      BY <2>2, <2>4 DEF Referrers
    <3>3. Cardinality(Referrers(b)') = Cardinality(Referrers(b)) + 1
            /\ Cardinality(Referrers(b)) \in Nat
      BY <3>1, <3>2, ReferrersCount DEF Setting
    <3>4. Weight(K[b]) \in Nat
      BY DEF Weight, SHOULD_BE_ON_FREELIST
    <3>5. /\ heap[b] = 0 /\ ~ (b > poolIndex)
          /\ freeListRefs[b] = Weight(K[b]) + Cardinality(Referrers(b))
      BY <2>2, <2>6, <2>7 DEF Counts, PooledCounts
    <3>6. freeListRefs'[b] = Weight(K[b]) + Cardinality(Referrers(b)')
      BY <2>5, <3>3, <3>4, <3>5
    <3> QED
      BY <1>0, <2>2, <2>7, <3>1, <3>5, <3>6 DEF Counts, PooledCounts
  <2>9. CountStep(t, b, K, W, K)
    BY <1>0, <2>2, <2>4, <2>5, <2>8 DEF CountStep, ExceptAt
  <2>10. PlaceStep(t, 0, K, W, K, W)
    BY <2>4, SettingIs DEF PlaceStep, ExceptAt
  <2> QED
    BY <1>0, <2>9, <2>10, SettingIs, PlaceMovedOffList
<1> QED
  BY <1>1, <1>2

\* try_get reads the next of the head, which is on the list as long as it is the head.
LEMMA GetNextPlaced ==
  ASSUME NEW t, NEW K, NEW W, NEW P, NEW E, NEW L, NEW n, Setting(t, K, W, P, E, L, n), Pool(t),
         GetNext(t)
  PROVE  Placed'
<1>1. /\ pc[t] = "getnext" /\ pc'[t] = "getcas" /\ UNCHANGED poolVars
      /\ fl'[t] = [fl[t] EXCEPT !.next = freeListNext[fl[t].head], !.refs = 0]
  BY SettingIs DEF GetNext
<1>2. fl'[t].head = fl[t].head /\ fl'[t].next = freeListNext[fl[t].head]
  <2>1. fl[t] \in PoolLocals
    BY SettingIs
  <2> QED
    BY <1>1, <2>1, Fields
<1>3. fl[t].head \in Pooled /\ Pooled' = Pooled
  BY <1>1, SettingIs DEF Knows
<1>4. Kind(pc[t]) = "none" /\ Kind(pc'[t]) = "none" /\ Ref(t)' = Ref(t)
  BY <1>1, <1>2 DEF Kind, Ref
<1>5. Knows(t)'
  BY <1>1, <1>2, <1>3 DEF Knows, AddLabels, poolVars
<1> QED
  BY <1>1, <1>4, <1>5, PlaceStill DEF poolVars

\* The block that the exchange takes off the list is the one whose next was read: it
\* cannot have left the list in between, as t refers to it.
LEMMA GetCasPlaced ==
  ASSUME NEW t, NEW K, NEW W, NEW P, NEW E, NEW L, NEW n, Setting(t, K, W, P, E, L, n), Pool(t),
         GetCas(t)
  PROVE  Placed'
<1>0. pc[t] = "getcas" /\ UNCHANGED <<poolIndex, heap, freeListRefs, freeListNext>>
  BY DEF GetCas
<1>a. fl[t].head \in Pooled /\ fl[t].next = freeListNext[fl[t].head]
  BY <1>0, SettingIs DEF Knows
<1>b. Pooled' = Pooled /\ poolSize' = poolSize /\ freeListHead \in {0} \cup Pooled
      /\ Pooled \subseteq Blocks /\ 0 \notin Blocks
  BY SettingIs
<1>1. CASE freeListHead # fl[t].head
  <2>1. pc'[t] = "getdec" /\ UNCHANGED freeListHead
        /\ fl'[t] = [NoBlock EXCEPT !.head = freeListHead, !.prev = fl[t].head]
    BY <1>1, SettingIs DEF GetCas
  <2>2. fl'[t].head = freeListHead /\ fl'[t].prev = fl[t].head
    BY <2>1, Fields
  <2>3. Kind(pc[t]) = "none" /\ Kind(pc'[t]) = "none" /\ Ref(t)' = Ref(t)
    BY <1>0, <2>1, <2>2 DEF Kind, Ref
  <2>4. Knows(t)'
    BY <1>a, <1>b, <2>1, <2>2 DEF Knows, AddLabels
  <2> QED
    BY <1>0, <2>1, <2>3, <2>4, PlaceStill
<1>2. CASE freeListHead = fl[t].head
  <2>1. PICK b : b = fl[t].head
    OBVIOUS
  <2>2. /\ pc'[t] = "getsub" /\ fl' = fl /\ freeListHead' = freeListNext[b] /\ freeListHead = b
    BY <1>2, <1>a, <2>1, SettingIs DEF GetCas
  <2>3. b \in Pooled /\ b \in Blocks /\ b # 0 /\ b <= poolSize /\ K[b] = "listed"
    BY <1>a, <1>b, <2>1, <2>2, SettingIs
  <2>4. /\ Kind(pc[t]) = "none" /\ Kind(pc'[t]) = "popped" /\ Hand(t)' = b
        /\ Ref(t) = b /\ Ref(t)' = b
    BY <1>0, <2>1, <2>2 DEF Kind, Hand, Ref
  <2>5. Knows(t)'
    BY <1>b, <2>1, <2>2, <2>3 DEF Knows, AddLabels
  <2>6. PICK K1, W1 : /\ K1 = [c \in Blocks |-> IF c = b THEN "popped" ELSE K[c]]
                      /\ W1 = [c \in Blocks |-> IF c = b THEN t ELSE W[c]]
    OBVIOUS
  <2>7. ExceptAt(K, K1, b) /\ ExceptAt(W, W1, b) /\ K1[b] = "popped" /\ W1[b] = t
    BY <2>3, <2>6 DEF ExceptAt
  <2>8. Counts(b, K1[b])'
    <3>1. Referrers(b)' = Referrers(b)
      BY <2>4, SettingIs, ReferrersKept
    <3>2. Counts(b, K[b])
      BY <2>3 DEF Setting, PlacedAs, CountsInv
    <3> QED
      BY <1>0, <1>b, <2>3, <2>7, <3>1, <3>2 DEF Counts, PooledCounts, Weight
  <2>9. PlaceStep(t, b, K, W, K1, W1)
    BY <2>3, <2>4, <2>7 DEF PlaceStep, HandKinds, Kinds
  <2>10. CountStep(t, b, K, W, K1)
    BY <1>0, <2>4, <2>5, <2>7, <2>8 DEF CountStep, ExceptAt
  <2>11. \E L1, n1 : ListInv(K1, L1, n1)'
    <3>1. ListInv(K, L, n)
      BY DEF Setting, PlacedAs
    <3> QED
      BY <1>0, <2>2, <2>3, <2>7, <3>1, ListPopped
  <2> QED
    BY <2>9, <2>10, <2>11, PlaceMoved
<1> QED
  BY <1>1, <1>2

\* The block popped has given up the reference of the list.
LEMMA GetDonePlaced ==
  ASSUME NEW t, NEW K, NEW W, NEW P, NEW E, NEW L, NEW n, Setting(t, K, W, P, E, L, n), Pool(t),
         GetDone(t)
  PROVE  Placed'
<1>1. PICK b : b = fl[t].head
  OBVIOUS
<1>2. /\ pc[t] = "getsub" /\ pc'[t] = "gotblock" /\ fl'[t] = [NoBlock EXCEPT !.block = b]
      /\ freeListRefs' = [freeListRefs EXCEPT ![b] = @ + (-2)]
      /\ UNCHANGED <<poolIndex, heap, freeListHead, freeListNext>>
  BY <1>1, SettingIs DEF GetDone, AddToRefs
<1>3. b \in Pooled /\ b \in Blocks /\ b # 0 /\ b <= poolSize /\ poolSize' = poolSize
  BY <1>1, <1>2, SettingIs DEF Knows
<1>4. /\ Kind(pc[t]) = "popped" /\ Kind(pc'[t]) = "held" /\ Hand(t) = b /\ Hand(t)' = b
      /\ Ref(t) = b /\ Ref(t)' = 0 /\ Knows(t)'
  <2>1. fl'[t].block = b
    BY <1>2, Fields
  <2> QED
    BY <1>1, <1>2, <2>1 DEF Kind, Hand, Ref, Knows, AddLabels
<1>5. K[b] = "popped" /\ W[b] = t /\ Counts(b, K[b])
  <2>1. t \in Threads /\ HandsInv(K, W) /\ CountsInv(K)
    BY DEF Setting, PlacedAs
  <2> QED
    BY <1>3, <1>4, <2>1 DEF HandsInv, CountsInv
<1>6. PICK K1 : K1 = [c \in Blocks |-> IF c = b THEN "held" ELSE K[c]]
  OBVIOUS
<1>7. ExceptAt(K, K1, b) /\ ExceptAt(W, W, b) /\ K1[b] = "held"
  BY <1>3, <1>6 DEF ExceptAt
<1>8. /\ freeListRefs'[b] = freeListRefs[b] - 2 /\ freeListRefs[b] \in Int
      /\ ExceptAt(freeListRefs, freeListRefs', b)
  BY <1>2, <1>3 DEF Setting, BaseInv, PoolTypes, ExceptAt
<1>9. Counts(b, K1[b])'
  <2>1. Referrers(b)' = Referrers(b) \ {t}
    BY <1>3, <1>4, SettingIs, ReferrersKept
  <2>2. t \in Referrers(b)
    BY <1>4 DEF Referrers, Setting
  <2>3. Cardinality(Referrers(b)') = Cardinality(Referrers(b)) - 1
          /\ Cardinality(Referrers(b)) \in Nat
    BY <2>1, <2>2, ReferrersCount DEF Setting
  <2>4. /\ heap[b] = 0 /\ ~ (b > poolIndex)
        /\ freeListRefs[b] = 1 + Cardinality(Referrers(b))
    BY <1>3, <1>5 DEF Counts, PooledCounts, Weight
  <2>5. freeListRefs'[b] = 0 + Cardinality(Referrers(b)')
    BY <1>8, <2>3, <2>4
  <2> QED
    BY <1>2, <1>3, <1>7, <2>4, <2>5 DEF Counts, PooledCounts, Weight
<1>10. PlaceStep(t, b, K, W, K1, W)
  BY <1>3, <1>4, <1>5, <1>7 DEF PlaceStep, HandKinds, Kinds
<1>11. CountStep(t, b, K, W, K1)
  BY <1>2, <1>4, <1>7, <1>8, <1>9 DEF CountStep, ExceptAt
<1> QED
  BY <1>2, <1>5, <1>7, <1>10, <1>11, PlaceMovedOffList

\* The last one that refers to a block that is owed adds it.
LEMMA GetDecrementPlaced ==
  ASSUME NEW t, NEW K, NEW W, NEW P, NEW E, NEW L, NEW n, Setting(t, K, W, P, E, L, n), Pool(t),
         GetDecrement(t)
  PROVE  Placed'
<1>1. PICK b : b = fl[t].prev
  OBVIOUS
<1>2. /\ pc[t] = "getdec" /\ freeListRefs' = [freeListRefs EXCEPT ![b] = @ + (-1)]
      /\ UNCHANGED <<poolIndex, heap, freeListHead, freeListNext>>
  BY <1>1 DEF GetDecrement, AddToRefs
<1>3. b \in Pooled /\ b \in Blocks /\ b # 0 /\ b <= poolSize /\ poolSize' = poolSize
      /\ fl[t].head \in {0} \cup Pooled /\ Pooled' = Pooled
  BY <1>1, <1>2, SettingIs DEF Knows
<1>4. Kind(pc[t]) = "none" /\ Ref(t) = b
  BY <1>1, <1>2 DEF Kind, Ref
<1>5. Counts(b, K[b]) /\ K[b] \in Kinds
  BY <1>3 DEF Setting, PlacedAs, CountsInv
<1>6. /\ freeListRefs'[b] = freeListRefs[b] - 1 /\ freeListRefs[b] \in Int
      /\ ExceptAt(freeListRefs, freeListRefs', b)
  BY <1>2, <1>3 DEF Setting, BaseInv, PoolTypes, ExceptAt
<1>7. PICK r : r = Cardinality(Referrers(b))
  OBVIOUS
<1>8. /\ t \in Referrers(b) /\ r \in Nat /\ r # 0 /\ r < SHOULD_BE_ON_FREELIST
      /\ Cardinality(Referrers(b) \ {t}) = r - 1
      /\ r - 1 = 0 <=> Referrers(b) \ {t} = {}
  <2>1. t \in Referrers(b) /\ t \in Threads /\ FewThreads
    BY <1>4 DEF Referrers, Setting
  <2>2. r \in Nat /\ r < SHOULD_BE_ON_FREELIST /\ (r = 0 <=> Referrers(b) = {})
        /\ Cardinality(Referrers(b) \ {t}) = r - 1
    BY <1>7, <2>1, ReferrersCount
  <2>3. r - 1 = 0 <=> Referrers(b) \ {t} = {}
    <3>1. IsFiniteSet(Referrers(b) \ {t})
      <4>1. Referrers(b) \ {t} \subseteq Threads
        BY DEF Referrers
      <4> QED
        BY <2>1, <4>1, FS_Subset DEF FewThreads
    <3> QED
      BY <2>2, <3>1, FS_EmptySet
  <2> QED
    BY <2>1, <2>2, <2>3
<1>9. /\ heap[b] = 0 /\ (K[b] = "unused" <=> b > poolIndex)
      /\ freeListRefs[b] = Weight(K[b]) + r
      /\ K[b] \notin {"unused", "adding"}
  BY <1>3, <1>5, <1>7, <1>8 DEF Counts, PooledCounts
<1>a. CASE freeListRefs[b] = SHOULD_BE_ON_FREELIST + 1
  <2>1. Go(t, "addhead") /\ Locals(t, [fl[t] EXCEPT !.block = b, !.getting = TRUE])
    BY <1>1, <1>a DEF GetDecrement
  <2>2. pc'[t] = "addhead" /\ fl'[t] = [fl[t] EXCEPT !.block = b, !.getting = TRUE]
    BY <2>1, SettingIs
  <2>3. fl'[t].block = b /\ fl'[t].head = fl[t].head
    <3>1. fl[t] \in PoolLocals
      BY SettingIs
    <3> QED
      BY <2>2, <3>1, Fields
  <2>4. Kind(pc'[t]) = "adding" /\ Hand(t)' = b /\ Ref(t)' = 0 /\ Knows(t)'
    BY <1>3, <2>2, <2>3 DEF Kind, Hand, Ref, Knows, AddLabels
  <2>5. K[b] = "owed" /\ r = 1
    BY <1>8, <1>9, <1>a DEF Weight, SHOULD_BE_ON_FREELIST
  <2>6. PICK K1, W1 : /\ K1 = [c \in Blocks |-> IF c = b THEN "adding" ELSE K[c]]
                      /\ W1 = [c \in Blocks |-> IF c = b THEN t ELSE W[c]]
    OBVIOUS
  <2>7. ExceptAt(K, K1, b) /\ ExceptAt(W, W1, b) /\ K1[b] = "adding" /\ W1[b] = t
    BY <1>3, <2>6 DEF ExceptAt
  <2>8. Counts(b, K1[b])'
    <3>1. Referrers(b)' = {}
      BY <1>3, <1>4, <1>8, <2>4, <2>5, SettingIs, ReferrersKept
    <3>2. freeListRefs'[b] = SHOULD_BE_ON_FREELIST + 0 /\ Cardinality({}) = 0
      BY <1>6, <1>a, FS_EmptySet DEF SHOULD_BE_ON_FREELIST
    <3> QED
      BY <1>2, <1>3, <1>9, <2>7, <3>1, <3>2 DEF Counts, PooledCounts, Weight
  <2>9. PlaceStep(t, b, K, W, K1, W1)
    BY <1>3, <1>4, <2>4, <2>5, <2>7 DEF PlaceStep, HandKinds, Kinds
  <2>10. CountStep(t, b, K, W, K1)
    BY <1>2, <1>4, <1>6, <2>4, <2>7, <2>8 DEF CountStep, ExceptAt
  <2> QED
    BY <1>2, <2>5, <2>7, <2>9, <2>10, PlaceMovedOffList
<1>b. CASE freeListRefs[b] # SHOULD_BE_ON_FREELIST + 1
  <2>1. TryHead(t, fl[t].head)
    BY <1>1, <1>b DEF GetDecrement
  <2>2. Kind(pc'[t]) = "none" /\ Ref(t)' = 0 /\ Knows(t)'
    BY <1>3, <2>1, TriedKnows
  <2>3. Counts(b, K[b])'
    <3>1. Referrers(b)' = Referrers(b) \ {t}
      BY <1>3, <1>4, <2>2, SettingIs, ReferrersKept
    <3>2. K[b] = "owed" => Referrers(b) \ {t} # {}
      BY <1>8, <1>9, <1>b DEF Weight, SHOULD_BE_ON_FREELIST
    <3>3. Weight(K[b]) \in Nat
      BY DEF Weight, SHOULD_BE_ON_FREELIST
    <3>4. freeListRefs'[b] = Weight(K[b]) + Cardinality(Referrers(b)')
      BY <1>6, <1>8, <1>9, <3>1, <3>3
    <3> QED
      BY <1>2, <1>3, <1>9, <3>1, <3>2, <3>4 DEF Counts, PooledCounts
  <2>4. CountStep(t, b, K, W, K)
    BY <1>2, <1>4, <1>6, <2>2, <2>3 DEF CountStep, ExceptAt
  <2>5. PlaceStep(t, 0, K, W, K, W)
    BY <1>4, <2>2, SettingIs DEF PlaceStep, ExceptAt
  <2> QED
    BY <1>2, <2>4, <2>5, SettingIs, PlaceMovedOffList
<1> QED
  BY <1>a, <1>b

\* A block from the heap, or none.
LEMMA CreatePlaced ==
  ASSUME NEW t, NEW K, NEW W, NEW P, NEW E, NEW L, NEW n, Setting(t, K, W, P, E, L, n), Pool(t),
         Create(t)
  PROVE  Placed'
<1>0. /\ pc[t] = "create" /\ pc'[t] = "gotblock" /\ UNCHANGED <<poolIndex, freeListHead>>
  BY SettingIs DEF Create
<1>1. Kind(pc[t]) = "none" /\ Kind(pc'[t]) = "held" /\ Hand(t)' = fl'[t].block
      /\ Ref(t) = 0 /\ Ref(t)' = 0 /\ Knows(t)'
  BY <1>0 DEF Kind, Hand, Ref, Knows, AddLabels
<1>2. CASE Unallocated = {} /\ Locals(t, NoBlock) /\ UNCHANGED <<heap, freeListRefs, freeListNext>>
  <2>1. Hand(t)' = 0
    BY <1>1, <1>2, SettingIs, Fields
  <2>2. PlaceStep(t, 0, K, W, K, W)
    BY <1>1, <2>1, SettingIs DEF PlaceStep, ExceptAt
  <2>3. CountStep(t, 0, K, W, K)
    BY <1>0, <1>1, <1>2, SettingIs DEF CountStep, ExceptAt
  <2> QED
    BY <1>0, <2>2, <2>3, SettingIs, PlaceMovedOffList
<1>3. CASE \E b \in Unallocated : NewBlock(b) /\ Locals(t, [NoBlock EXCEPT !.block = b])
  <2>1. PICK b \in Unallocated : NewBlock(b) /\ Locals(t, [NoBlock EXCEPT !.block = b])
    BY <1>3
  <2>2. b \in Blocks /\ b # 0 /\ b > poolSize /\ heap[b] = 0 /\ b \notin Pooled
          /\ poolSize' = poolSize
        /\ ~ (b <= poolSize)
    BY <2>1, SettingIs DEF Unallocated, Setting, BaseInv, PoolTypes, Pooled, Blocks
  <2>3. Hand(t)' = b
    <3>1. fl'[t] = [NoBlock EXCEPT !.block = b]
      BY <2>1, SettingIs
    <3> QED
      BY <1>1, <3>1, Fields
  <2>4. Counts(b, K[b])
    BY <2>2 DEF Setting, PlacedAs, CountsInv
  <2>5. K[b] = "unused"
    BY <2>2, <2>4 DEF Counts, HeapCounts
  <2>6. PICK K1, W1 : /\ K1 = [c \in Blocks |-> IF c = b THEN "held" ELSE K[c]]
                      /\ W1 = [c \in Blocks |-> IF c = b THEN t ELSE W[c]]
    OBVIOUS
  <2>7. ExceptAt(K, K1, b) /\ ExceptAt(W, W1, b) /\ K1[b] = "held" /\ W1[b] = t
    BY <2>2, <2>6 DEF ExceptAt
  <2>8. /\ heap'[b] = 1 /\ ExceptAt(heap, heap', b) /\ ExceptAt(freeListRefs, freeListRefs', b)
        /\ ExceptAt(freeListNext, freeListNext', b)
    BY <2>1, <2>2 DEF NewBlock, Setting, BaseInv, PoolTypes, ExceptAt
  <2>9. Counts(b, K1[b])'
    BY <2>2, <2>7, <2>8 DEF Counts, HeapCounts
  <2>10. PlaceStep(t, b, K, W, K1, W1)
    BY <1>1, <2>2, <2>3, <2>5, <2>7 DEF PlaceStep, HandKinds, Kinds
  <2>11. CountStep(t, b, K, W, K1)
    BY <1>0, <1>1, <2>2, <2>7, <2>8, <2>9 DEF CountStep
  <2> QED
    BY <1>0, <2>5, <2>7, <2>10, <2>11, PlaceMovedOffList
<1> QED
  BY <1>2, <1>3 DEF Create

\* A block goes back: to the heap, onto the list or, while others refer to it, to the last
\* of them.
LEMMA AddBlockPlaced ==
  ASSUME NEW t, NEW K, NEW W, NEW P, NEW E, NEW L, NEW n, Setting(t, K, W, P, E, L, n), Pool(t),
         AddBlock(t)
  PROVE  Placed'
<1>1. PICK b : b = fl[t].block
  OBVIOUS
<1>2. pc[t] = "addblock" /\ UNCHANGED <<poolIndex, freeListHead, freeListNext>>
  BY DEF AddBlock
<1>3. /\ b # 0 /\ b \in Blocks /\ poolSize' = poolSize /\ poolSize \in 0 .. MaxBlocks
      /\ (b \in Pooled <=> b <= poolSize) /\ Pooled' = Pooled
      /\ fl[t].head \in {0} \cup Pooled
  <2>1. b # 0 /\ fl[t].head \in {0} \cup Pooled
    BY <1>1, <1>2, SettingIs DEF Knows, AddLabels
  <2>2. b \in Blocks
    BY <1>1, <2>1, SettingIs DEF PoolLocals, Addresses
  <2> QED
    BY <2>1, <2>2, SettingIs DEF Setting, BaseInv, PoolTypes
<1>4. Kind(pc[t]) = "held" /\ Hand(t) = b /\ Ref(t) = 0
  BY <1>1, <1>2 DEF Kind, Hand, Ref
<1>5. K[b] = "held" /\ W[b] = t /\ Counts(b, K[b])
  <2>1. t \in Threads /\ HandsInv(K, W) /\ CountsInv(K)
    BY DEF Setting, PlacedAs
  <2> QED
    BY <1>3, <1>4, <2>1 DEF HandsInv, CountsInv
\* It leaves the hand.
<1>6. ASSUME NEW k \in {"unused", "owed"}, Added(t),
             ExceptAt(heap, heap', b), ExceptAt(freeListRefs, freeListRefs', b),
             Ref(t)' = 0 => Counts(b, k)'
      PROVE  Placed'
  <2>1. Kind(pc'[t]) = "none" /\ Ref(t)' = 0 /\ Knows(t)'
    BY <1>2, <1>6, AddedKnows DEF AddLabels
  <2>2. PICK K1 : K1 = [c \in Blocks |-> IF c = b THEN k ELSE K[c]]
    OBVIOUS
  <2>3. ExceptAt(K, K1, b) /\ K1[b] = k /\ ExceptAt(W, W, b)
    BY <1>3, <2>2 DEF ExceptAt
  <2>4. PlaceStep(t, b, K, W, K1, W)
    BY <1>4, <1>5, <1>6, <2>1, <2>3 DEF PlaceStep, HandKinds, Kinds
  <2>5. CountStep(t, b, K, W, K1)
    BY <1>2, <1>4, <1>6, <2>1, <2>3 DEF CountStep, ExceptAt
  <2> QED
    BY <1>2, <1>5, <1>6, <2>3, <2>4, <2>5, PlaceMovedOffList
<1>7. CASE b > poolSize
  <2>1. Added(t) /\ heap' = [heap EXCEPT ![b] = @ - 1] /\ UNCHANGED freeListRefs
    BY <1>1, <1>3, <1>7, BlocksAssumption DEF AddBlock, Blocks
  <2>2. heap[b] = 1 /\ heap'[b] = 0 /\ ExceptAt(heap, heap', b)
    BY <1>3, <1>5, <1>7, <2>1, BlocksAssumption DEF Counts, HeapCounts, Setting, BaseInv, PoolTypes,
      ExceptAt, Blocks
  <2>3. Counts(b, "unused")'
    BY <1>3, <1>7, <2>2, BlocksAssumption DEF Counts, HeapCounts, Blocks
  <2> QED
    BY <1>6, <2>1, <2>2, <2>3 DEF ExceptAt
<1>8. CASE b <= poolSize
  <2>1. Add(t, b) /\ UNCHANGED heap
    BY <1>1, <1>3, <1>8, BlocksAssumption DEF AddBlock, Blocks
  <2>2. /\ freeListRefs' = [freeListRefs EXCEPT ![b] = @ + SHOULD_BE_ON_FREELIST]
        /\ freeListRefs'[b] = freeListRefs[b] + SHOULD_BE_ON_FREELIST
        /\ ExceptAt(freeListRefs, freeListRefs', b)
    BY <1>3, <2>1 DEF Add, AddToRefs, Setting, BaseInv, PoolTypes, ExceptAt
  <2>3. /\ heap[b] = 0 /\ ~ (b > poolIndex) /\ freeListRefs[b] = 0 + Cardinality(Referrers(b))
    BY <1>5, <1>8 DEF Counts, PooledCounts, Weight
  <2>4. /\ Cardinality(Referrers(b)) \in Nat
        /\ Cardinality(Referrers(b)) = 0 <=> Referrers(b) = {}
    BY ReferrersCount DEF Setting
  <2>5. Ref(t)' = 0 => Referrers(b)' = Referrers(b)
    BY <1>4, SettingIs, ReferrersKept
  <2>6. freeListRefs'[b] = SHOULD_BE_ON_FREELIST + Cardinality(Referrers(b))
    BY <2>2, <2>3, <2>4 DEF SHOULD_BE_ON_FREELIST
  <2>7. CASE freeListRefs[b] # 0
    <3>1. Added(t) /\ Referrers(b) # {}
      BY <2>1, <2>3, <2>4, <2>7 DEF Add
    <3>2. Ref(t)' = 0 => Counts(b, "owed")'
      BY <1>2, <1>3, <1>8, <2>1, <2>3, <2>5, <2>6, <3>1 DEF Counts, PooledCounts, Weight
    <3> QED
      BY <1>6, <2>1, <2>2, <3>1, <3>2 DEF ExceptAt
  <2>8. CASE freeListRefs[b] = 0
    <3>1. Go(t, "addhead") /\ UNCHANGED fl /\ Referrers(b) = {}
      BY <2>1, <2>3, <2>4, <2>8 DEF Add
    <3>2. pc'[t] = "addhead" /\ fl' = fl
      BY <3>1, SettingIs
    <3>3. Kind(pc'[t]) = "adding" /\ Hand(t)' = b /\ Ref(t)' = 0 /\ Knows(t)'
      BY <1>1, <1>3, <1>8, <3>2 DEF Kind, Hand, Ref, Knows, AddLabels
    <3>4. PICK K1 : K1 = [c \in Blocks |-> IF c = b THEN "adding" ELSE K[c]]
      OBVIOUS
    <3>5. ExceptAt(K, K1, b) /\ K1[b] = "adding" /\ ExceptAt(W, W, b)
      BY <1>3, <3>4 DEF ExceptAt
    <3>6. Counts(b, K1[b])'
      BY <1>2, <1>3, <1>8, <2>1, <2>3, <2>5, <2>6, <3>1, <3>3, <3>5 DEF Counts, PooledCounts, Weight
    <3>7. PlaceStep(t, b, K, W, K1, W)
      BY <1>4, <1>5, <3>3, <3>5 DEF PlaceStep, HandKinds, Kinds
    <3>8. CountStep(t, b, K, W, K1)
      BY <1>2, <1>4, <2>1, <2>2, <3>3, <3>5, <3>6 DEF CountStep, ExceptAt
    <3> QED
      BY <1>2, <1>5, <3>5, <3>7, <3>8, PlaceMovedOffList
  <2> QED
    BY <2>7, <2>8
<1> QED
  BY <1>3, <1>7, <1>8, BlocksAssumption DEF Blocks

\* What t knows while it adds a block.
LEMMA AddingIs ==
  ASSUME NEW t, NEW K, NEW W, NEW P, NEW E, NEW L, NEW n, Setting(t, K, W, P, E, L, n), Pool(t),
         pc[t] \in AddLabels \ {"addblock"}, NEW b, b = fl[t].block
  PROVE  /\ b \in Pooled /\ b \in Blocks /\ b # 0 /\ b <= poolSize /\ poolSize' = poolSize
         /\ Pooled' = Pooled /\ fl[t] \in PoolLocals
         /\ Kind(pc[t]) = IF pc[t] \in {"addcas", "addretry"} THEN "offered" ELSE "adding"
         /\ Hand(t) = b /\ Ref(t) = 0
         /\ K[b] = Kind(pc[t]) /\ W[b] = t /\ Counts(b, K[b])
         /\ fl[t].head \in {0} \cup Pooled
<1>1. b \in Pooled /\ b \in Blocks /\ b # 0 /\ b <= poolSize /\ poolSize' = poolSize
      /\ Pooled' = Pooled /\ fl[t] \in PoolLocals /\ fl[t].head \in {0} \cup Pooled
  BY SettingIs DEF Knows
<1>2. /\ Kind(pc[t]) = (IF pc[t] \in {"addcas", "addretry"} THEN "offered" ELSE "adding")
      /\ Hand(t) = b /\ Ref(t) = 0
  BY DEF AddLabels, Kind, Hand, Ref
<1>3. K[b] = Kind(pc[t]) /\ W[b] = t /\ Counts(b, K[b])
  <2>1. t \in Threads /\ HandsInv(K, W) /\ CountsInv(K)
    BY DEF Setting, PlacedAs
  <2> QED
    BY <1>1, <1>2, <2>1 DEF HandsInv, CountsInv
<1> QED
  BY <1>1, <1>2, <1>3

\* add_knowing_refcount_is_zero reads the head and links its block to it.
LEMMA AddHeadPlaced ==
  ASSUME NEW t, NEW K, NEW W, NEW P, NEW E, NEW L, NEW n, Setting(t, K, W, P, E, L, n), Pool(t),
         AddHead(t) \/ AddNext(t)
  PROVE  Placed'
<1>1. PICK b : b = fl[t].block
  OBVIOUS
<1>2. pc[t] \in {"addhead", "addnext"}
  BY DEF AddHead, AddNext
<1>3. pc[t] \in AddLabels \ {"addblock"}
  BY <1>2 DEF AddLabels
<1>4. /\ b \in Pooled /\ b \in Blocks /\ b # 0 /\ Pooled' = Pooled /\ fl[t] \in PoolLocals
      /\ Kind(pc[t]) = "adding" /\ Hand(t) = b /\ Ref(t) = 0 /\ fl[t].head \in {0} \cup Pooled
  BY <1>1, <1>2, <1>3, AddingIs
<1>5. CASE AddHead(t)
  <2>1. pc'[t] = "addnext" /\ fl'[t] = [fl[t] EXCEPT !.to = freeListHead] /\ UNCHANGED poolVars
    BY <1>5, SettingIs DEF AddHead
  <2>2. fl'[t].block = b /\ fl'[t].head = fl[t].head /\ fl'[t].to = freeListHead
    BY <1>1, <1>4, <2>1, Fields
  <2>3. Kind(pc'[t]) = "adding" /\ Hand(t)' = b /\ Ref(t)' = 0 /\ Knows(t)'
    BY <1>4, <2>1, <2>2, SettingIs DEF Kind, Hand, Ref, Knows, AddLabels
  <2> QED
    BY <1>4, <2>1, <2>3, PlaceKept DEF poolVars, ExceptAt
<1>6. CASE AddNext(t)
  <2>1. /\ pc[t] = "addnext" /\ pc'[t] = "addrefs" /\ fl' = fl
        /\ freeListNext' = [freeListNext EXCEPT ![b] = fl[t].to]
        /\ UNCHANGED <<poolIndex, heap, freeListHead, freeListRefs>>
    BY <1>1, <1>6, SettingIs DEF AddNext
  <2>2. freeListNext'[b] = fl[t].to /\ ExceptAt(freeListNext, freeListNext', b)
    BY <1>4, <2>1 DEF Setting, BaseInv, PoolTypes, ExceptAt
  <2>3. fl[t].to \in {0} \cup Pooled
    BY <2>1, SettingIs DEF Knows
  <2>4. Kind(pc'[t]) = "adding" /\ Hand(t)' = b /\ Ref(t)' = 0 /\ Knows(t)'
    BY <1>1, <1>4, <2>1, <2>2, <2>3 DEF Kind, Hand, Ref, Knows, AddLabels
  <2> QED
    BY <1>4, <2>1, <2>2, <2>4, PlaceKept
<1> QED
  BY <1>5, <1>6

\* The block in the hand is offered to the list with a count of one.
LEMMA AddRefsPlaced ==
  ASSUME NEW t, NEW K, NEW W, NEW P, NEW E, NEW L, NEW n, Setting(t, K, W, P, E, L, n), Pool(t),
         AddRefs(t)
  PROVE  Placed'
<1>1. PICK b : b = fl[t].block
  OBVIOUS
<1>2. /\ pc[t] = "addrefs" /\ pc'[t] = "addcas" /\ fl' = fl
      /\ freeListRefs' = [freeListRefs EXCEPT ![b] = 1]
      /\ UNCHANGED <<poolIndex, heap, freeListHead, freeListNext>>
  BY <1>1, SettingIs DEF AddRefs
<1>3. pc[t] \in AddLabels \ {"addblock"}
  BY <1>2 DEF AddLabels
<1>4. /\ b \in Pooled /\ b \in Blocks /\ b # 0 /\ b <= poolSize /\ poolSize' = poolSize
      /\ Pooled' = Pooled /\ Kind(pc[t]) = "adding" /\ Hand(t) = b /\ Ref(t) = 0
      /\ K[b] = "adding" /\ W[b] = t /\ Counts(b, K[b]) /\ fl[t].head \in {0} \cup Pooled
  BY <1>1, <1>2, <1>3, AddingIs
<1>5. Kind(pc'[t]) = "offered" /\ Hand(t)' = b /\ Ref(t)' = 0
  BY <1>1, <1>2 DEF Kind, Hand, Ref
<1>6. Knows(t)'
  <2>1. fl[t].to \in {0} \cup Pooled /\ freeListNext[b] = fl[t].to
    BY <1>1, <1>2, SettingIs DEF Knows
  <2> QED
    BY <1>1, <1>2, <1>4, <2>1 DEF Knows, AddLabels
<1>7. PICK K1 : K1 = [c \in Blocks |-> IF c = b THEN "offered" ELSE K[c]]
  OBVIOUS
<1>8. ExceptAt(K, K1, b) /\ K1[b] = "offered" /\ ExceptAt(W, W, b)
  BY <1>4, <1>7 DEF ExceptAt
<1>9. Counts(b, K1[b])'
  <2>1. Referrers(b)' = Referrers(b) /\ Referrers(b) = {}
    BY <1>4, <1>5, SettingIs, ReferrersKept DEF Counts, PooledCounts
  <2>2. freeListRefs'[b] = 1 + Cardinality(Referrers(b)')
    BY <1>2, <1>4, <2>1, FS_EmptySet DEF Setting, BaseInv, PoolTypes
  <2> QED
    BY <1>2, <1>4, <1>8, <2>1, <2>2 DEF Counts, PooledCounts, Weight
<1>10. ExceptAt(freeListRefs, freeListRefs', b)
  BY <1>2 DEF Setting, BaseInv, PoolTypes, ExceptAt
<1>11. PlaceStep(t, b, K, W, K1, W)
  BY <1>4, <1>5, <1>8 DEF PlaceStep, HandKinds, Kinds
<1>12. CountStep(t, b, K, W, K1)
  BY <1>2, <1>4, <1>5, <1>6, <1>8, <1>9, <1>10 DEF CountStep, ExceptAt
<1> QED
  BY <1>2, <1>4, <1>8, <1>11, <1>12, PlaceMovedOffList

\* The block is put on the list, or the head has changed.
LEMMA AddCasPlaced ==
  ASSUME NEW t, NEW K, NEW W, NEW P, NEW E, NEW L, NEW n, Setting(t, K, W, P, E, L, n), Pool(t),
         AddCas(t)
  PROVE  Placed'
<1>1. PICK b : b = fl[t].block
  OBVIOUS
<1>2. pc[t] = "addcas" /\ UNCHANGED <<poolIndex, heap, freeListRefs, freeListNext>>
  BY DEF AddCas
<1>3. pc[t] \in AddLabels \ {"addblock"} /\ pc[t] \in AddLabels
  BY <1>2 DEF AddLabels
<1>4. /\ b \in Pooled /\ b \in Blocks /\ b # 0 /\ b <= poolSize /\ poolSize' = poolSize
      /\ Pooled' = Pooled /\ Kind(pc[t]) = "offered" /\ Hand(t) = b /\ Ref(t) = 0
      /\ K[b] = "offered" /\ W[b] = t /\ Counts(b, K[b]) /\ fl[t] \in PoolLocals
      /\ fl[t].head \in {0} \cup Pooled
  BY <1>1, <1>2, <1>3, AddingIs
<1>5. CASE freeListHead # fl[t].to
  <2>1. pc'[t] = "addretry" /\ fl'[t] = [fl[t] EXCEPT !.to = freeListHead] /\ UNCHANGED freeListHead
    BY <1>5, SettingIs DEF AddCas
  <2>2. fl'[t].block = b /\ fl'[t].head = fl[t].head /\ fl'[t].to = freeListHead
    BY <1>1, <1>4, <2>1, Fields
  <2>3. Kind(pc'[t]) = "offered" /\ Hand(t)' = b /\ Ref(t)' = 0 /\ Knows(t)'
    BY <1>4, <2>1, <2>2, SettingIs DEF Kind, Hand, Ref, Knows, AddLabels
  <2> QED
    BY <1>2, <1>4, <2>1, <2>3, PlaceKept DEF ExceptAt
<1>6. CASE freeListHead = fl[t].to
  <2>1. freeListHead' = b /\ Added(t)
    BY <1>1, <1>6 DEF AddCas
  <2>2. Kind(pc'[t]) = "none" /\ Ref(t)' = 0 /\ Knows(t)'
    BY <1>3, <2>1, AddedKnows
  <2>3. freeListNext[b] = freeListHead
    BY <1>1, <1>2, <1>6, SettingIs DEF Knows
  <2>4. PICK K1 : K1 = [c \in Blocks |-> IF c = b THEN "listed" ELSE K[c]]
    OBVIOUS
  <2>5. ExceptAt(K, K1, b) /\ K1[b] = "listed" /\ ExceptAt(W, W, b)
    BY <1>4, <2>4 DEF ExceptAt
  <2>6. Counts(b, K1[b])'
    <3>1. Referrers(b)' = Referrers(b)
      BY <1>4, <2>2, SettingIs, ReferrersKept
    <3> QED
      BY <1>2, <1>4, <2>5, <3>1 DEF Counts, PooledCounts, Weight
  <2>7. PlaceStep(t, b, K, W, K1, W)
    BY <1>4, <2>2, <2>5 DEF PlaceStep, HandKinds, Kinds
  <2>8. CountStep(t, b, K, W, K1)
    BY <1>2, <1>4, <2>2, <2>5, <2>6 DEF CountStep, ExceptAt
  <2>9. \E L1, n1 : ListInv(K1, L1, n1)'
    <3>1. ListInv(K, L, n)
      BY DEF Setting, PlacedAs
    <3> QED
      BY <1>2, <1>4, <2>1, <2>3, <2>5, <3>1, ListPushed
  <2> QED
    BY <2>7, <2>8, <2>9, PlaceMoved
<1> QED
  BY <1>5, <1>6

\* The exchange has failed: back to zero, or leave it to those that refer to it.
LEMMA AddRetryPlaced ==
  ASSUME NEW t, NEW K, NEW W, NEW P, NEW E, NEW L, NEW n, Setting(t, K, W, P, E, L, n), Pool(t),
         AddRetry(t)
  PROVE  Placed'
<1>1. PICK b : b = fl[t].block
  OBVIOUS
<1>2. /\ pc[t] = "addretry" /\ UNCHANGED <<poolIndex, heap, freeListHead, freeListNext>>
      /\ freeListRefs' = [freeListRefs EXCEPT ![b] = @ + (SHOULD_BE_ON_FREELIST - 1)]
  BY <1>1 DEF AddRetry, AddToRefs
<1>3. pc[t] \in AddLabels \ {"addblock"} /\ pc[t] \in AddLabels
  BY <1>2 DEF AddLabels
<1>4. /\ b \in Pooled /\ b \in Blocks /\ b # 0 /\ b <= poolSize /\ poolSize' = poolSize
      /\ Pooled' = Pooled /\ Kind(pc[t]) = "offered" /\ Hand(t) = b /\ Ref(t) = 0
      /\ K[b] = "offered" /\ W[b] = t /\ Counts(b, K[b]) /\ fl[t].head \in {0} \cup Pooled
  BY <1>1, <1>2, <1>3, AddingIs
<1>5. /\ heap[b] = 0 /\ ~ (b > poolIndex) /\ freeListRefs[b] = 1 + Cardinality(Referrers(b))
  BY <1>4 DEF Counts, PooledCounts, Weight
<1>6. /\ Cardinality(Referrers(b)) \in Nat
      /\ Cardinality(Referrers(b)) = 0 <=> Referrers(b) = {}
  BY ReferrersCount DEF Setting
<1>7. /\ freeListRefs'[b] = SHOULD_BE_ON_FREELIST + Cardinality(Referrers(b))
      /\ ExceptAt(freeListRefs, freeListRefs', b)
  <2>1. freeListRefs'[b] = freeListRefs[b] + (SHOULD_BE_ON_FREELIST - 1)
        /\ ExceptAt(freeListRefs, freeListRefs', b)
    BY <1>2, <1>4 DEF Setting, BaseInv, PoolTypes, ExceptAt
  <2> QED
    BY <1>5, <1>6, <2>1 DEF SHOULD_BE_ON_FREELIST
<1>8. CASE freeListRefs[b] = 1
  <2>1. pc'[t] = "addnext" /\ fl' = fl /\ Referrers(b) = {}
    BY <1>1, <1>5, <1>6, <1>8, SettingIs DEF AddRetry
  <2>2. Kind(pc'[t]) = "adding" /\ Hand(t)' = b /\ Ref(t)' = 0
    BY <1>1, <2>1 DEF Kind, Hand, Ref
  <2>3. Knows(t)'
    <3>1. fl[t].to \in {0} \cup Pooled
      BY <1>2, SettingIs DEF Knows
    <3> QED
      BY <1>1, <1>4, <2>1, <3>1 DEF Knows, AddLabels
  <2>4. PICK K1 : K1 = [c \in Blocks |-> IF c = b THEN "adding" ELSE K[c]]
    OBVIOUS
  <2>5. ExceptAt(K, K1, b) /\ K1[b] = "adding" /\ ExceptAt(W, W, b)
    BY <1>4, <2>4 DEF ExceptAt
  <2>6. Counts(b, K1[b])'
    <3>1. Referrers(b)' = Referrers(b)
      BY <1>4, <2>2, SettingIs, ReferrersKept
    <3> QED
      BY <1>2, <1>4, <1>5, <1>7, <2>1, <2>5, <3>1 DEF Counts, PooledCounts, Weight
  <2>7. PlaceStep(t, b, K, W, K1, W)
    BY <1>4, <2>2, <2>5 DEF PlaceStep, HandKinds, Kinds
  <2>8. CountStep(t, b, K, W, K1)
    BY <1>2, <1>4, <1>7, <2>2, <2>3, <2>5, <2>6 DEF CountStep, ExceptAt
  <2> QED
    BY <1>2, <1>4, <2>5, <2>7, <2>8, PlaceMovedOffList
<1>9. CASE freeListRefs[b] # 1
  <2>1. Added(t) /\ Referrers(b) # {}
    BY <1>1, <1>5, <1>6, <1>9 DEF AddRetry
  <2>2. Kind(pc'[t]) = "none" /\ Ref(t)' = 0 /\ Knows(t)'
    BY <1>3, <2>1, AddedKnows
  <2>4. PICK K1 : K1 = [c \in Blocks |-> IF c = b THEN "owed" ELSE K[c]]
    OBVIOUS
  <2>5. ExceptAt(K, K1, b) /\ K1[b] = "owed" /\ ExceptAt(W, W, b)
    BY <1>4, <2>4 DEF ExceptAt
  <2>6. Counts(b, K1[b])'
    <3>1. Referrers(b)' = Referrers(b)
      BY <1>4, <2>2, SettingIs, ReferrersKept
    <3> QED
      BY <1>2, <1>4, <1>5, <1>7, <2>1, <2>5, <3>1 DEF Counts, PooledCounts, Weight
  <2>7. PlaceStep(t, b, K, W, K1, W)
    BY <1>4, <2>2, <2>5 DEF PlaceStep, HandKinds, Kinds
  <2>8. CountStep(t, b, K, W, K1)
    BY <1>2, <1>4, <1>7, <2>2, <2>5, <2>6 DEF CountStep, ExceptAt
  <2> QED
    BY <1>2, <1>4, <2>5, <2>7, <2>8, PlaceMovedOffList
<1> QED
  BY <1>8, <1>9

\* Every step of BlockPool leaves each block in one place.
LEMMA PoolPlaced ==
  ASSUME BaseInv, BaseInv', FewThreads, Placed, NEW t \in Threads, Pool(t)
  PROVE  Placed'
<1>1. PICK K, W, P, E, L, n : PlacedAs(K, W, P, E, L, n)
  BY DEF Placed
<1>2. Setting(t, K, W, P, E, L, n)
  BY <1>1 DEF Setting
<1> QED
  BY <1>2, PoolTestPlaced, PoolIncrementPlaced, GetLoadPlaced, GetRefsPlaced, GetIncrementPlaced,
     GetNextPlaced, GetCasPlaced, GetDonePlaced, GetDecrementPlaced, CreatePlaced, AddBlockPlaced,
     AddHeadPlaced, AddRefsPlaced, AddCasPlaced, AddRetryPlaced DEF Pool

-----------------------------------------------------------------------------
\* A step outside BlockPool, which moves at most a block between a hand and an entry.
LEMMA PlacedOutside ==
  ASSUME BaseInv, BaseInv', NEW t \in Threads, NEW K, NEW W, NEW P, NEW E, NEW L, NEW n,
         PlacedAs(K, W, P, E, L, n),
         \A u \in Threads : u # t => pc'[u] = pc[u] /\ fl'[u] = fl[u],
         UNCHANGED <<poolVars, poolSize>>, Ref(t) = 0, Ref(t)' = 0, Knows(t)',
         NEW b, NEW K1, NEW W1, NEW P1, NEW E1, ExceptAt(K, K1, b),
         b \in Blocks =>
           \/ K1[b] = K[b]
           \/ K[b] \in {"held", "stored"} /\ K1[b] \in {"held", "stored"},
         HandsInv(K1, W1)', StoredInv(K1, P1, E1)'
  PROVE  Placed'
<1>0. /\ \A c \in Blocks : K[c] \in Kinds
      /\ HandsInv(K, W) /\ CountsInv(K) /\ KnowsInv /\ ListInv(K, L, n) /\ PoolTypes
  BY DEF PlacedAs, BaseInv
<1>1. UNCHANGED <<poolIndex, heap, freeListHead, freeListRefs, freeListNext>>
  BY DEF poolVars
<1>2. CountsInv(K1)'
  <2>1. b \in Blocks => Counts(b, K1[b])'
    <3> SUFFICES ASSUME b \in Blocks PROVE Counts(b, K1[b])'
      OBVIOUS
    <3>1. Referrers(b)' = Referrers(b)
      BY ReferrersKept
    <3>2. Counts(b, K[b])
      BY <1>0 DEF CountsInv
    <3>3. Counts(b, K[b])'
      BY <1>1, <3>1, <3>2 DEF Counts, PooledCounts, HeapCounts
    <3>4. CASE K1[b] = K[b]
      BY <3>3, <3>4
    <3>5. CASE K[b] \in {"held", "stored"} /\ K1[b] \in {"held", "stored"}
      BY <3>3, <3>5 DEF Counts, PooledCounts, HeapCounts, Weight
    <3> QED
      BY <3>4, <3>5
  <2> QED
    BY <1>0, <1>1, <2>1, CountsKept DEF ExceptAt
<1>3. KnowsInv'
  BY <1>0, <1>1, KnowsKept DEF ExceptAt
<1>4. ListInv(K1, L, n)'
  BY <1>0, <1>1, ListKept DEF ExceptAt
<1>5. \A c \in Blocks : K1[c] \in Kinds
  BY <1>0 DEF Kinds, HandKinds, ExceptAt
<1>6. PlacedAs(K1, W1, P1, E1, L, n)'
  BY <1>2, <1>3, <1>4, <1>5 DEF PlacedAs
<1> QED
  BY <1>6 DEF Placed

\* A step that moves no block.
LEMMA PlacedStill ==
  ASSUME BaseInv, BaseInv', Placed, NEW t \in Threads,
         \A u \in Threads : u # t => pc'[u] = pc[u] /\ fl'[u] = fl[u],
         UNCHANGED <<poolVars, poolSize>>, Ref(t) = 0, Ref(t)' = 0, Knows(t)', SameValues,
         Kind(pc[t]) = "none" \/ Hand(t) = 0, Kind(pc'[t]) = "none"
  PROVE  Placed'
<1>1. PICK K, W, P, E, L, n : PlacedAs(K, W, P, E, L, n)
  BY DEF Placed
<1>2. 0 \notin Blocks /\ PoolTypes /\ PoolTypes' /\ ProducerTypes
  BY BlocksAssumption DEF Blocks, BaseInv
<1>3. HandsInv(K, W)'
  <2>1. HandsInv(K, W)
    BY <1>1 DEF PlacedAs
  <2>2. ExceptAt(K, K, 0) /\ ExceptAt(W, W, 0)
    BY DEF ExceptAt
  <2> QED
    BY <1>2, <2>1, <2>2, HandsKept
<1>4. StoredInv(K, P, E)'
  <2>1. StoredInv(K, P, E)
    BY <1>1 DEF PlacedAs
  <2>2. ExceptAt(K, K, 0)
    BY DEF ExceptAt
  <2> QED
    BY <1>2, <2>1, <2>2, StoredKept
<1>5. ExceptAt(K, K, 0)
  BY DEF ExceptAt
<1> QED
  BY <1>1, <1>2, <1>3, <1>4, <1>5, PlacedOutside

\* The labels at which a thread has no block in its hand and refers to none.
Idle(l) == l \notin {"gotblock", "addblock", "getrefs", "getinc", "getnext", "getcas", "getsub",
                     "getdec", "addhead", "addnext", "addrefs", "addcas", "addretry"}

\* There they have nothing to know.
LEMMA IdleKnows ==
  ASSUME NEW t
  PROVE  /\ Idle(pc[t]) => Kind(pc[t]) = "none" /\ Ref(t) = 0 /\ Knows(t)
         /\ Idle(pc'[t]) => Kind(pc'[t]) = "none" /\ Ref(t)' = 0 /\ Knows(t)'
BY DEF Idle, Kind, Ref, Knows, AddLabels

\* The steps of the tables and of the callers move no block.
LEMMA TablePlaced ==
  ASSUME BaseInv, BaseInv', Placed, NEW t \in Threads, Table(t)
  PROVE  Placed'
<1>1. CalmStep(t)
  BY TableCalm DEF BaseInv
<1>2. /\ \A u \in Threads : u # t => pc'[u] = pc[u] /\ fl'[u] = fl[u]
      /\ UNCHANGED <<poolVars, poolSize, producerVars>> /\ Idle(pc[t]) /\ Idle(pc'[t])
  BY <1>1 DEF CalmStep, CalmLabels, Idle
<1>3. SameValues
  <2>1. \A p \in Producers : Len(entries[p]) \in Nat
    BY CurrentIs DEF ProducerTypes, BaseInv
  <2> QED
    BY <1>2, <2>1 DEF SameValues, producerVars, Entries
<1> QED
  BY <1>2, <1>3, IdleKnows, PlacedStill

\* An entry without a block or with one, and what its enqueue or dequeue knows of it.
Opened(t) == ql[t].entry \in Entries(ql[t].p) /\ entries[ql[t].p][ql[t].entry].value = 0
Closes(t) ==
  /\ ql[t].entry \in Entries(ql[t].p) /\ ql[t].block # 0
  /\ entries[ql[t].p][ql[t].entry].value = ql[t].block
EntryInv ==
  \A t \in Threads : (pc[t] = "gotblock" => Opened(t)) /\ (pc[t] = "release" => Closes(t))

\* The value of an entry is set.
ValueSet(p, e, x) ==
  /\ \A q \in Producers : Len(entries'[q]) = Len(entries[q])
  /\ \A q \in Producers : \A f \in Entries(q) :
       entries'[q][f].value = IF q = p /\ f = e THEN x ELSE entries[q][f].value

\* The assignment to the value of one entry does so.
LEMMA ValueIsSet ==
  ASSUME ProducerTypes, NEW p \in Producers, NEW e \in Entries(p), NEW x \in Addresses,
         entries' = [entries EXCEPT ![p][e].value = x]
  PROVE  ValueSet(p, e, x)
<1>1. entries \in [Producers -> Seq(IndexEntry)]
  BY DEF ProducerTypes, IndexTypes
<1>2. \A q \in Producers : entries[q] \in Seq(IndexEntry)
  BY <1>1
<1>3. entries[p][e] \in IndexEntry
  BY <1>2, ElementOfSeq DEF Entries
<1>4. PICK r : r = [entries[p][e] EXCEPT !.value = x]
  OBVIOUS
<1>5. r \in IndexEntry /\ r.value = x
  BY <1>3, <1>4 DEF IndexEntry
<1>6. PICK s : s = [entries[p] EXCEPT ![e] = r]
  OBVIOUS
<1>7. Len(s) = Len(entries[p]) /\ \A j \in 1 .. Len(entries[p]) :
        s[j] = IF j = e THEN r ELSE entries[p][j]
  BY <1>2, <1>5, <1>6, SeqWritten
<1>8. entries' = [entries EXCEPT ![p] = s]
  BY <1>4, <1>6
<1>9. \A q \in Producers : entries'[q] = IF q = p THEN s ELSE entries[q]
  BY <1>1, <1>8
<1> QED
  BY <1>5, <1>7, <1>9 DEF ValueSet, Entries

-----------------------------------------------------------------------------
\* What all the steps of ImplicitProducer have in common here.
LEMMA ProducerSetting ==
  ASSUME BaseInv, NEW t \in Threads, Producer(t)
  PROVE  /\ \A l : Go(t, l) => pc'[t] = l
         /\ \A v : Locals(t, v) => fl'[t] = v
         /\ \A w : Remember(t, w) => ql'[t] = w
         /\ \A u \in Threads : u # t => pc'[u] = pc[u] /\ fl'[u] = fl[u] /\ ql'[u] = ql[u]
         /\ UNCHANGED <<poolVars, poolSize>>
         /\ pc[t] \in ProducerLabels /\ ql[t].p \in 1 .. producers /\ ql[t].p \in Producers
         /\ ql'[t].p = ql[t].p /\ ql[t] \in ElementLocals
         /\ \A p \in Producers : Len(entries[p]) \in Nat
<1>1. Works(t)
  BY ProducerWorks DEF BaseInv, ProducerTypes
<1>2. WorkStep(t)
  BY <1>1, WorksWork DEF BaseInv, QueueInv
<1>3. UNCHANGED poolVars
  BY DEF Producer, Enqueue, Insert, InsertTail, GotNoBlock, GotBlock, Construct, Publish, Dequeue,
         CountIn, Recheck, OverCommit, Claim, Lookup, Entry, Take, SetEmpty, Release
<1>4. \A p \in Producers : Len(entries[p]) \in Nat
  BY CurrentIs DEF ProducerTypes, BaseInv
<1>5. ql[t].p \in 1 .. producers /\ ql[t].p \in Producers
  BY <1>2, ProducerAssumption DEF WorkStep, BaseInv, RangeInv, Ranged, Producers
<1> QED
  BY <1>2, <1>3, <1>4, <1>5, Assigned
     DEF WorkStep, BaseInv, QueueInv, ProducerTypes

\* The entry that the next block of p goes to.
NextEntry(p) == Slot(Current(p), Current(p).tail + 1)

\* It is an entry of the index.
LEMMA NextEntryIs ==
  ASSUME ProducerTypes, NEW p \in Producers
  PROVE  NextEntry(p) \in Entries(p)
<1>1. Len(entries[p]) \in Nat /\ Current(p) \in Header(Len(entries[p])) /\ IndexTypes
  BY CurrentIs DEF ProducerTypes
<1>2. Current(p).tail + 1 \in Int
  BY <1>1 DEF Header
<1> QED
  BY <1>1, <1>2, SlotIs DEF NextEntry, Entries

\* A new key leaves the values, and new entries have none.
LEMMA InsertKeepsValues ==
  ASSUME BaseInv, BaseInv', NEW t \in Threads, Insert(t)
  PROVE  SameValues
<1>0. Producer(t) /\ IndexTypes
  BY DEF Producer, BaseInv, ProducerTypes
<1>a. /\ entries \in [Producers -> Seq(IndexEntry)]
      /\ \A q \in Producers : entries[q] \in Seq(IndexEntry) /\ Len(entries[q]) \in Nat
  BY <1>0, CurrentIs DEF IndexTypes
<1>1. PICK p : p = ql[t].p
  OBVIOUS
<1>b. p \in Producers
  BY <1>0, <1>1, ProducerSetting
<1>2. CASE NewBlockIndex(p)
  <2>1. PICK m, s : m = Capacity(Current(p)) /\ s = NewEntries(m)
    OBVIOUS
  <2>2. entries' = [entries EXCEPT ![p] = @ \o s]
    BY <1>2, <2>1 DEF NewBlockIndex
  <2>3. m \in Nat
    <3>1. Current(p) \in Header(Len(entries[p])) /\ Len(entries[p]) \in Nat
      BY <1>0, <1>b, CurrentIs
    <3> QED
      BY <2>1, <3>1, SlotIs
  <2>4. PICK x : x = [key |-> INVALID_BLOCK_BASE, value |-> 0]
    OBVIOUS
  <2>5. x.value = 0 /\ s = [i \in 1 .. m |-> x]
    BY <2>1, <2>4 DEF NewEntries
  <2>6. Len(s) = m /\ \A i \in 1 .. m : s[i].value = 0
    BY <2>3, <2>5
  <2>7. s \in Seq({x})
    BY <2>3, <2>5
  <2>8. PICK u : u = entries[p] \o s
    OBVIOUS
  <2>9. Len(u) = Len(entries[p]) + m
        /\ \A i \in 1 .. Len(entries[p]) + m :
             u[i] = IF i <= Len(entries[p]) THEN entries[p][i] ELSE s[i - Len(entries[p])]
    <3>1. entries[p] \in Seq(IndexEntry) /\ s \in Seq({x})
      BY <1>a, <1>b, <2>7
    <3>2. Len(u) = Len(entries[p]) + Len(s)
      BY <3>1, <2>8
    <3>3. \A i \in 1 .. Len(entries[p]) + Len(s) :
             u[i] = IF i <= Len(entries[p]) THEN entries[p][i] ELSE s[i - Len(entries[p])]
      BY <3>1, <2>8
    <3> QED
      BY <2>6, <3>2, <3>3
  <2>10. \A q \in Producers : entries'[q] = IF q = p THEN u ELSE entries[q]
    BY <1>a, <2>2, <2>8
  <2> SUFFICES ASSUME NEW q \in Producers
               PROVE  /\ Len(entries[q]) \in Nat /\ Len(entries'[q]) \in Nat
                      /\ Len(entries[q]) <= Len(entries'[q])
                      /\ \A e \in Entries(q) : entries'[q][e].value = entries[q][e].value
                      /\ \A e \in Entries(q)' : e \notin Entries(q) => entries'[q][e].value = 0
    BY DEF SameValues
  <2>11. CASE q # p
    BY <1>a, <2>10, <2>11 DEF Entries
  <2>12. CASE q = p
    <3>1. PICK a : a = Len(entries[p])
      OBVIOUS
    <3>2. entries'[q] = u /\ Len(u) = a + m /\ a \in Nat
      BY <1>a, <1>b, <2>9, <2>10, <2>12, <3>1
    <3>3. \A i \in 1 .. a : u[i] = entries[p][i]
      BY <2>3, <2>9, <3>1, <3>2
    <3>4. \A i \in 1 .. a + m : i \notin 1 .. a => u[i].value = 0
      <4> SUFFICES ASSUME NEW i \in 1 .. a + m, i \notin 1 .. a PROVE u[i].value = 0
        OBVIOUS
      <4>1. u[i] = s[i - a] /\ i - a \in 1 .. m
        BY <2>3, <2>9, <3>1, <3>2
      <4> QED
        BY <2>6, <4>1
    <3> QED
      BY <2>3, <2>12, <3>1, <3>2, <3>3, <3>4 DEF Entries
  <2> QED
    BY <2>11, <2>12
<1>3. CASE \E e : e \in Entries(p) /\ \E k \in Nat : entries' = [entries EXCEPT ![p][e].key = k]
  <2>1. PICK e \in Entries(p) : \E k \in Nat : entries' = [entries EXCEPT ![p][e].key = k]
    BY <1>3
  <2>2. PICK k \in Nat : entries' = [entries EXCEPT ![p][e].key = k]
    BY <2>1
  <2>3. entries[p][e] \in IndexEntry
    BY <1>a, <1>b, ElementOfSeq DEF Entries
  <2>4. PICK r : r = [entries[p][e] EXCEPT !.key = k]
    OBVIOUS
  <2>5. r \in IndexEntry /\ r.value = entries[p][e].value
    BY <2>3, <2>4 DEF IndexEntry
  <2>6. PICK s : s = [entries[p] EXCEPT ![e] = r]
    OBVIOUS
  <2>7. Len(s) = Len(entries[p]) /\ \A j \in 1 .. Len(entries[p]) :
          s[j] = IF j = e THEN r ELSE entries[p][j]
    BY <1>a, <1>b, <2>5, <2>6, SeqWritten
  <2>8. entries' = [entries EXCEPT ![p] = s]
    BY <2>2, <2>4, <2>6
  <2>9. \A q \in Producers : entries'[q] = IF q = p THEN s ELSE entries[q]
    BY <1>a, <2>8
  <2> QED
    BY <1>a, <2>5, <2>7, <2>9 DEF SameValues, Entries
<1>4. NewBlockIndex(p) \/ \E e : e \in Entries(p)
        /\ \E k \in Nat : entries' = [entries EXCEPT ![p][e].key = k]
  <2>1. NextEntry(p) \in Entries(p)
    BY <1>b, NextEntryIs DEF BaseInv
  <2>2. ql[t].index \in Nat
    BY DEF BaseInv, ProducerTypes, ElementLocals
  <2>3. \/ NewBlockIndex(p)
        \/ entries' = [entries EXCEPT ![p][NextEntry(p)].key = ql[t].index]
    BY <1>1 DEF Insert, NextEntry
  <2> QED
    BY <2>1, <2>2, <2>3
<1> QED
  BY <1>2, <1>3, <1>4

\* The steps that have nothing to do with blocks.
LEMMA SilentPlaced ==
  ASSUME BaseInv, BaseInv', Placed, NEW t \in Threads, Producer(t),
         ~ GotNoBlock(t), ~ GotBlock(t), ~ Release(t)
  PROVE  Placed'
<1>1. Idle(pc[t]) /\ Idle(pc'[t])
  <2>1. \A l : Go(t, l) => pc'[t] = l
    BY ProducerSetting
  <2> QED
    BY <2>1 DEF Producer, Enqueue, Insert, InsertTail, Construct, Publish, Dequeue,
         CountIn, Recheck, OverCommit, Claim, Lookup, Entry, Take, SetEmpty, Idle
<1>2. SameValues
  <2>1. CASE Insert(t)
    BY <2>1, InsertKeepsValues
  <2>2. CASE entries' = entries
    BY <2>2, ProducerSetting DEF SameValues, Entries
  <2>3. Insert(t) \/ entries' = entries
    BY DEF Producer, Enqueue, Insert, InsertTail, Construct, Publish, Dequeue,
         CountIn, Recheck, OverCommit, Claim, Lookup, Entry, Take, SetEmpty, producerVars
  <2> QED
    BY <2>1, <2>2, <2>3
<1> QED
  BY <1>1, <1>2, IdleKnows, ProducerSetting, PlacedStill

\* An enqueue that got no block clears an entry that has none.
LEMMA GotNoBlockPlaced ==
  ASSUME BaseInv, BaseInv', Placed, EntryInv, NEW t \in Threads, GotNoBlock(t)
  PROVE  Placed'
<1>0. Producer(t)
  BY DEF Producer
<1>1. pc[t] = "gotblock" /\ Hand(t) = 0 /\ Ref(t) = 0 /\ Opened(t)
  BY DEF GotNoBlock, Hand, Ref, EntryInv
<1>2. Idle(pc'[t])
  BY <1>0, ProducerSetting DEF GotNoBlock, Idle
<1>3. ValueSet(ql[t].p, ql[t].entry, 0)
  BY <1>0, <1>1, ProducerSetting, ValueIsSet DEF GotNoBlock, Opened, Addresses, BaseInv
<1>4. SameValues
  <2>1. \A q \in Producers : Entries(q)' = Entries(q)
    BY <1>3 DEF ValueSet, Entries
  <2>2. \A q \in Producers : \A e \in Entries(q) : entries'[q][e].value = entries[q][e].value
    BY <1>1, <1>3 DEF ValueSet, Opened
  <2> QED
    BY <1>0, <1>3, <2>1, <2>2, ProducerSetting DEF SameValues, ValueSet
<1> QED
  BY <1>0, <1>1, <1>2, <1>4, IdleKnows, ProducerSetting, PlacedStill

\* From the hand of t into an entry,
LEMMA GotBlockPlaced ==
  ASSUME BaseInv, BaseInv', Placed, EntryInv, NEW t \in Threads, GotBlock(t)
  PROVE  Placed'
<1>0. Producer(t)
  BY DEF Producer
<1>1. PICK K, W, P, E, L, n : PlacedAs(K, W, P, E, L, n)
  BY DEF Placed
<1>2. PICK b, p, e : b = fl[t].block /\ p = ql[t].p /\ e = ql[t].entry
  OBVIOUS
<1>3. /\ pc[t] = "gotblock" /\ Hand(t) = b /\ Ref(t) = 0 /\ b # 0
      /\ p \in Producers /\ e \in Entries(p) /\ entries[p][e].value = 0
      /\ entries' = [entries EXCEPT ![p][e].value = b]
  BY <1>0, <1>2, ProducerSetting DEF GotBlock, Hand, Ref, EntryInv, Opened
<1>4. Idle(pc'[t])
  BY <1>0, ProducerSetting DEF GotBlock, Idle
<1>5. b \in Blocks
  BY <1>2, <1>3 DEF BaseInv, PoolTypes, PoolLocals, Addresses
<1>6. K[b] = "held" /\ W[b] = t
  BY <1>1, <1>3 DEF PlacedAs, HandsInv, Kind
<1>7. ValueSet(p, e, b)
  BY <1>3, <1>5, ValueIsSet DEF Addresses, BaseInv
<1>8. PICK K1, P1, E1 : /\ K1 = [c \in Blocks |-> IF c = b THEN "stored" ELSE K[c]]
                        /\ P1 = [c \in Blocks |-> IF c = b THEN p ELSE P[c]]
                        /\ E1 = [c \in Blocks |-> IF c = b THEN e ELSE E[c]]
  OBVIOUS
<1>9. /\ ExceptAt(K, K1, b) /\ K1[b] = "stored" /\ P1[b] = p /\ E1[b] = e
      /\ \A c \in Blocks : c # b => P1[c] = P[c] /\ E1[c] = E[c]
  BY <1>5, <1>8 DEF ExceptAt
<1>10. HandsInv(K1, W)'
  <2>1. HandsInv(K, W) /\ ExceptAt(W, W, b) /\ PoolTypes /\ PoolTypes'
    BY <1>1 DEF PlacedAs, ExceptAt, BaseInv
  <2>2. Kind(pc'[t]) = "none"
    BY <1>4, IdleKnows
  <2>3. \A u \in Threads : u # t => pc'[u] = pc[u] /\ fl'[u] = fl[u]
    BY <1>0, ProducerSetting
  <2> QED
    BY <1>3, <1>6, <1>9, <2>1, <2>2, <2>3, HandsKept DEF HandKinds
<1>11. StoredInv(K1, P1, E1)'
  <2>0. StoredInv(K, P, E)
    BY <1>1 DEF PlacedAs
  <2>a. \A q \in Producers : Entries(q)' = Entries(q)
    BY <1>7 DEF ValueSet, Entries
  <2>1. ASSUME NEW q \in Producers, NEW f \in Entries(q)', entries'[q][f].value # 0
        PROVE  LET c == entries'[q][f].value IN K1[c] = "stored" /\ P1[c] = q /\ E1[c] = f
    <3>1. CASE q = p /\ f = e
      BY <1>3, <1>7, <1>9, <3>1 DEF ValueSet
    <3>2. CASE ~ (q = p /\ f = e)
      <4>1. f \in Entries(q) /\ entries'[q][f].value = entries[q][f].value
        BY <1>7, <2>a, <3>2 DEF ValueSet
      <4>2. PICK c : c = entries[q][f].value
        OBVIOUS
      <4>3. K[c] = "stored" /\ P[c] = q /\ E[c] = f
        BY <2>0, <2>1, <4>1, <4>2 DEF StoredInv
      <4>4. c \in Blocks
        <5>1. entries[q][f] \in IndexEntry
          BY <4>1, ElementOfSeq DEF BaseInv, ProducerTypes, IndexTypes, Entries
        <5> QED
          BY <2>1, <4>1, <4>2, <5>1 DEF IndexEntry, Addresses
      <4>5. c # b
        BY <1>6, <4>3
      <4> QED
        BY <1>9, <4>1, <4>2, <4>3, <4>4, <4>5 DEF ExceptAt
    <3> QED
      BY <3>1, <3>2
  <2>2. ASSUME NEW c \in Blocks, K1[c] = "stored"
        PROVE  P1[c] \in Producers /\ E1[c] \in Entries(P1[c])' /\ entries'[P1[c]][E1[c]].value = c
    <3>1. CASE c = b
      BY <1>3, <1>7, <1>9, <2>a, <3>1 DEF ValueSet
    <3>2. CASE c # b
      <4>1. PICK q, f : q = P[c] /\ f = E[c]
        OBVIOUS
      <4>2. q \in Producers /\ f \in Entries(q) /\ entries[q][f].value = c
        BY <1>9, <2>0, <2>2, <3>2, <4>1 DEF StoredInv, ExceptAt
      <4>3. ~ (q = p /\ f = e)
        BY <1>3, <4>2, BlocksAssumption DEF Blocks
      <4>4. entries'[q][f].value = c
        BY <1>7, <4>2, <4>3 DEF ValueSet
      <4> QED
        BY <1>9, <2>a, <3>2, <4>1, <4>2, <4>4
    <3> QED
      BY <3>1, <3>2
  <2> QED
    BY <2>1, <2>2 DEF StoredInv
<1>12. /\ \A u \in Threads : u # t => pc'[u] = pc[u] /\ fl'[u] = fl[u]
       /\ UNCHANGED <<poolVars, poolSize>> /\ Ref(t)' = 0 /\ Knows(t)'
  BY <1>0, <1>4, IdleKnows, ProducerSetting
<1> QED
  BY <1>1, <1>3, <1>6, <1>9, <1>10, <1>11, <1>12, PlacedOutside

\* and from an entry into the hand of t.
LEMMA ReleasePlaced ==
  ASSUME BaseInv, BaseInv', Placed, EntryInv, NEW t \in Threads, Release(t)
  PROVE  Placed'
<1>0. Producer(t)
  BY DEF Producer
<1>1. PICK K, W, P, E, L, n : PlacedAs(K, W, P, E, L, n)
  BY DEF Placed
<1>2. PICK b, p, e : b = ql[t].block /\ p = ql[t].p /\ e = ql[t].entry
  OBVIOUS
<1>3. /\ pc[t] = "release" /\ b # 0 /\ p \in Producers /\ e \in Entries(p)
      /\ entries[p][e].value = b
      /\ entries' = [entries EXCEPT ![p][e].value = 0]
  BY <1>0, <1>2, ProducerSetting DEF Release, EntryInv, Closes
<1>4. pc'[t] = "addblock" /\ fl'[t].block = b /\ fl'[t].head = 0
  <2>1. pc'[t] = "addblock" /\ fl'[t] = [NoBlock EXCEPT !.block = b]
    BY <1>0, <1>2, ProducerSetting DEF Release
  <2> QED
    BY <2>1, Fields
<1>5. b \in Blocks
  BY <1>2, <1>3 DEF BaseInv, ProducerTypes, ElementLocals
<1>6. K[b] = "stored" /\ P[b] = p /\ E[b] = e
  BY <1>1, <1>3 DEF PlacedAs, StoredInv
<1>7. ValueSet(p, e, 0)
  BY <1>3, ValueIsSet DEF Addresses, BaseInv
<1>8. PICK K1, W1 : /\ K1 = [c \in Blocks |-> IF c = b THEN "held" ELSE K[c]]
                    /\ W1 = [c \in Blocks |-> IF c = b THEN t ELSE W[c]]
  OBVIOUS
<1>9. ExceptAt(K, K1, b) /\ K1[b] = "held" /\ ExceptAt(W, W1, b) /\ W1[b] = t
  BY <1>5, <1>8 DEF ExceptAt
<1>a. \A u \in Threads : u # t => pc'[u] = pc[u] /\ fl'[u] = fl[u]
  BY <1>0, ProducerSetting
<1>10. HandsInv(K1, W1)'
  <2>1. HandsInv(K, W) /\ PoolTypes /\ PoolTypes'
    BY <1>1 DEF PlacedAs, BaseInv
  <2>2. Kind(pc'[t]) = "held" /\ Hand(t)' = b /\ Kind(pc[t]) = "none"
    BY <1>3, <1>4 DEF Kind, Hand
  <2> QED
    BY <1>6, <1>9, <1>a, <2>1, <2>2, HandsKept DEF HandKinds
<1>11. StoredInv(K1, P, E)'
  <2>0. StoredInv(K, P, E)
    BY <1>1 DEF PlacedAs
  <2>a. \A q \in Producers : Entries(q)' = Entries(q)
    BY <1>7 DEF ValueSet, Entries
  <2>1. ASSUME NEW q \in Producers, NEW f \in Entries(q)', entries'[q][f].value # 0
        PROVE  LET c == entries'[q][f].value IN K1[c] = "stored" /\ P[c] = q /\ E[c] = f
    <3>1. ~ (q = p /\ f = e)
      BY <1>7, <2>1, <2>a DEF ValueSet
    <3>2. f \in Entries(q) /\ entries'[q][f].value = entries[q][f].value
      BY <1>7, <2>a, <3>1 DEF ValueSet
    <3>3. PICK c : c = entries[q][f].value
      OBVIOUS
    <3>4. K[c] = "stored" /\ P[c] = q /\ E[c] = f
      BY <2>0, <2>1, <3>2, <3>3 DEF StoredInv
    <3>5. c \in Blocks
      <4>1. entries[q][f] \in IndexEntry
        BY <3>2, ElementOfSeq DEF BaseInv, ProducerTypes, IndexTypes, Entries
      <4> QED
        BY <2>1, <3>2, <3>3, <4>1 DEF IndexEntry, Addresses
    <3>6. c # b
      BY <1>6, <3>1, <3>4
    <3> QED
      BY <1>9, <3>2, <3>3, <3>4, <3>5, <3>6 DEF ExceptAt
  <2>2. ASSUME NEW c \in Blocks, K1[c] = "stored"
        PROVE  P[c] \in Producers /\ E[c] \in Entries(P[c])' /\ entries'[P[c]][E[c]].value = c
    <3>1. c # b
      BY <1>9, <2>2
    <3>2. PICK q, f : q = P[c] /\ f = E[c]
      OBVIOUS
    <3>3. q \in Producers /\ f \in Entries(q) /\ entries[q][f].value = c
      BY <1>9, <2>0, <2>2, <3>1, <3>2 DEF StoredInv, ExceptAt
    <3>4. ~ (q = p /\ f = e)
      BY <1>3, <3>1, <3>3
    <3>5. entries'[q][f].value = c
      BY <1>7, <3>3, <3>4 DEF ValueSet
    <3> QED
      BY <2>a, <3>2, <3>3, <3>5
  <2> QED
    BY <2>1, <2>2 DEF StoredInv
<1>12. Ref(t) = 0 /\ Ref(t)' = 0 /\ Knows(t)'
  BY <1>3, <1>4 DEF Ref, Knows, AddLabels
<1>13. UNCHANGED <<poolVars, poolSize>>
  BY <1>0, ProducerSetting
<1> QED
  BY <1>1, <1>6, <1>9, <1>10, <1>11, <1>12, <1>13, <1>a, PlacedOutside

\* Every step of ImplicitProducer leaves each block in one place.
LEMMA ProducerPlaced ==
  ASSUME BaseInv, BaseInv', Placed, EntryInv, NEW t \in Threads, Producer(t)
  PROVE  Placed'
BY SilentPlaced, GotNoBlockPlaced, GotBlockPlaced, ReleasePlaced

\* All the blocks are unused at first.
LEMMA PlacedStarts ==
  ASSUME Init
  PROVE  Placed
<1>1. PICK K : K = [b \in Blocks |-> "unused"]
  OBVIOUS
<1>0. \A b \in Blocks : K[b] = "unused"
  BY <1>1
<1>2. \A t \in Threads : Kind(pc[t]) = "none" /\ Ref(t) = 0 /\ Knows(t)
  BY DEF Init, Kind, Ref, Knows, AddLabels
<1>3. HandsInv(K, K)
  BY <1>0, <1>2 DEF HandsInv, HandKinds
<1>4. StoredInv(K, K, K)
  <2>1. \A p \in Producers : entries[p] = NewEntries(IMPLICIT_INITIAL_INDEX_SIZE)
    BY DEF Init, ProducerInit
  <2>2. PICK s, m, x : /\ s = NewEntries(IMPLICIT_INITIAL_INDEX_SIZE)
                       /\ m = IMPLICIT_INITIAL_INDEX_SIZE
                       /\ x = [key |-> INVALID_BLOCK_BASE, value |-> 0]
    OBVIOUS
  <2>3. s = [i \in 1 .. m |-> x] /\ x.value = 0 /\ m \in Nat
    BY <2>2, ProducerAssumption DEF NewEntries
  <2>4. Len(s) = m /\ \A i \in 1 .. m : s[i].value = 0
    BY <2>3
  <2> QED
    BY <1>0, <2>1, <2>2, <2>4 DEF StoredInv, Entries
<1>5. CountsInv(K)
  <2> SUFFICES ASSUME NEW b \in Blocks PROVE Counts(b, "unused")
    BY <1>0 DEF CountsInv
  <2>1. b > 0
    BY BlocksAssumption DEF Blocks
  <2>2. Referrers(b) = {}
    BY <1>2, <2>1 DEF Referrers
  <2>3. Cardinality({}) = 0
    BY FS_EmptySet
  <2> QED
    BY <2>1, <2>2, <2>3 DEF Counts, PooledCounts, HeapCounts, Weight, Init, PoolInit
<1>6. ListInv(K, K, 0)
  BY <1>0 DEF ListInv, Init, PoolInit
<1>7. PlacedAs(K, K, K, K, K, 0)
  BY <1>0, <1>2, <1>3, <1>4, <1>5, <1>6 DEF PlacedAs, KnowsInv, Kinds
<1> QED
  BY <1>7 DEF Placed

-----------------------------------------------------------------------------
(* Elements: the blocks of a producer and what is in them.                 *)

\* What a thread does with the blocks of its producer: it enqueues, up to "publish",
\* or dequeues the element of an index it has claimed, from "lookup".
Getting == {"requisition", "poolinc", "getload", "getrefs", "getinc", "getnext", "getcas",
  "getsub", "getdec", "create", "gotblock"}
Filling == {"construct", "publish"}
Untaken == {"lookup", "entry", "take"}
Reading == Untaken \cup {"setempty"}
Role(t) ==
  IF pc[t] \in Getting \/ (pc[t] \in AddLabels /\ fl[t].getting) THEN "gets"
  ELSE IF pc[t] \in {"insert", "settail",
    "release"} \cup Filling \cup Reading THEN pc[t] ELSE "none"
Acts(t, p) == Role(t) # "none" /\ ql[t].p = p
\* A thread that has asked for a block of p, one that has claimed an index of p, one
\* that has not taken its element yet, and one that gives back block k of p.
Fills(t, p) == Role(t) \in {"gets"} \cup Filling /\ ql[t].p = p
Reads(t, p, i) == Role(t) \in Reading /\ ql[t].p = p /\ ql[t].index = i
Awaits(t, p, i) == Role(t) \in Untaken /\ ql[t].p = p /\ ql[t].index = i
Releases(t, p, k) == Role(t) = "release" /\ ql[t].p = p /\ Of(ql[t].index) = k

\* n: the blocks of p so far, counted from 0; X[k]: the entry of block k in the index;
\* D: the indices of the elements that have been dequeued.
Val(p, X, k) == entries[p][X[k]].value
Key(p, X, k) == entries[p][X[k]].key
Size(p) == Len(entries[p])
Window(p, n) == n - Size(p) .. n - 1
Indices(k) == Base(k) .. Base(k + 1) - 1
DoneIn(D, k) == D \cap Indices(k)
AllDone(D, k) == Indices(k) \subseteq D

\* The current index has a slot for each entry, and the last block is at its tail.
IndexInv(p, n, X) ==
  LET h == Current(p) IN
  /\ n \in Nat /\ Size(p) >= 2 /\ Capacity(h) = Size(p)
  /\ \A i, j \in 1 .. Size(p) : h.slots[i] = h.slots[j] => i = j
  /\ \A e \in 1 .. Size(p) : \E i \in 1 .. Size(p) : h.slots[i] = e
  /\ \A k \in Int : X[k] = Slot(h, h.tail + (k - (n - 1)))

\* The entries that are in use have the keys of their blocks.
KeysInv(p, n, X) ==
  /\ n > 0 => Key(p, X, n - 1) = Base(n - 1)
  /\ \A k \in Window(p, n) : Val(p, X, k) # 0 => k >= 0 /\ Key(p, X, k) = Base(k)

DoneInv(p, D) ==
  /\ D \subseteq 0 .. headIndex[p] - 1
  /\ \A i \in 0 .. headIndex[p] - 1 :
       i \notin D => \E t \in Threads : Reads(t, p, i)

\* The next element goes to the last block, or to the next one.
TailInv(p, n) ==
  /\ Base(n - 1) <= tailIndex[p] /\ tailIndex[p] <= Base(n)
  /\ n > 0 /\ tailIndex[p] = Base(n - 1) =>
       \E t \in Threads : Fills(t, p)

\* Only a block that is new or done with is not in the index.
LiveInv(p, n, X, D) ==
  \A k \in 0 .. n - 1 :
    \/ k >= n - Size(p) /\ Val(p, X, k) # 0
    \/ AllDone(D, k)
    \/ k = n - 1 /\ tailIndex[p] = Base(k)

\* What is in the block b, when it is block k.
Wanted(p, i) ==
  /\ i < tailIndex[p]
  /\ i >= headIndex[p] \/ \E t \in Threads : Awaits(t, p, i)
Filled(p, k, b, D) ==
  /\ dequeuedIn[b] = Cardinality(DoneIn(D, k))
  /\ AllDone(D, k) => \E t \in Threads : Releases(t, p, k)
  /\ \A i \in Indices(k) : Wanted(p, i) => elements[b][PlaceOf(i)] = <<p, i>>
FilledInv(p, n, X, D) ==
  \A k \in Window(p, n) : Val(p, X, k) # 0 => Filled(p, k, Val(p, X, k), D)

\* The tail block is the last one, and the one before until the last has a block.
LastInv(p, n, X) ==
  /\ n > 0 /\ Val(p, X, n - 1) # 0 => tailBlock[p] = Val(p, X, n - 1)
  /\ n > 1 /\ tailIndex[p] = Base(n - 1) /\ Val(p, X, n - 1) = 0 /\ Val(p, X, n - 2) # 0 =>
       tailBlock[p] = Val(p, X, n - 2)

\* The thread that enqueues.
Writer(t, p, n, X) ==
  /\ Role(t) \in {"insert", "settail"} => tailIndex[p] = Base(n)
  /\ Role(t) = "settail" => /\ ql[t].entry = X[n]
                            /\ Val(p, X, n) = 0 /\ Key(p, X, n) = Base(n)
  /\ Role(t) = "gets" => /\ n > 0 /\ tailIndex[p] = Base(n - 1) /\ ql[t].entry = X[n - 1]
                         /\ Val(p, X, n - 1) = 0
                         /\ n > 1 => Key(p, X, n - 2) = Base(n - 2)
  /\ Role(t) \in Filling => n > 0 /\ tailIndex[p] < Base(n) /\ Val(p, X, n - 1) # 0
  /\ Role(t) = "publish" => elements[tailBlock[p]][PlaceOf(tailIndex[p])] = <<p, tailIndex[p]>>

\* The slot that a thread has read in its header, which may be an old one, is that of
\* block m, and block Of(i) is found from there; a block that could not be got has no number.
Finds(t, p, i, n, X) ==
  LET h == blockIndex[p][ql[t].header] IN
  \E m \in Of(i) .. n :
    /\ Slot(h, ql[t].tail) = X[m]
    /\ Key(p, X, m) = Base(m)
    /\ Slot(h, ql[t].tail + (Of(i) - m)) = X[Of(i)]
    /\ m = n => Val(p, X, n) = 0 /\ tailIndex[p] = Base(n)

\* A thread that dequeues the element of index i.
Reader(t, p, i, n, X, D) ==
  /\ Role(t) \in Reading =>
       /\ i \in 0 .. headIndex[p] - 1 /\ i \notin D
       /\ \A u \in Threads : u # t => ~ Reads(u, p, i)
  /\ Role(t) = "entry" => Finds(t, p, i, n, X)
  /\ Role(t) \in {"take", "setempty", "release"} => ql[t].entry = X[Of(i)]
  /\ Role(t) \in {"setempty", "release"} => ql[t].block = Val(p, X, Of(i))
  /\ Role(t) = "setempty" => ql[t].element = <<p, i>>
  /\ Role(t) = "release" =>
       /\ i \in D /\ Of(i) >= n - Size(p) /\ ql[t].block # 0 /\ AllDone(D, Of(i))
       /\ \A u \in Threads : u # t => ~ Releases(u, p, Of(i))

ActorsInv(p, n, X, D) ==
  \A t \in Threads : ql[t].p = p =>
    Writer(t, p, n, X) /\ \A i : ql[t].index = i => Reader(t, p, i, n, X, D)

ElementsInv(p, n, X, D) ==
  /\ IndexInv(p, n, X) /\ KeysInv(p, n, X) /\ DoneInv(p, D) /\ TailInv(p, n)
  /\ LiveInv(p, n, X, D) /\ FilledInv(p, n, X, D) /\ LastInv(p, n, X)
  /\ ActorsInv(p, n, X, D)
  /\ n > 0 => p <= producers
ElementInv == \A p \in Producers : \E n, X, D : ElementsInv(p, n, X, D)

-----------------------------------------------------------------------------
\* The slots that are a full turn apart are the same, and no others.
Turns(p, X) == \A j, k \in Int : j <= k /\ k < j + Size(p) /\ X[j] = X[k] => j = k

\* The entries in the order of their blocks, round and round.
LEMMA IndexIs ==
  ASSUME IndexTypes, NEW p \in Producers, NEW n, NEW X, IndexInv(p, n, X)
  PROVE  /\ Size(p) \in Nat /\ Size(p) >= 2 /\ n \in Nat
         /\ \A k \in Int : X[k] \in 1 .. Size(p)
         /\ \A k \in Int : X[k - Size(p)] = X[k]
         /\ Turns(p, X)
         /\ \A e \in 1 .. Size(p) : \E k \in Window(p, n) : X[k] = e
<1>1. PICK c, h, s, T : c = Size(p) /\ h = Current(p) /\ s = h.slots /\ T = h.tail - (n - 1)
  OBVIOUS
<1>2. /\ c \in Nat \ {0} /\ c >= 2 /\ n \in Nat /\ T \in Int /\ Len(s) = c
      /\ h \in Header(c)
  <2>1. h \in Header(c) /\ c \in Nat
    BY <1>1, CurrentIs DEF Size
  <2>2. n \in Nat /\ c >= 2 /\ Len(s) = c
    BY <1>1 DEF IndexInv, Capacity
  <2>3. h.tail \in Nat
    BY <2>1 DEF Header
  <2> QED
    BY <1>1, <2>1, <2>2, <2>3
<1>3. \A i, j \in 1 .. c : s[i] = s[j] => i = j
  BY <1>1 DEF IndexInv
<1>4. \A k \in Int : X[k] = s[((T + k) % c) + 1]
  <2> SUFFICES ASSUME NEW k \in Int PROVE X[k] = s[((T + k) % c) + 1]
    OBVIOUS
  <2>1. X[k] = Slot(h, h.tail + (k - (n - 1)))
    BY <1>1 DEF IndexInv
  <2>2. h.tail + (k - (n - 1)) = T + k
    BY <1>1, <1>2 DEF Header
  <2> QED
    BY <1>1, <1>2, <2>1, <2>2 DEF Slot, Capacity
<1>5. ASSUME NEW k \in Int PROVE (T + k) % c \in 0 .. c - 1 /\ ((T + k) % c) + 1 \in 1 .. c
  <2>1. PICK r : r = (T + k) % c
    OBVIOUS
  <2>2. T + k \in Int
    BY <1>2
  <2>3. r \in 0 .. c - 1
    BY <1>2, <2>1, <2>2, Division
  <2>4. r + 1 \in 1 .. c
    BY <1>2, <2>3
  <2> QED
    BY <2>1, <2>3, <2>4
<1>6. ASSUME NEW k \in Int PROVE X[k] \in 1 .. c
  <2>1. T + k \in Int /\ c \in Nat
    BY <1>2
  <2>2. Slot(h, T + k) \in 1 .. c
    BY <1>2, <2>1, SlotIs
  <2>3. Slot(h, T + k) = s[((T + k) % c) + 1]
    BY <1>1, <1>2 DEF Slot, Capacity
  <2> QED
    BY <1>4, <2>2, <2>3
<1>7. ASSUME NEW k \in Int PROVE X[k - c] = X[k]
  <2>1. k - c \in Int /\ T + (k - c) \in Int /\ (T + (k - c)) + c = T + k
    BY <1>2
  <2>2. ((T + (k - c)) + c) % c = (T + (k - c)) % c
    BY <1>2, <2>1, Remainders
  <2> QED
    BY <1>4, <2>1, <2>2
<1>8. ASSUME NEW j \in Int, NEW k \in Int, j <= k, k < j + c, X[j] = X[k] PROVE j = k
  <2>1. ((T + j) % c) + 1 = ((T + k) % c) + 1
    BY <1>3, <1>4, <1>5, <1>8
  <2>2. (T + j) % c = (T + k) % c
    BY <1>5, <2>1
  <2>3. T + j \in Int /\ T + k \in Int /\ T + j <= T + k /\ T + k < (T + j) + c
    BY <1>2, <1>8
  <2>4. T + j = T + k
    BY <1>2, <2>2, <2>3, Remainders
  <2> QED
    BY <1>2, <2>4
<1>9. ASSUME NEW e \in 1 .. c PROVE \E k \in n - c .. n - 1 : X[k] = e
  <2>1. PICK i \in 1 .. c : s[i] = e
    BY <1>1, <1>9 DEF IndexInv
  <2>2. PICK j : j = (i - 1) - (T + (n - c))
    OBVIOUS
  <2>a. j \in Int
    BY <1>2, <2>1, <2>2
  <2>3. j \in Int /\ j % c \in 0 .. c - 1 /\ j = (j \div c) * c + (j % c) /\ j \div c \in Int
    BY <1>2, <2>a, Division
  <2>4. PICK k : k = (n - c) + (j % c)
    OBVIOUS
  <2>5. k \in n - c .. n - 1 /\ k \in Int
    BY <1>2, <2>3, <2>4
  <2>6. T + k = (T + (n - c)) + (j % c) /\ T + (n - c) \in Int
    BY <1>2, <2>3, <2>4
  <2>7. (T + k) % c = i - 1
    <3>1. PICK a, q, r : a = T + k /\ q = 0 - (j \div c) /\ r = i - 1
      OBVIOUS
    <3>2. PICK m : m = (j \div c) * c
      OBVIOUS
    <3>3. q * c = 0 - m /\ m \in Int
      BY <1>2, <2>3, <3>1, <3>2
    <3>4. a = q * c + r
      BY <1>2, <2>2, <2>3, <2>6, <3>1, <3>2, <3>3
    <3>5. a \in Int /\ q \in Int /\ r \in 0 .. c - 1
      BY <1>2, <2>1, <2>3, <2>5, <3>1
    <3>6. a % c = r
      BY <1>2, <3>4, <3>5, QuotientIs
    <3> QED
      BY <3>1, <3>6
  <2>8. X[k] = s[i]
    BY <1>4, <2>1, <2>5, <2>7
  <2> QED
    BY <2>1, <2>5, <2>8
<1> QED
  BY <1>1, <1>2, <1>6, <1>7, <1>8, <1>9 DEF Window, Turns

\* Indices(k) are those of block k.
LEMMA IndicesAre ==
  ASSUME NEW k \in Int
  PROVE  /\ \A i \in Int : i \in Indices(k) <=> Of(i) = k
         /\ \A i \in Indices(k) : i \in Int /\ PlaceOf(i) = i - Base(k)
              /\ PlaceOf(i) \in 0 .. BLOCK_SIZE - 1
         /\ \A i \in Int : i \in Indices(k) <=> (Base(k) <= i /\ i < Base(k + 1))
         /\ Base(k) \in Indices(k) /\ Base(k + 1) - 1 \in Indices(k)
         /\ IsFiniteSet(Indices(k)) /\ Cardinality(Indices(k)) = BLOCK_SIZE
         /\ Base(k) \in Int /\ Base(k + 1) \in Int /\ Base(k + 1) = Base(k) + BLOCK_SIZE
<1>1. Base(k) \in Int /\ Base(k + 1) = Base(k) + BLOCK_SIZE /\ BLOCK_SIZE \in Nat /\ BLOCK_SIZE >= 2
  BY Bases, ProducerAssumption
<1>2. \A i \in Int : i \in Indices(k) <=> Base(k) <= i /\ i < Base(k + 1)
  BY <1>1 DEF Indices
<1>3. \A i \in Int : i \in Indices(k) <=> Of(i) = k
  <2> SUFFICES ASSUME NEW i \in Int PROVE i \in Indices(k) <=> Of(i) = k
    OBVIOUS
  <2>1. Base(Of(i)) <= i /\ i < Base(Of(i)) + BLOCK_SIZE
        /\ (Base(k) <= i /\ i < Base(k) + BLOCK_SIZE => Of(i) = k)
    BY BlockIs
  <2> QED
    BY <1>1, <1>2, <2>1
<1>4. \A i \in Indices(k) : i \in Int
  BY <1>1 DEF Indices
<1>5. \A i \in Indices(k) : PlaceOf(i) = i - Base(k) /\ PlaceOf(i) \in 0 .. BLOCK_SIZE - 1
  BY <1>3, <1>4, BlockIs
<1>6. IsFiniteSet(Indices(k)) /\ Cardinality(Indices(k)) = BLOCK_SIZE
  <2>1. PICK a, b : a = Base(k) /\ b = Base(k + 1) - 1
    OBVIOUS
  <2>2. a \in Int /\ b \in Int /\ a <= b /\ b - a + 1 = BLOCK_SIZE
    BY <1>1, <2>1
  <2>3. IsFiniteSet(a .. b) /\ Cardinality(a .. b) = b - a + 1
    BY <2>2, FS_Interval
  <2> QED
    BY <2>1, <2>2, <2>3 DEF Indices
<1> QED
  BY <1>1, <1>2, <1>3, <1>4, <1>5, <1>6

-----------------------------------------------------------------------------
\* The threads that act on p do so as before.
ActsKept(p) ==
  \A u \in Threads : Acts(u, p) \/ Acts(u, p)' => Role(u)' = Role(u) /\ ql'[u] = ql[u]

\* Then the same threads fill, read, await and release.
LEMMA RolesKept ==
  ASSUME NEW p, ActsKept(p)
  PROVE  /\ \A u \in Threads : Fills(u, p)' <=> Fills(u, p)
         /\ \A u \in Threads : \A i : Reads(u, p, i)' <=> Reads(u, p, i)
         /\ \A u \in Threads : \A i : Awaits(u, p, i)' <=> Awaits(u, p, i)
         /\ \A u \in Threads : \A k : Releases(u, p, k)' <=> Releases(u, p, k)
<1>1. \A u \in Threads :
        (Role(u) # "none" /\ ql[u].p = p) \/ (Role(u)' # "none" /\ ql'[u].p = p) =>
          Role(u)' = Role(u) /\ ql'[u] = ql[u]
  BY DEF ActsKept, Acts
<1>2. "none" \notin {"gets"} \cup Filling /\ "none" \notin Reading /\ "none" \notin Untaken
  BY DEF Filling, Reading, Untaken
<1>3. \A u \in Threads : Fills(u, p)' <=> Fills(u, p)
  BY <1>1, <1>2 DEF Fills
<1>4. \A u \in Threads : \A i : Reads(u, p, i)' <=> Reads(u, p, i)
  BY <1>1, <1>2 DEF Reads, Awaits
<1>5. \A u \in Threads : \A i : Awaits(u, p, i)' <=> Awaits(u, p, i)
  BY <1>1, <1>2 DEF Reads, Awaits
<1>6. \A u \in Threads : \A k : Releases(u, p, k)' <=> Releases(u, p, k)
  BY <1>1, <1>2 DEF Releases
<1> QED
  BY <1>3, <1>4, <1>5, <1>6

\* A step that does not touch p, and no block of p.
LEMMA ElementsKept ==
  ASSUME NEW p \in Producers, NEW n, NEW X, NEW D, ElementsInv(p, n, X, D), IndexTypes,
         tailIndex'[p] = tailIndex[p], headIndex'[p] = headIndex[p], tailBlock'[p] = tailBlock[p],
         entries'[p] = entries[p], blockIndex'[p] = blockIndex[p], ActsKept(p),
         \A k \in Window(p, n) : LET b == Val(p, X, k) IN
           b # 0 => dequeuedIn'[b] = dequeuedIn[b] /\ elements'[b] = elements[b],
         producers \in Nat, producers' \in Nat, producers <= producers'
  PROVE  ElementsInv(p, n, X, D)'
<1>0. /\ IndexInv(p, n, X) /\ KeysInv(p, n, X) /\ DoneInv(p, D) /\ TailInv(p, n)
      /\ LiveInv(p, n, X, D) /\ FilledInv(p, n, X, D) /\ LastInv(p, n, X)
      /\ ActorsInv(p, n, X, D) /\ (n > 0 => p <= producers)
  BY DEF ElementsInv
<1>a. /\ \A k : Val(p, X, k)' = Val(p, X, k) /\ Key(p, X, k)' = Key(p, X, k)
      /\ Size(p)' = Size(p) /\ Window(p, n)' = Window(p, n) /\ Current(p)' = Current(p)
  BY DEF Val, Key, Size, Window, Current
<1>b. /\ \A u \in Threads : Fills(u, p)' <=> Fills(u, p)
      /\ \A u \in Threads : \A i : Reads(u, p, i)' <=> Reads(u, p, i)
      /\ \A u \in Threads : \A i : Awaits(u, p, i)' <=> Awaits(u, p, i)
      /\ \A u \in Threads : \A k : Releases(u, p, k)' <=> Releases(u, p, k)
  BY RolesKept
<1>c. \A i : Wanted(p, i)' <=> Wanted(p, i)
  BY <1>b DEF Wanted
<1>1. IndexInv(p, n, X)' /\ KeysInv(p, n, X)'
  BY <1>0, <1>a DEF IndexInv, KeysInv
<1>2. DoneInv(p, D)'
  BY <1>0, <1>b DEF DoneInv
<1>3. TailInv(p, n)'
  BY <1>0, <1>b DEF TailInv
<1>4. LiveInv(p, n, X, D)'
  BY <1>0, <1>a DEF LiveInv
<1>5. FilledInv(p, n, X, D)'
  <2> SUFFICES ASSUME NEW k \in Window(p, n), Val(p, X, k) # 0
               PROVE  Filled(p, k, Val(p, X, k), D)'
    BY <1>a DEF FilledInv
  <2>1. PICK b : b = Val(p, X, k)
    OBVIOUS
  <2>2. Filled(p, k, b, D) /\ dequeuedIn'[b] = dequeuedIn[b] /\ elements'[b] = elements[b]
    BY <1>0, <2>1 DEF FilledInv
  <2>3. Filled(p, k, b, D)'
    BY <1>b, <1>c, <2>2 DEF Filled
  <2> QED
    BY <1>a, <2>1, <2>3
<1>6. LastInv(p, n, X)'
  BY <1>0, <1>a DEF LastInv
<1>7. ActorsInv(p, n, X, D)'
  <2> SUFFICES ASSUME NEW u \in Threads, ql'[u].p = p
               PROVE  Writer(u, p, n, X)' /\ \A i : ql'[u].index = i => Reader(u, p, i, n, X, D)'
    BY DEF ActorsInv
  <2>1. CASE Role(u)' = "none"
    BY <2>1 DEF Writer, Reader, Reading, Untaken, Filling
  <2>2. CASE Role(u)' # "none"
    <3>1. Role(u)' = Role(u) /\ ql'[u] = ql[u]
      BY <2>2 DEF ActsKept, Acts
    <3>2. Writer(u, p, n, X) /\ \A i : ql[u].index = i => Reader(u, p, i, n, X, D)
      BY <1>0, <3>1 DEF ActorsInv
    <3>3. Writer(u, p, n, X)'
      <4>1. Role(u) = "publish" => elements'[tailBlock'[p]] = elements[tailBlock[p]]
        <5> SUFFICES ASSUME Role(u) = "publish"
                              PROVE elements'[tailBlock'[p]] = elements[tailBlock[p]]
          OBVIOUS
        <5>1. n > 0 /\ Val(p, X, n - 1) # 0
          BY <3>2 DEF Writer, Filling
        <5>2. n - 1 \in Window(p, n)
          BY <1>0, IndexIs DEF Window
        <5>3. tailBlock[p] = Val(p, X, n - 1)
          BY <1>0, <5>1 DEF LastInv
        <5> QED
          BY <5>1, <5>2, <5>3
      <4> QED
        BY <1>a, <3>1, <3>2, <4>1 DEF Writer
    <3>4. \A i : ql'[u].index = i => Reader(u, p, i, n, X, D)'
      <4> SUFFICES ASSUME NEW i, ql'[u].index = i PROVE Reader(u, p, i, n, X, D)'
        OBVIOUS
      <4>1. Finds(u, p, i, n, X)' <=> Finds(u, p, i, n, X)
        BY <1>a, <3>1 DEF Finds
      <4>2. Reader(u, p, i, n, X, D)
        BY <3>1, <3>2
      <4> QED
        BY <1>a, <1>b, <3>1, <4>1, <4>2 DEF Reader
    <3> QED
      BY <3>3, <3>4
  <2> QED
    BY <2>1, <2>2
<1>8. n > 0 => p <= producers'
  BY <1>0, ProducerAssumption DEF Producers
<1> QED
  BY <1>0, <1>1, <1>2, <1>3, <1>4, <1>5, <1>6, <1>7, <1>8 DEF ElementsInv

-----------------------------------------------------------------------------
\* No two entries have one block, and none has the block that a thread has just got.
LEMMA Apart ==
  ASSUME Placed
  PROVE  /\ \A p, q \in Producers : \A e \in Entries(p) : \A f \in Entries(q) :
              entries[p][e].value # 0 /\ entries[p][e].value = entries[q][f].value => p = q /\ e = f
         /\ \A t \in Threads : pc[t] = "gotblock" /\ fl[t].block # 0 =>
              \A p \in Producers : \A e \in Entries(p) : entries[p][e].value # fl[t].block
<1>1. PICK K, W, P, E, L, n : PlacedAs(K, W, P, E, L, n)
  BY DEF Placed
<1>2. \A p \in Producers : \A e \in Entries(p) : LET b == entries[p][e].value IN
        b # 0 => K[b] = "stored" /\ P[b] = p /\ E[b] = e
  BY <1>1 DEF PlacedAs, StoredInv
<1>3. ASSUME NEW t \in Threads, pc[t] = "gotblock", fl[t].block # 0
      PROVE  K[fl[t].block] = "held"
  BY <1>1, <1>3 DEF PlacedAs, HandsInv, Kind, Hand
<1> QED
  BY <1>2, <1>3

\* A step of BlockPool leaves a thread in its role.
LEMMA PoolRole ==
  ASSUME TableInv, WriterInv, PoolTypes, NEW t \in Threads, Pool(t)
  PROVE  Role(t)' = Role(t)
<1>0. fl[t] \in PoolLocals
  BY DEF PoolTypes
<1>a. (\A l : Go(t, l) => pc'[t] = l) /\ (\A v : Locals(t, v) => fl'[t] = v)
  BY Assigned
<1>b. \A x : \A f \in PoolLocals : [f EXCEPT !.to = x].getting = f.getting
  BY DEF PoolLocals
<1>c. \A h : TryHead(t, h) => pc'[t] \in {"create", "getrefs"}
  BY <1>a DEF TryHead
<1>1. CASE pc[t] \in Getting
  <2>1. pc'[t] \in Getting \/ (pc'[t] = "addhead" /\ fl'[t].getting)
    <3>1. CASE GetDecrement(t)
      <4>1. CASE TryHead(t, fl[t].head)
        BY <1>c, <4>1 DEF Getting
      <4>2. CASE ~ TryHead(t, fl[t].head)
        <5>1. pc'[t] = "addhead" /\ fl'[t] = [fl[t] EXCEPT !.block = fl[t].prev, !.getting = TRUE]
          BY <1>a, <3>1, <4>2 DEF GetDecrement
        <5>2. [fl[t] EXCEPT !.block = fl[t].prev, !.getting = TRUE].getting = TRUE
          BY <1>0 DEF PoolLocals
        <5> QED
          BY <5>1, <5>2
      <4> QED
        BY <4>1, <4>2
    <3>2. CASE ~ GetDecrement(t)
      <4>1. CASE GetLoad(t)
        BY <1>c, <4>1 DEF GetLoad, Getting
      <4>2. CASE ~ GetLoad(t)
        BY <1>1, <1>a, <3>2, <4>2 DEF Pool, PoolTest, PoolIncrement, GetRefs, GetIncrement, GetNext,
           GetCas, GetDone, Create, AddBlock, AddHead, AddNext, AddRefs, AddCas, AddRetry, Getting
      <4> QED
        BY <4>1, <4>2
    <3> QED
      BY <3>1, <3>2
  <2> QED
    BY <1>1, <2>1 DEF Role, AddLabels, Getting
<1>2. CASE pc[t] \in AddLabels
  <2>1. \/ pc'[t] \in AddLabels /\ fl'[t].getting = fl[t].getting
        \/ Added(t)
    <3>1. CASE AddHead(t)
      <4>1. pc'[t] = "addnext" /\ fl'[t] = [fl[t] EXCEPT !.to = freeListHead]
        BY <1>a, <3>1 DEF AddHead
      <4> QED
        BY <1>0, <1>b, <4>1 DEF AddLabels
    <3>2. CASE AddCas(t)
      <4>1. \/ pc'[t] = "addretry" /\ fl'[t] = [fl[t] EXCEPT !.to = freeListHead]
            \/ Added(t)
        BY <1>a, <3>2 DEF AddCas
      <4>2. CASE pc'[t] = "addretry" /\ fl'[t] = [fl[t] EXCEPT !.to = freeListHead]
        <5>1. fl'[t].getting = fl[t].getting
          BY <1>0, <1>b, <4>2
        <5> QED
          BY <4>2, <5>1 DEF AddLabels
      <4> QED
        BY <4>1, <4>2
    <3>3. CASE ~ AddHead(t) /\ ~ AddCas(t)
      BY <1>2, <1>a, <3>3 DEF Pool, PoolTest, PoolIncrement, GetLoad, GetRefs, GetIncrement,
         GetNext,
         GetCas, GetDone, GetDecrement, Create, AddBlock, Add, AddNext, AddRefs, AddRetry, AddLabels
    <3> QED
      BY <3>1, <3>2, <3>3
  <2>2. CASE Added(t)
    <3>1. \/ fl[t].getting /\ pc'[t] \in {"create", "getrefs"}
          \/ ~ fl[t].getting /\ pc'[t] = "dequeued"
      BY <1>a, <1>c, <2>2 DEF Added
    <3>2. fl[t].getting \in BOOLEAN
      BY <1>0 DEF PoolLocals
    <3>3. CASE fl[t].getting /\ pc'[t] \in {"create", "getrefs"}
      BY <1>2, <3>3 DEF Role, Getting
    <3>4. CASE ~ fl[t].getting /\ pc'[t] = "dequeued"
      BY <1>2, <3>4 DEF Role, Getting, AddLabels, Filling, Reading, Untaken
    <3> QED
      BY <3>1, <3>3, <3>4
  <2>3. CASE pc'[t] \in AddLabels /\ fl'[t].getting = fl[t].getting
    BY <1>2, <2>3 DEF Role, AddLabels, Getting, Filling, Reading, Untaken
  <2> QED
    BY <2>1, <2>2, <2>3
<1>3. pc[t] \in Getting \cup AddLabels
  BY DEF Pool, PoolTest, PoolIncrement, GetLoad, GetRefs, GetIncrement, GetNext,
         GetCas, GetDone, GetDecrement, Create, AddBlock, AddHead, AddNext, AddRefs, AddCas,
           AddRetry,
         Getting, AddLabels
<1> QED
  BY <1>1, <1>2, <1>3

\* The producers keep their elements when a thread works with no blocks, and all but
\* one do so when it works with a block of that one.
LEMMA PoolElements ==
  ASSUME BaseInv, BaseInv', NEW t \in Threads, Pool(t), NEW p \in Producers, NEW n, NEW X, NEW D,
         ElementsInv(p, n, X, D)
  PROVE  ElementsInv(p, n, X, D)'
<1>1. WorkStep(t) /\ UNCHANGED <<ql, producerVars>>
  BY PoolWorks, WorksWork DEF BaseInv, QueueInv
<1>2. Role(t)' = Role(t)
  BY PoolRole DEF BaseInv, QueueInv
<1>3. \A u \in Threads : Role(u)' = Role(u) /\ ql'[u] = ql[u]
  <2>1. \A u \in Threads : u # t => Role(u)' = Role(u)
    BY <1>1 DEF WorkStep, Role
  <2> QED
    BY <1>1, <1>2, <2>1
<1>4. ActsKept(p)
  BY <1>3 DEF ActsKept
<1>5. producers \in Nat /\ producers' = producers /\ IndexTypes
  BY <1>1 DEF WorkStep, BaseInv, RangeInv, ProducerTypes
<1>6. UNCHANGED <<elements, dequeuedIn, tailIndex, headIndex, tailBlock, entries, blockIndex>>
  BY <1>1 DEF producerVars
<1> QED
  BY <1>4, <1>5, <1>6, ElementsKept

\* The steps of the tables and of the callers leave the elements alone.
LEMMA TableElements ==
  ASSUME BaseInv, BaseInv', NEW t \in Threads, Table(t), NEW p \in Producers, NEW n, NEW X, NEW D,
         ElementsInv(p, n, X, D)
  PROVE  ElementsInv(p, n, X, D)'
<1>1. CalmStep(t)
  BY TableCalm DEF BaseInv
<1>2. Role(t) = "none" /\ Role(t)' = "none"
  BY <1>1 DEF CalmStep, CalmLabels, Role, Getting, AddLabels, Filling, Reading, Untaken
<1>3. \A u \in Threads : u # t => Role(u)' = Role(u) /\ ql'[u] = ql[u]
  BY <1>1 DEF CalmStep, Role
<1>4. ActsKept(p)
  BY <1>2, <1>3 DEF ActsKept, Acts
<1>5. producers \in Nat /\ producers' \in Nat /\ producers <= producers' /\ IndexTypes
  BY <1>1 DEF CalmStep, BaseInv, ProducerTypes
<1>6. UNCHANGED <<elements, dequeuedIn, tailIndex, headIndex, tailBlock, entries, blockIndex>>
  BY <1>1 DEF CalmStep, producerVars
<1> QED
  BY <1>4, <1>5, <1>6, ElementsKept

\* A step of ImplicitProducer writes to the producer of the thread only.
LEMMA RestSame ==
  ASSUME BaseInv, NEW t \in Threads, Producer(t), NEW q \in Producers, q # ql[t].p
  PROVE  /\ tailIndex'[q] = tailIndex[q] /\ headIndex'[q] = headIndex[q]
         /\ tailBlock'[q] = tailBlock[q]
         /\ entries'[q] = entries[q] /\ blockIndex'[q] = blockIndex[q]
<1>0. /\ DOMAIN tailIndex = Producers /\ DOMAIN headIndex = Producers
      /\ DOMAIN tailBlock = Producers
      /\ DOMAIN entries = Producers /\ DOMAIN blockIndex = Producers
  BY DEF BaseInv, ProducerTypes, CountersInv, IndexTypes
<1>1. tailIndex'[q] = tailIndex[q]
  BY <1>0 DEF Producer, Enqueue, Insert, InsertTail, GotNoBlock, GotBlock, Construct, Publish,
     Dequeue, CountIn, Recheck, OverCommit, Claim, Lookup, Entry, Take, SetEmpty, Release,
     counters, producerVars
<1>2. headIndex'[q] = headIndex[q]
  BY <1>0 DEF Producer, Enqueue, Insert, InsertTail, GotNoBlock, GotBlock, Construct, Publish,
     Dequeue, CountIn, Recheck, OverCommit, Claim, Lookup, Entry, Take, SetEmpty, Release,
     counters, producerVars
<1>3. tailBlock'[q] = tailBlock[q]
  BY <1>0 DEF Producer, Enqueue, Insert, InsertTail, GotNoBlock, GotBlock, Construct, Publish,
     Dequeue, CountIn, Recheck, OverCommit, Claim, Lookup, Entry, Take, SetEmpty, Release,
     counters, producerVars
<1>4. entries'[q] = entries[q]
  <2>1. CASE Insert(t)
    BY <1>0, <2>1 DEF Insert, NewBlockIndex
  <2>2. CASE GotNoBlock(t) \/ GotBlock(t) \/ Release(t)
    BY <1>0, <2>2 DEF GotNoBlock, GotBlock, Release
  <2>3. CASE ~ Insert(t) /\ ~ GotNoBlock(t) /\ ~ GotBlock(t) /\ ~ Release(t)
    BY <2>3 DEF Producer, Enqueue, InsertTail, Construct, Publish,
       Dequeue, CountIn, Recheck, OverCommit, Claim, Lookup, Entry, Take, SetEmpty,
       producerVars
  <2> QED
    BY <2>1, <2>2, <2>3
<1>5. blockIndex'[q] = blockIndex[q]
  <2>1. CASE Insert(t)
    BY <1>0, <2>1 DEF Insert, NewBlockIndex
  <2>2. CASE GotNoBlock(t) \/ InsertTail(t)
    BY <1>0, <2>2 DEF GotNoBlock, InsertTail, MoveTail
  <2>3. CASE ~ Insert(t) /\ ~ GotNoBlock(t) /\ ~ InsertTail(t)
    BY <2>3 DEF Producer, Enqueue, GotBlock, Construct, Publish,
       Dequeue, CountIn, Recheck, OverCommit, Claim, Lookup, Entry, Take, SetEmpty, Release,
       producerVars
  <2> QED
    BY <2>1, <2>2, <2>3
<1> QED
  BY <1>1, <1>2, <1>3, <1>4, <1>5

-----------------------------------------------------------------------------
\* The other producers do not have the block b.
LEMMA ForeignElements ==
  ASSUME BaseInv, NEW t \in Threads, Producer(t), NEW q \in Producers, q # ql[t].p,
         NEW n, NEW X, NEW D, ElementsInv(q, n, X, D), NEW b,
         \A c \in Blocks : c # b => elements'[c] = elements[c] /\ dequeuedIn'[c] = dequeuedIn[c],
         \A e \in Entries(q) : entries[q][e].value # 0 => entries[q][e].value # b
  PROVE  ElementsInv(q, n, X, D)'
<1>1. /\ \A u \in Threads : u # t => Role(u)' = Role(u) /\ ql'[u] = ql[u]
      /\ ql'[t].p = ql[t].p
  BY ProducerSetting DEF Role
<1>2. ActsKept(q)
  BY <1>1 DEF ActsKept, Acts
<1>3. WorkStep(t)
  BY ProducerWorks, WorksWork DEF BaseInv, ProducerTypes, QueueInv
<1>4. producers \in Nat /\ producers' = producers /\ IndexTypes
  BY <1>3 DEF WorkStep, BaseInv, RangeInv, ProducerTypes
<1>5. \A k \in Window(q, n) : LET c == Val(q, X, k) IN
        c # 0 => dequeuedIn'[c] = dequeuedIn[c] /\ elements'[c] = elements[c]
  <2> SUFFICES ASSUME NEW k \in Window(q, n), Val(q, X, k) # 0
               PROVE  LET c == Val(q, X, k) IN
                        dequeuedIn'[c] = dequeuedIn[c] /\ elements'[c] = elements[c]
    OBVIOUS
  <2>1. n \in Nat /\ Size(q) \in Nat /\ \A j \in Int : X[j] \in 1 .. Size(q)
    BY <1>4, IndexIs DEF ElementsInv
  <2>2. k \in Int
    BY <2>1 DEF Window
  <2>3. X[k] \in Entries(q)
    BY <2>1, <2>2 DEF Entries, Size
  <2>4. entries[q][X[k]] \in IndexEntry
    BY <1>4, <2>3, ElementOfSeq DEF IndexTypes, Entries
  <2>5. PICK c : c = Val(q, X, k)
    OBVIOUS
  <2>6. c \in Blocks /\ c # b
    BY <2>3, <2>4, <2>5 DEF IndexEntry, Addresses, Val
  <2> QED
    BY <2>5, <2>6
<1> QED
  BY <1>2, <1>4, <1>5, RestSame, ElementsKept

\* The counts of dequeue have nothing to do with the blocks.
Tries(t) == Dequeue(t) \/ CountIn(t) \/ Recheck(t) \/ OverCommit(t)

\* So the elements stay as they are.
LEMMA TriesElements ==
  ASSUME BaseInv, NEW t \in Threads, Tries(t), NEW p \in Producers, NEW n, NEW X, NEW D,
         ElementsInv(p, n, X, D)
  PROVE  ElementsInv(p, n, X, D)'
<1>0. Producer(t)
  BY DEF Tries, Producer
<1>1. \A u \in Threads : u # t => Role(u)' = Role(u) /\ ql'[u] = ql[u]
  BY <1>0, ProducerSetting DEF Role
<1>2. Role(t) = "none" /\ Role(t)' = "none"
  <2>1. \A l : Go(t, l) => pc'[t] = l
    BY <1>0, ProducerSetting
  <2>2. pc[t] \in {"dequeue", "count", "recheck", "overcommit"}
        /\ pc'[t] \in {"count", "missed", "recheck", "claim", "overcommit"}
    BY <2>1 DEF Tries, Dequeue, CountIn, Recheck, OverCommit
  <2> QED
    BY <2>2 DEF Role, Getting, AddLabels, Filling, Reading, Untaken
<1>3. ActsKept(p)
  BY <1>1, <1>2 DEF ActsKept, Acts
<1>4. WorkStep(t)
  BY <1>0, ProducerWorks, WorksWork DEF BaseInv, ProducerTypes, QueueInv
<1>5. producers \in Nat /\ producers' = producers /\ IndexTypes
  BY <1>4 DEF WorkStep, BaseInv, RangeInv, ProducerTypes
<1>6. UNCHANGED <<elements, dequeuedIn, tailIndex, headIndex, tailBlock, entries, blockIndex>>
  BY DEF Tries, Dequeue, CountIn, Recheck, OverCommit, producerVars
<1> QED
  BY <1>3, <1>5, <1>6, ElementsKept

-----------------------------------------------------------------------------
\* A step of t with the blocks of its producer p.
Working(t, p, n, X, D) ==
  /\ BaseInv /\ BaseInv' /\ Placed /\ AtTail /\ Published /\ Published'
  /\ t \in Threads /\ Producer(t) /\ p = ql[t].p /\ ElementsInv(p, n, X, D)
Writes(t) == Role(t) \in {"insert", "settail", "gets"} \cup Filling

\* What is so before and after a step with the blocks of p.
LEMMA WorkingIs ==
  ASSUME NEW t, NEW p, NEW n, NEW X, NEW D, Working(t, p, n, X, D)
  PROVE  /\ t \in Threads /\ p \in Producers /\ p = ql[t].p
         /\ \A l : Go(t, l) => pc'[t] = l
         /\ \A v : Locals(t, v) => fl'[t] = v
         /\ \A w : Remember(t, w) => ql'[t] = w
         /\ \A u \in Threads : u # t => Role(u)' = Role(u) /\ ql'[u] = ql[u]
         /\ ql[t] \in ElementLocals /\ ql'[t].p = p /\ ql'[t] \in ElementLocals
         /\ ProducerTypes /\ ProducerTypes' /\ IndexTypes /\ PoolTypes
         /\ tailIndex[p] \in Nat /\ headIndex[p] \in Nat /\ headIndex[p] <= tailIndex[p]
         /\ tailIndex'[p] \in Nat /\ headIndex'[p] \in Nat /\ headIndex'[p] <= tailIndex'[p]
         /\ p <= producers'
<1>0. /\ BaseInv /\ BaseInv' /\ Published /\ Published' /\ t \in Threads /\ Producer(t)
      /\ p = ql[t].p /\ ElementsInv(p, n, X, D)
      /\ ProducerTypes /\ ProducerTypes' /\ IndexTypes /\ PoolTypes
  BY DEF Working, BaseInv, ProducerTypes
<1>1. p \in Producers /\ ql'[t].p = p
  BY <1>0, ProducerSetting
<1>2. /\ tailIndex[p] \in Nat /\ headIndex[p] \in Nat /\ tailIndex'[p] \in Nat
           /\ headIndex'[p] \in Nat
      /\ ql[t] \in ElementLocals /\ ql'[t] \in ElementLocals
  BY <1>0, <1>1 DEF ProducerTypes, CountersInv
<1>3. headIndex[p] <= tailIndex[p] /\ headIndex'[p] <= tailIndex'[p]
  BY <1>0, <1>1 DEF Published
<1>5. \A u \in Threads : u # t => Role(u)' = Role(u) /\ ql'[u] = ql[u]
  BY <1>0, ProducerSetting DEF Role
<1>6. producers' = producers
  <2>1. WorkStep(t)
    BY <1>0, ProducerWorks, WorksWork DEF BaseInv, ProducerTypes, QueueInv
  <2> QED
    BY <2>1 DEF WorkStep
<1>7. p <= producers'
  <2>1. ql[t].p \in 1 .. producers
    BY <1>0, ProducerSetting
  <2> QED
    BY <1>0, <1>6, <2>1
<1> QED
  BY <1>0, <1>1, <1>2, <1>3, <1>5, <1>7, ProducerSetting

\* What the index gives: the entries in the window are different, and so are their blocks.
LEMMA WindowIs ==
  ASSUME NEW t, NEW p, NEW n, NEW X, NEW D, Working(t, p, n, X, D)
  PROVE  /\ n \in Nat /\ Size(p) \in Nat /\ Size(p) >= 2
         /\ \A k \in Int : /\ X[k] \in Entries(p) /\ X[k - Size(p)] = X[k]
                           /\ Val(p, X, k) \in Addresses /\ Key(p, X, k) \in Nat
         /\ \A j, k \in Int : j <= k /\ k < j + Size(p) /\ X[j] = X[k] => j = k
         /\ \A j, k \in Window(p, n) : X[j] = X[k] => j = k
         /\ \A j, k \in Window(p, n) : Val(p, X, j) # 0 /\ Val(p, X, j) = Val(p, X, k) => j = k
         /\ \A k \in Window(p, n) : k \in Int
<1>0. p \in Producers /\ IndexTypes /\ IndexInv(p, n, X) /\ Placed
  BY WorkingIs DEF Working, ElementsInv
<1>1. /\ n \in Nat /\ Size(p) \in Nat /\ Size(p) >= 2
      /\ \A k \in Int : X[k] \in 1 .. Size(p) /\ X[k - Size(p)] = X[k]
      /\ \A j, k \in Int : j <= k /\ k < j + Size(p) /\ X[j] = X[k] => j = k
  <2>1. n \in Nat /\ Size(p) \in Nat /\ Size(p) >= 2
    BY <1>0, IndexIs
  <2>2. \A k \in Int : X[k] \in 1 .. Size(p)
    BY <1>0, IndexIs
  <2>3. \A k \in Int : X[k - Size(p)] = X[k]
    BY <1>0, IndexIs
  <2>4. \A j, k \in Int : j <= k /\ k < j + Size(p) /\ X[j] = X[k] => j = k
    <3>1. Turns(p, X)
      BY <1>0, IndexIs
    <3> QED
      BY <3>1 DEF Turns
  <2> QED
    BY <2>1, <2>2, <2>3, <2>4
<1>2. \A k \in Int : X[k] \in Entries(p)
  BY <1>1 DEF Entries, Size
<1>3. \A k \in Int : Val(p, X, k) \in Addresses /\ Key(p, X, k) \in Nat
  <2> SUFFICES ASSUME NEW k \in Int PROVE Val(p, X, k) \in Addresses /\ Key(p, X, k) \in Nat
    OBVIOUS
  <2>1. entries[p][X[k]] \in IndexEntry
    BY <1>0, <1>2, ElementOfSeq DEF IndexTypes, Entries
  <2> QED
    BY <2>1 DEF IndexEntry, Val, Key
<1>4. \A k \in Window(p, n) : k \in Int /\ n - Size(p) <= k /\ k < n
  BY <1>1 DEF Window
<1>5. \A j, k \in Window(p, n) : X[j] = X[k] => j = k
  <2> SUFFICES ASSUME NEW j \in Window(p, n), NEW k \in Window(p, n), X[j] = X[k] PROVE j = k
    OBVIOUS
  <2>1. j <= k => j = k
    BY <1>1, <1>4
  <2>2. k <= j => j = k
    BY <1>1, <1>4
  <2> QED
    BY <1>4, <2>1, <2>2
<1>6. \A j, k \in Window(p, n) : Val(p, X, j) # 0 /\ Val(p, X, j) = Val(p, X, k) => j = k
  BY <1>0, <1>2, <1>4, <1>5, Apart DEF Val
<1> QED
  BY <1>1, <1>2, <1>3, <1>4, <1>5, <1>6

\* A thread that has claimed an index finds the block of its element in the index.
LEMMA Served ==
  ASSUME NEW t, NEW p, NEW n, NEW X, NEW D, Working(t, p, n, X, D),
         NEW u \in Threads, ql[u].p = p, Role(u) \in Reading \cup {"release"},
         NEW i, i = ql[u].index, NEW k, k = Of(i)
  PROVE  /\ i \in Nat /\ i < headIndex[p] /\ i < tailIndex[p] /\ i \in Indices(k)
         /\ k \in Window(p, n) /\ k >= 0 /\ k < n /\ n - Size(p) <= k /\ Val(p, X, k) # 0
         /\ Base(k) <= i /\ i < Base(k + 1)
         /\ Role(u) \in Untaken => elements[Val(p, X, k)][PlaceOf(i)] = <<p, i>>
<1>0. /\ ElementsInv(p, n, X, D) /\ Reader(u, p, i, n, X, D)
  BY DEF Working, ElementsInv, ActorsInv
<1>1. n \in Nat /\ Size(p) \in Nat
  BY WindowIs
<1>2. i \in Nat /\ i < headIndex[p]
  <2>1. i \in Nat
    BY WorkingIs DEF ProducerTypes, ElementLocals
  <2>2. CASE Role(u) = "release"
    <3>1. i \in D /\ D \subseteq 0 .. headIndex[p] - 1
      BY <1>0, <2>2 DEF Reader, ElementsInv, DoneInv
    <3> QED
      BY <2>1, <3>1, WorkingIs
  <2>3. CASE Role(u) \in Reading
    BY <1>0, <2>1, <2>3, WorkingIs DEF Reader
  <2> QED
    BY <2>2, <2>3
<1>3. i < tailIndex[p]
  <2>1. headIndex[p] \in Nat /\ tailIndex[p] \in Nat /\ headIndex[p] <= tailIndex[p]
    BY WorkingIs
  <2> QED
    BY <1>2, <2>1
<1>4. k \in Int /\ i \in Indices(k) /\ Base(k) <= i /\ i < Base(k + 1)
  <2>1. k \in Int
    BY <1>2, BlockIs
  <2>2. Of(i) = k /\ i \in Int
    BY <1>2
  <2>3. i \in Indices(k) <=> Of(i) = k
    BY <2>1, <2>2, IndicesAre
  <2>4. i \in Indices(k) <=> (Base(k) <= i /\ i < Base(k + 1))
    BY <2>1, <2>2, IndicesAre
  <2> QED
    BY <2>1, <2>2, <2>3, <2>4
<1>5. k < n
  <2>1. i < Base(n)
    <3>1. tailIndex[p] <= Base(n) /\ Base(n) \in Int
      BY <1>0, <1>1, Bases DEF ElementsInv, TailInv
    <3> QED
      BY <1>2, <1>3, <3>1, WorkingIs
  <2>2. ~ (n <= k)
    <3>1. n <= k => Base(n) <= Base(k)
      BY <1>1, <1>4, Bases
    <3>2. Base(k) \in Int /\ Base(n) \in Int
      BY <1>1, <1>4, Bases
    <3> QED
      BY <1>2, <1>4, <2>1, <3>1, <3>2
  <2> QED
    BY <1>1, <1>4, <2>2
<1>6. k >= 0
  <2>1. k < 0 => Base(k) + BLOCK_SIZE <= Base(0) /\ Base(0) = 0
    BY <1>4, Bases
  <2>2. Base(k + 1) = Base(k) + BLOCK_SIZE /\ Base(k) \in Int /\ BLOCK_SIZE \in Int
    BY <1>4, Bases, ProducerAssumption
  <2> QED
    BY <1>2, <1>4, <2>1, <2>2
<1>7. n - Size(p) <= k /\ Val(p, X, k) # 0
  <2>1. CASE Role(u) = "release"
    BY <1>0, <1>1, <1>4, <2>1 DEF Reader
  <2>2. CASE Role(u) \in Reading
    <3>1. i \notin D
      BY <1>0, <2>2 DEF Reader
    <3>2. ~ AllDone(D, k)
      BY <1>4, <3>1 DEF AllDone
    <3>3. \/ k >= n - Size(p) /\ Val(p, X, k) # 0
          \/ AllDone(D, k)
          \/ k = n - 1 /\ tailIndex[p] = Base(k)
      BY <1>0, <1>1, <1>4, <1>5, <1>6 DEF ElementsInv, LiveInv
    <3>4. ~ (tailIndex[p] = Base(k))
      BY <1>2, <1>3, <1>4, WorkingIs
    <3> QED
      BY <1>1, <1>4, <3>2, <3>3, <3>4
  <2> QED
    BY <2>1, <2>2
<1>8. k \in Window(p, n)
  BY <1>1, <1>4, <1>5, <1>7 DEF Window
<1>9. ASSUME Role(u) \in Untaken PROVE elements[Val(p, X, k)][PlaceOf(i)] = <<p, i>>
  <2>1. Wanted(p, i)
    BY <1>3, <1>9 DEF Wanted, Awaits
  <2>2. Filled(p, k, Val(p, X, k), D)
    BY <1>0, <1>7, <1>8 DEF ElementsInv, FilledInv
  <2> QED
    BY <1>4, <2>1, <2>2 DEF Filled
<1> QED
  BY <1>2, <1>3, <1>4, <1>5, <1>6, <1>7, <1>8, <1>9

\* What another thread that dequeues knows stays true.
LEMMA ReaderStays ==
  ASSUME NEW p, NEW n, NEW X, NEW D, NEW u, NEW i, Reader(u, p, i, n, X, D), NEW n1, NEW X1, NEW D1,
         Role(u)' = Role(u), ql'[u] = ql[u], D \subseteq D1,
         headIndex[p] \in Nat, headIndex'[p] \in Nat, headIndex[p] <= headIndex'[p],
         Role(u) \in Reading => i \notin D1 /\ \A w \in Threads : w # u => (Reads(w, p, i)'
           => Reads(w, p, i)),
         Role(u) = "entry" => Finds(u, p, i, n1, X1)',
         Role(u) \in {"take", "setempty", "release"} => X1[Of(i)] = X[Of(i)],
         Role(u) \in {"setempty", "release"} => Val(p, X1, Of(i))' = Val(p, X, Of(i)),
         Role(u) = "release" =>
           /\ Of(i) >= n1 - Size(p)'
           /\ \A w \in Threads : w # u => (Releases(w, p, Of(i))' => Releases(w, p, Of(i)))
  PROVE  Reader(u, p, i, n1, X1, D1)'
<1>1. (Role(u) \in Reading =>
         /\ i \in 0 .. headIndex[p] - 1 /\ i \notin D1
         /\ \A w \in Threads : w # u => ~ Reads(w, p, i))'
  BY DEF Reader
<1>2. (Role(u) = "entry" => Finds(u, p, i, n1, X1))'
  OBVIOUS
<1>3. (Role(u) \in {"take", "setempty", "release"} => ql[u].entry = X1[Of(i)])'
  BY DEF Reader
<1>4. (Role(u) \in {"setempty", "release"} => ql[u].block = Val(p, X1, Of(i)))'
  BY DEF Reader
<1>5. (Role(u) = "setempty" => ql[u].element = <<p, i>>)'
  BY DEF Reader
<1>6. (Role(u) = "release" =>
         /\ i \in D1 /\ Of(i) >= n1 - Size(p) /\ ql[u].block # 0 /\ AllDone(D1, Of(i))
         /\ \A w \in Threads : w # u => ~ Releases(w, p, Of(i)))'
  BY DEF Reader, AllDone
<1> QED
  BY <1>1, <1>2, <1>3, <1>4, <1>5, <1>6 DEF Reader

-----------------------------------------------------------------------------
\* The roles of a thread that enqueues.
Writing == {"insert", "settail", "gets"} \cup Filling

\* A step of a thread that enqueues: no other thread does so with this producer.
LEMMA OwnWriter ==
  ASSUME NEW t, NEW p, NEW n, NEW X, NEW D, Working(t, p, n, X, D), Enqueuing(t)
  PROVE  /\ \A u \in Threads : u # t /\ ql[u].p = p => Role(u) \notin Writing
              /\ Role(u)' \notin Writing
         /\ \A u \in Threads : u # t => ~ Fills(u, p) /\ ~ Fills(u, p)'
         /\ pc[t] # "enqueue" => ql[t].index = tailIndex[p]
         /\ Writer(t, p, n, X)
         /\ Role(t) \notin Reading /\ Role(t) # "release"
<1>0. /\ t \in Threads /\ p = ql[t].p /\ QueueInv /\ WriterInv /\ AtTail
      /\ \A u \in Threads : u # t => Role(u)' = Role(u) /\ ql'[u] = ql[u]
  <2>1. t \in Threads /\ p = ql[t].p
    BY WorkingIs
  <2>2. \A u \in Threads : u # t => Role(u)' = Role(u) /\ ql'[u] = ql[u]
    BY WorkingIs
  <2> QED
    BY <2>1, <2>2 DEF Working, BaseInv
<1>1. ASSUME NEW u \in Threads, u # t, ql[u].p = p
      PROVE  Role(u) \notin Writing /\ Role(u)' \notin Writing
  <2>1. ~ Enqueuing(u)
    BY <1>0, <1>1, WriterAlone
  <2>2. Role(u) \in Writing => Enqueuing(u)
    BY DEF Role, Writing, Filling, Enqueuing, EnqueueLabels, Getting, AddLabels, Reading, Untaken
  <2> QED
    BY <1>0, <1>1, <2>1, <2>2
<1>2. ASSUME NEW u \in Threads, u # t
      PROVE  ~ Fills(u, p) /\ ~ Fills(u, p)'
  BY <1>0, <1>1, <1>2 DEF Fills, Writing
<1>3. pc[t] # "enqueue" => ql[t].index = tailIndex[p]
  BY <1>0 DEF AtTail
<1>4. Writer(t, p, n, X)
  BY <1>0 DEF Working, ElementsInv, ActorsInv
<1>5. Role(t) \notin Reading /\ Role(t) # "release"
  BY DEF Role, Reading, Untaken, Filling, Enqueuing, EnqueueLabels, Getting, AddLabels
<1> QED
  BY <1>1, <1>2, <1>3, <1>4, <1>5

\* What the others do in a step of t.
LEMMA OthersDo ==
  ASSUME NEW t, NEW p, NEW n, NEW X, NEW D, Working(t, p, n, X, D)
  PROVE  \A u \in Threads : u # t =>
           /\ Fills(u, p)' <=> Fills(u, p)
           /\ \A i : Reads(u, p, i)' <=> Reads(u, p, i)
           /\ \A i : Awaits(u, p, i)' <=> Awaits(u, p, i)
           /\ \A k : Releases(u, p, k)' <=> Releases(u, p, k)
<1>1. \A u \in Threads : u # t => Role(u)' = Role(u) /\ ql'[u] = ql[u]
  BY WorkingIs
<1> QED
  BY <1>1 DEF Fills, Reads, Awaits, Releases

\* A step of enqueue: no element is dequeued.
LEMMA WriterElements ==
  ASSUME NEW t, NEW p, NEW n, NEW X, NEW D, Working(t, p, n, X, D), Enqueuing(t),
         Role(t)' \notin Reading, Role(t)' # "release",
         headIndex'[p] = headIndex[p], NEW n1, NEW X1,
         IndexInv(p, n1, X1)', KeysInv(p, n1, X1)', TailInv(p, n1)', LiveInv(p, n1, X1, D)',
         FilledInv(p, n1, X1, D)', LastInv(p, n1, X1)', Writer(t, p, n1, X1)',
         \A u \in Threads : \A i :
           u # t /\ ql[u].p = p /\ ql[u].index = i /\ Role(u) \in Reading \cup {"release"} =>
             /\ Role(u) = "entry" => Finds(u, p, i, n1, X1)'
             /\ X1[Of(i)] = X[Of(i)] /\ Val(p, X1, Of(i))' = Val(p, X, Of(i))
             /\ Of(i) >= n1 - Size(p)'
  PROVE  ElementsInv(p, n1, X1, D)'
<1>0. /\ t \in Threads /\ headIndex[p] \in Nat /\ headIndex'[p] \in Nat /\ p <= producers'
      /\ ElementsInv(p, n, X, D)
  <2>1. t \in Threads /\ headIndex[p] \in Nat /\ headIndex'[p] \in Nat /\ p <= producers'
    BY WorkingIs
  <2> QED
    BY <2>1 DEF Working
<1>a. \A u \in Threads : u # t => Role(u)' = Role(u) /\ ql'[u] = ql[u]
  BY WorkingIs
<1>b. ql'[t].p = p
  BY WorkingIs
<1>1. \A u \in Threads : \A i : Reads(u, p, i)' <=> Reads(u, p, i)
  <2>1. Role(t) \notin Reading
    BY OwnWriter
  <2>2. \A i : ~ Reads(t, p, i) /\ ~ Reads(t, p, i)'
    BY <2>1 DEF Reads
  <2> QED
    BY <2>2, OthersDo
<1>2. \A u \in Threads : \A k : Releases(u, p, k)' <=> Releases(u, p, k)
  <2>1. Role(t) # "release"
    BY OwnWriter
  <2>2. \A k : ~ Releases(t, p, k) /\ ~ Releases(t, p, k)'
    BY <2>1 DEF Releases
  <2> QED
    BY <2>2, OthersDo
<1>3. DoneInv(p, D)'
  BY <1>0, <1>1 DEF ElementsInv, DoneInv
<1>4. ASSUME NEW u \in Threads, ql'[u].p = p
      PROVE  Writer(u, p, n1, X1)' /\ \A i : ql'[u].index = i => Reader(u, p, i, n1, X1, D)'
  <2>1. CASE u = t
    <3>1. Role(u)' \notin Reading /\ Role(u)' \notin {"take", "setempty", "release"}
            /\ Role(u)' # "entry"
      BY <2>1 DEF Reading, Untaken
    <3>2. \A i : Reader(u, p, i, n1, X1, D)'
      BY <3>1 DEF Reader
    <3> QED
      BY <2>1, <3>2
  <2>2. CASE u # t
    <3>1. Role(u)' \notin Writing
      BY <1>4, <1>a, <2>2, OwnWriter
    <3>2. Writer(u, p, n1, X1)'
      BY <3>1 DEF Writer, Writing, Filling
    <3>3. ASSUME NEW i, ql'[u].index = i PROVE Reader(u, p, i, n1, X1, D)'
      <4>1. Role(u)' = Role(u) /\ ql'[u] = ql[u] /\ ql[u].p = p /\ ql[u].index = i
        BY <1>4, <1>a, <2>2, <3>3
      <4>2. Reader(u, p, i, n, X, D)
        BY <1>0, <4>1 DEF ElementsInv, ActorsInv
      <4>3. Role(u) \in Reading =>
              i \notin D /\ \A w \in Threads : w # u => (Reads(w, p, i)' => Reads(w, p, i))
        BY <1>1, <4>2 DEF Reader
      <4>4. Role(u) \in {"entry", "take", "setempty", "release"} =>
              Role(u) \in Reading \cup {"release"}
        BY DEF Reading, Untaken
      <4>5. Role(u) = "entry" => Finds(u, p, i, n1, X1)'
        BY <2>2, <4>1, <4>4
      <4>6. Role(u) \in {"take", "setempty", "release"} => X1[Of(i)] = X[Of(i)]
        BY <2>2, <4>1, <4>4
      <4>7. Role(u) \in {"setempty", "release"} => Val(p, X1, Of(i))' = Val(p, X, Of(i))
        BY <2>2, <4>1, <4>4
      <4>8. Role(u) = "release" =>
              /\ Of(i) >= n1 - Size(p)'
              /\ \A w \in Threads : w # u => (Releases(w, p, Of(i))' => Releases(w, p, Of(i)))
        <5>1. Role(u) = "release" => Of(i) >= n1 - Size(p)'
          BY <2>2, <4>1, <4>4
        <5>2. \A w \in Threads : Releases(w, p, Of(i))' => Releases(w, p, Of(i))
          BY <1>2
        <5> QED
          BY <5>1, <5>2
      <4>9. headIndex[p] <= headIndex'[p]
        BY <1>0
      <4>10. D \subseteq D
        OBVIOUS
      <4> QED
        BY <1>0, <4>1, <4>2, <4>3, <4>5, <4>6, <4>7, <4>8, <4>9, <4>10, ReaderStays
    <3> QED
      BY <3>2, <3>3
  <2> QED
    BY <2>1, <2>2
<1>5. ActorsInv(p, n1, X1, D)'
  BY <1>4 DEF ActorsInv
<1> QED
  BY <1>0, <1>3, <1>5 DEF ElementsInv

\* A step of dequeue: no block is added.
LEMMA ReaderElements ==
  ASSUME NEW t, NEW p, NEW n, NEW X, NEW D, Working(t, p, n, X, D),
         Role(t) \notin Writing, Role(t)' \notin Writing, NEW D1, D \subseteq D1,
         tailIndex'[p] = tailIndex[p], tailBlock'[p] = tailBlock[p],
         blockIndex'[p] = blockIndex[p], Size(p)' = Size(p), headIndex[p] <= headIndex'[p],
         \A k \in Int : /\ Key(p, X, k)' = Key(p, X, k)
                        /\ Val(p, X, k)' = Val(p, X, k) \/ Val(p, X, k)' = 0,
         n > 0 /\ tailIndex[p] < Base(n) => Val(p, X, n - 1)' = Val(p, X, n - 1),
         n > 0 /\ Base(n - 1) <= tailIndex[p] /\ tailIndex[p] < Base(n)
           /\ tailBlock[p] = Val(p, X, n - 1) /\ Val(p, X, n - 1) # 0
           /\ elements[tailBlock[p]][PlaceOf(tailIndex[p])] = <<p, tailIndex[p]>> =>
                elements'[tailBlock[p]][PlaceOf(tailIndex[p])] = <<p, tailIndex[p]>>,
         DoneInv(p, D1)', LiveInv(p, n, X, D1)', FilledInv(p, n, X, D1)',
         \A i : ql'[t].index = i => Reader(t, p, i, n, X, D1)',
         \A u \in Threads : \A i :
           u # t /\ ql[u].p = p /\ ql[u].index = i =>
             /\ Role(u) \in Reading => i \notin D1 /\ (Reads(t, p, i)' => Reads(t, p, i))
             /\ Role(u) \in {"setempty", "release"} => Val(p, X, Of(i))' = Val(p, X, Of(i))
             /\ Role(u) = "release" => (Releases(t, p, Of(i))' => Releases(t, p, Of(i)))
  PROVE  ElementsInv(p, n, X, D1)'
<1>0. /\ t \in Threads /\ headIndex[p] \in Nat /\ headIndex'[p] \in Nat /\ p <= producers'
      /\ ElementsInv(p, n, X, D) /\ tailIndex[p] \in Nat
  <2>1. /\ t \in Threads /\ headIndex[p] \in Nat /\ headIndex'[p] \in Nat /\ p <= producers'
        /\ tailIndex[p] \in Nat
    BY WorkingIs
  <2> QED
    BY <2>1 DEF Working
<1>a. \A u \in Threads : u # t => Role(u)' = Role(u) /\ ql'[u] = ql[u]
  BY WorkingIs
<1>b. ql'[t].p = p /\ n \in Nat
  <2>1. ql'[t].p = p
    BY WorkingIs
  <2>2. n \in Nat
    BY WindowIs
  <2> QED
    BY <2>1, <2>2
<1>c. Current(p)' = Current(p) /\ Window(p, n)' = Window(p, n)
  BY DEF Current, Window
<1>d. \A k \in Window(p, n) : k \in Int
  BY WindowIs
<1>1. IndexInv(p, n, X)'
  BY <1>0, <1>c DEF ElementsInv, IndexInv
<1>2. KeysInv(p, n, X)'
  <2>1. n - 1 \in Int
    BY <1>b
  <2>2. KeysInv(p, n, X)
    BY <1>0 DEF ElementsInv
  <2> QED
    BY <1>c, <1>d, <2>1, <2>2 DEF KeysInv
<1>e. n > 0 => Base(n - 1) \in Int /\ Base(n) \in Int /\ Base(n - 1) < Base(n)
  <2>1. n > 0 => n - 1 \in Int /\ n \in Int
    BY <1>b
  <2>2. Base(n - 1) \in Int /\ Base(n) \in Int /\ Base(n) = Base(n - 1) + BLOCK_SIZE
    BY <1>b, <2>1, Bases
  <2> QED
    BY <2>2, ProducerAssumption
<1>3. TailInv(p, n)'
  <2>1. \A u \in Threads : Fills(u, p)' <=> Fills(u, p)
    <3>1. ~ Fills(t, p) /\ ~ Fills(t, p)'
      BY DEF Fills, Writing
    <3> QED
      BY <3>1, OthersDo
  <2>2. TailInv(p, n)
    BY <1>0 DEF ElementsInv
  <2> QED
    BY <2>1, <2>2 DEF TailInv
<1>4. LastInv(p, n, X)'
  <2>1. LastInv(p, n, X) /\ n - 1 \in Int /\ n - 2 \in Int
    BY <1>0, <1>b DEF ElementsInv
  <2>2. (n > 0 /\ Val(p, X, n - 1) # 0 => tailBlock[p] = Val(p, X, n - 1))'
    BY <2>1 DEF LastInv
  <2>3. (n > 1 /\ tailIndex[p] = Base(n - 1) /\ Val(p, X, n - 1) = 0 /\ Val(p, X, n - 2) # 0 =>
           tailBlock[p] = Val(p, X, n - 2))'
    <3> SUFFICES ASSUME n > 1, tailIndex[p] = Base(n - 1), Val(p, X, n - 1)' = 0,
                        Val(p, X, n - 2)' # 0
                 PROVE  tailBlock[p] = Val(p, X, n - 2)'
      OBVIOUS
    <3>1. n > 0
      BY <1>b
    <3>2. Val(p, X, n - 1) = 0
      BY <1>e, <3>1
    <3>3. Val(p, X, n - 2)' = Val(p, X, n - 2)
      BY <2>1
    <3> QED
      BY <2>1, <3>2, <3>3 DEF LastInv
  <2> QED
    BY <2>2, <2>3 DEF LastInv
<1>5. ASSUME NEW u \in Threads, u # t, ql'[u].p = p
      PROVE  Writer(u, p, n, X)'
  <2>1. Role(u)' = Role(u) /\ ql'[u] = ql[u] /\ Writer(u, p, n, X)
    BY <1>0, <1>5, <1>a DEF ElementsInv, ActorsInv
  <2>2. n \in Int /\ n - 1 \in Int /\ n - 2 \in Int
    BY <1>b
  <2>3. (Role(u) \in {"insert", "settail"} => tailIndex[p] = Base(n))'
    BY <2>1 DEF Writer
  <2>4. (Role(u) = "settail" => /\ ql[u].entry = X[n]
                                /\ Val(p, X, n) = 0 /\ Key(p, X, n) = Base(n))'
    BY <2>1, <2>2 DEF Writer
  <2>5. (Role(u) = "gets" => /\ n > 0 /\ tailIndex[p] = Base(n - 1) /\ ql[u].entry = X[n - 1]
                             /\ Val(p, X, n - 1) = 0
                             /\ n > 1 => Key(p, X, n - 2) = Base(n - 2))'
    BY <2>1, <2>2 DEF Writer
  <2>6. (Role(u) \in Filling => n > 0 /\ tailIndex[p] < Base(n) /\ Val(p, X, n - 1) # 0)'
    BY <2>1 DEF Writer
  <2>7. (Role(u) = "publish" => elements[tailBlock[p]][PlaceOf(tailIndex[p])] = <<p,
          tailIndex[p]>>)'
    <3> SUFFICES ASSUME Role(u) = "publish"
                 PROVE  elements'[tailBlock[p]][PlaceOf(tailIndex[p])] = <<p, tailIndex[p]>>
      BY <2>1
    <3>1. /\ n > 0 /\ tailIndex[p] < Base(n) /\ Val(p, X, n - 1) # 0
          /\ elements[tailBlock[p]][PlaceOf(tailIndex[p])] = <<p, tailIndex[p]>>
      BY <2>1 DEF Writer, Filling
    <3>2. Base(n - 1) <= tailIndex[p] /\ tailBlock[p] = Val(p, X, n - 1)
      BY <1>0, <3>1 DEF ElementsInv, TailInv, LastInv
    <3> QED
      BY <3>1, <3>2
  <2> QED
    BY <2>3, <2>4, <2>5, <2>6, <2>7 DEF Writer
<1>6. ASSUME NEW u \in Threads, u # t, ql'[u].p = p, NEW i, ql'[u].index = i
      PROVE  Reader(u, p, i, n, X, D1)'
  <2>1. Role(u)' = Role(u) /\ ql'[u] = ql[u] /\ ql[u].p = p /\ ql[u].index = i
    BY <1>6, <1>a
  <2>2. Reader(u, p, i, n, X, D)
    BY <1>0, <2>1 DEF ElementsInv, ActorsInv
  <2>3. Role(u) \in Reading =>
          i \notin D1 /\ \A w \in Threads : w # u => (Reads(w, p, i)' => Reads(w, p, i))
    <3>1. \A w \in Threads : w # t => (Reads(w, p, i)' => Reads(w, p, i))
      BY OthersDo
    <3> QED
      BY <1>6, <2>1, <3>1
  <2>4. Role(u) = "entry" => Finds(u, p, i, n, X)'
    <3> SUFFICES ASSUME Role(u) = "entry" PROVE Finds(u, p, i, n, X)'
      OBVIOUS
    <3>1. Finds(u, p, i, n, X)
      BY <2>2 DEF Reader
    <3>2. PICK h, x : h = blockIndex[p][ql[u].header] /\ x = ql[u].tail
      OBVIOUS
    <3>3. PICK m \in Of(i) .. n :
            /\ Slot(h, x) = X[m]
            /\ Key(p, X, m) = Base(m)
            /\ Slot(h, x + (Of(i) - m)) = X[Of(i)]
            /\ m = n => Val(p, X, n) = 0 /\ tailIndex[p] = Base(n)
      BY <3>1, <3>2 DEF Finds
    <3>4. m \in Int /\ n \in Int
      BY <1>b
    <3>5. Key(p, X, m)' = Base(m) /\ (m = n => Val(p, X, n)' = 0)
      BY <3>3, <3>4
    <3>6. blockIndex'[p][ql'[u].header] = h /\ ql'[u].tail = x
      BY <2>1, <3>2
    <3> QED
      BY <3>3, <3>5, <3>6 DEF Finds
  <2>5. Role(u) \in {"take", "setempty", "release"} => X[Of(i)] = X[Of(i)]
    OBVIOUS
  <2>6. Role(u) \in {"setempty", "release"} => Val(p, X, Of(i))' = Val(p, X, Of(i))
    BY <1>6, <2>1
  <2>7. Role(u) = "release" =>
          /\ Of(i) >= n - Size(p)'
          /\ \A w \in Threads : w # u => (Releases(w, p, Of(i))' => Releases(w, p, Of(i)))
    <3> SUFFICES ASSUME Role(u) = "release"
                 PROVE  /\ Of(i) >= n - Size(p)'
                        /\ \A w \in Threads : w # u => (Releases(w, p, Of(i))'
                             => Releases(w, p, Of(i)))
      OBVIOUS
    <3>1. Of(i) >= n - Size(p)'
      BY <2>2 DEF Reader
    <3>2. \A w \in Threads : w # t => (Releases(w, p, Of(i))' => Releases(w, p, Of(i)))
      BY OthersDo
    <3>3. Releases(t, p, Of(i))' => Releases(t, p, Of(i))
      BY <1>6, <2>1
    <3> QED
      BY <3>1, <3>2, <3>3
  <2> QED
    BY <1>0, <2>1, <2>2, <2>3, <2>4, <2>5, <2>6, <2>7, ReaderStays
<1>7. ASSUME NEW u \in Threads, ql'[u].p = p
      PROVE  Writer(u, p, n, X)' /\ \A i : ql'[u].index = i => Reader(u, p, i, n, X, D1)'
  <2>1. CASE u # t
    BY <1>5, <1>6, <1>7, <2>1
  <2>2. CASE u = t
    <3>1. Writer(u, p, n, X)'
      BY <2>2 DEF Writer, Writing, Filling
    <3> QED
      BY <2>2, <3>1
  <2> QED
    BY <2>1, <2>2
<1>8. ActorsInv(p, n, X, D1)'
  BY <1>7 DEF ActorsInv
<1> QED
  BY <1>0, <1>1, <1>2, <1>3, <1>4, <1>8 DEF ElementsInv

-----------------------------------------------------------------------------
\* Where the tail of p is.
LEMMA TailIs ==
  ASSUME NEW t, NEW p, NEW n, NEW X, NEW D, Working(t, p, n, X, D)
  PROVE  /\ n \in Nat /\ tailIndex[p] \in Nat /\ BLOCK_SIZE \in Nat /\ BLOCK_SIZE >= 2
         /\ Base(n - 1) \in Int /\ Base(n) \in Int /\ Base(n) = Base(n - 1) + BLOCK_SIZE
         /\ Base(n - 1) <= tailIndex[p] /\ tailIndex[p] <= Base(n)
         /\ tailIndex[p] < Base(n) => n > 0 /\ tailIndex[p] \in Indices(n - 1)
         /\ \A k \in Int : AllDone(D, k) => /\ Base(k + 1) <= tailIndex[p]
                                            /\ k < n
         /\ n > 0 => n - 1 \in Window(p, n)
<1>1. n \in Nat /\ tailIndex[p] \in Nat /\ headIndex[p] \in Nat /\ headIndex[p] <= tailIndex[p]
  <2>1. tailIndex[p] \in Nat /\ headIndex[p] \in Nat /\ headIndex[p] <= tailIndex[p]
    BY WorkingIs
  <2> QED
    BY <2>1, WindowIs
<1>2. n - 1 \in Int /\ n \in Int /\ (n - 1) + 1 = n
  BY <1>1
<1>3. Base(n - 1) \in Int /\ Base(n) \in Int /\ Base(n) = Base(n - 1) + BLOCK_SIZE
  BY <1>2, Bases
<1>4. Base(n - 1) <= tailIndex[p] /\ tailIndex[p] <= Base(n)
  BY DEF Working, ElementsInv, TailInv
<1>5. ASSUME tailIndex[p] < Base(n) PROVE n > 0 /\ tailIndex[p] \in Indices(n - 1)
  <2>1. n > 0
    <3>1. n = 0 => Base(n) = 0
      BY Bases
    <3> QED
      BY <1>1, <1>3, <1>5, <3>1
  <2>2. tailIndex[p] \in Indices(n - 1)
    <3>1. tailIndex[p] \in Indices(n - 1) <=> (Base(n - 1) <= tailIndex[p]
            /\ tailIndex[p] < Base((n - 1) + 1))
      <4>1. PICK k, x : k = n - 1 /\ x = tailIndex[p]
        OBVIOUS
      <4>2. k \in Int /\ x \in Int
        BY <1>1, <4>1
      <4>3. x \in Indices(k) <=> (Base(k) <= x /\ x < Base(k + 1))
        BY <4>2, IndicesAre
      <4> QED
        BY <4>1, <4>3
    <3> QED
      BY <1>2, <1>4, <1>5, <3>1
  <2> QED
    BY <2>1, <2>2
<1>6. ASSUME NEW k \in Int, AllDone(D, k) PROVE Base(k + 1) <= tailIndex[p] /\ k < n
  <2>1. Base(k + 1) - 1 \in Indices(k) /\ Base(k + 1) \in Int /\ Base(k + 1) = Base(k) + BLOCK_SIZE
        /\ Base(k) \in Int
    BY IndicesAre
  <2>2. Base(k + 1) - 1 \in 0 .. headIndex[p] - 1
    <3>1. D \subseteq 0 .. headIndex[p] - 1
      BY DEF Working, ElementsInv, DoneInv
    <3> QED
      BY <1>6, <2>1, <3>1 DEF AllDone
  <2>3. Base(k + 1) <= tailIndex[p]
    BY <1>1, <2>1, <2>2
  <2>4. n <= k => Base(n) <= Base(k)
    BY <1>2, Bases
  <2> QED
    BY <1>1, <1>3, <1>4, <2>1, <2>3, <2>4, ProducerAssumption
<1>7. n > 0 => n - 1 \in Window(p, n)
  <2>1. Size(p) \in Nat /\ Size(p) >= 2
    BY WindowIs
  <2> QED
    BY <1>1, <2>1 DEF Window
<1> QED
  BY <1>1, <1>3, <1>4, <1>5, <1>6, <1>7, ProducerAssumption

\* The index is not written.
LEMMA PlainIs ==
  ASSUME NEW p, entries'[p] = entries[p], blockIndex'[p] = blockIndex[p]
  PROVE  /\ \A X, k : Val(p, X, k)' = Val(p, X, k) /\ Key(p, X, k)' = Key(p, X, k)
         /\ Size(p)' = Size(p) /\ Current(p)' = Current(p)
         /\ \A n : Window(p, n)' = Window(p, n)
BY DEF Val, Key, Size, Window, Current

\* A search goes on when the index has not changed.
LEMMA FindsSame ==
  ASSUME NEW p, entries'[p] = entries[p], blockIndex'[p] = blockIndex[p],
         NEW u, NEW i, NEW n, NEW X, Finds(u, p, i, n, X), ql'[u] = ql[u],
         tailIndex'[p] = tailIndex[p] \/ tailIndex[p] # Base(n)
  PROVE  Finds(u, p, i, n, X)'
<1>1. \A k : Val(p, X, k)' = Val(p, X, k) /\ Key(p, X, k)' = Key(p, X, k)
  BY PlainIs
<1> QED
  BY <1>1 DEF Finds

\* A step of an enqueue that does nothing to the index nor to the head.
LEMMA PlainElements ==
  ASSUME NEW t, NEW p, NEW n, NEW X, NEW D, Working(t, p, n, X, D), Enqueuing(t),
         Role(t)' \notin Reading, Role(t)' # "release",
         headIndex'[p] = headIndex[p], entries'[p] = entries[p], blockIndex'[p] = blockIndex[p],
         tailIndex'[p] = tailIndex[p] \/ tailIndex[p] # Base(n),
         TailInv(p, n)', LiveInv(p, n, X, D)', FilledInv(p, n, X, D)', LastInv(p, n, X)',
         Writer(t, p, n, X)'
  PROVE  ElementsInv(p, n, X, D)'
<1>1. /\ \A k : Val(p, X, k)' = Val(p, X, k) /\ Key(p, X, k)' = Key(p, X, k)
      /\ Size(p)' = Size(p) /\ Current(p)' = Current(p)
      /\ Window(p, n)' = Window(p, n)
  BY PlainIs
<1>2. IndexInv(p, n, X)' /\ KeysInv(p, n, X)'
  BY <1>1 DEF Working, ElementsInv, IndexInv, KeysInv
<1>3. ASSUME NEW u \in Threads, NEW i,
             u # t /\ ql[u].p = p /\ ql[u].index = i /\ Role(u) \in Reading \cup {"release"}
      PROVE  /\ Role(u) = "entry" => Finds(u, p, i, n, X)'
             /\ X[Of(i)] = X[Of(i)] /\ Val(p, X, Of(i))' = Val(p, X, Of(i))
             /\ Of(i) >= n - Size(p)'
  <2>1. Of(i) >= n - Size(p)'
    <3>1. n - Size(p) <= Of(i) /\ Of(i) \in Window(p, n) /\ Size(p) \in Nat /\ n \in Nat
      BY <1>3, Served, WindowIs
    <3>2. Of(i) \in Int
      BY <3>1 DEF Window
    <3> QED
      BY <1>1, <3>1, <3>2
  <2>2. Role(u) = "entry" => Finds(u, p, i, n, X)'
    <3>1. Role(u) = "entry" => Finds(u, p, i, n, X)
      BY <1>3 DEF Working, ElementsInv, ActorsInv, Reader
    <3>2. ql'[u] = ql[u]
      BY <1>3, WorkingIs
    <3> QED
      BY <3>1, <3>2, FindsSame
  <2> QED
    BY <1>1, <2>1, <2>2
<1> QED
  BY <1>2, <1>3, WriterElements

-----------------------------------------------------------------------------
\* The values and the roles that a step of enqueue leaves.
LEMMA RolesSame ==
  ASSUME NEW t, NEW p, NEW n, NEW X, NEW D, Working(t, p, n, X, D), Enqueuing(t),
         Role(t)' \notin Reading, Role(t)' # "release"
  PROVE  /\ \A u \in Threads : \A i : Reads(u, p, i)' <=> Reads(u, p, i)
         /\ \A u \in Threads : \A i : Awaits(u, p, i)' <=> Awaits(u, p, i)
         /\ \A u \in Threads : \A k : Releases(u, p, k)' <=> Releases(u, p, k)
<1>1. Role(t) \notin Reading /\ Role(t) # "release"
  BY OwnWriter
<1>2. Role(t) \notin Untaken /\ Role(t)' \notin Untaken
  BY <1>1 DEF Reading
<1>3. /\ \A i : ~ Reads(t, p, i) /\ ~ Reads(t, p, i)'
      /\ \A i : ~ Awaits(t, p, i) /\ ~ Awaits(t, p, i)'
      /\ \A k : ~ Releases(t, p, k) /\ ~ Releases(t, p, k)'
  BY <1>1, <1>2 DEF Reads, Awaits, Releases
<1> QED
  BY <1>3, OthersDo

\* An enqueue starts.
LEMMA EnqueueElements ==
  ASSUME NEW t, NEW p, NEW n, NEW X, NEW D, Working(t, p, n, X, D), Enqueue(t)
  PROVE  ElementsInv(p, n, X, D)'
<1>1. Enqueuing(t) /\ pc[t] = "enqueue" /\ Role(t) = "none"
  BY DEF Enqueue, Enqueuing, EnqueueLabels, Role, Getting, AddLabels, Filling, Reading, Untaken
<1>2. UNCHANGED <<elements, dequeuedIn, tailIndex, headIndex, tailBlock, entries, blockIndex>>
  BY DEF Enqueue, producerVars
<1>3. /\ \A l : Go(t, l) => pc'[t] = l
      /\ \A w : Remember(t, w) => ql'[t] = w
      /\ p = ql[t].p
  BY WorkingIs
<1>4. pc'[t] = IF tailIndex[p] % BLOCK_SIZE = 0 THEN "insert" ELSE "construct"
  BY <1>3 DEF Enqueue
<1>5. Role(t)' = IF tailIndex[p] % BLOCK_SIZE = 0 THEN "insert" ELSE "construct"
  BY <1>4 DEF Role, Getting, AddLabels, Filling, Reading, Untaken
<1>6. Role(t)' \notin Reading /\ Role(t)' # "release"
  BY <1>5 DEF Reading, Untaken
<1>a. /\ \A Y, k : Val(p, Y, k)' = Val(p, Y, k) /\ Key(p, Y, k)' = Key(p, Y, k)
      /\ Size(p)' = Size(p) /\ Current(p)' = Current(p)
      /\ Window(p, n)' = Window(p, n)
  BY <1>2, PlainIs
<1>b. ElementsInv(p, n, X, D)
  BY DEF Working
<1>7. n > 0 => tailIndex[p] # Base(n - 1)
  <2>1. ~ Fills(t, p)
    BY <1>1 DEF Fills, Filling
  <2>2. \A u \in Threads : ~ Fills(u, p)
    BY <1>1, <2>1, OwnWriter
  <2> QED
    BY <1>b, <2>2 DEF ElementsInv, TailInv
<1>8. TailInv(p, n)'
  BY <1>2, <1>7, <1>b DEF ElementsInv, TailInv
<1>9. LiveInv(p, n, X, D)' /\ LastInv(p, n, X)'
  BY <1>2, <1>a, <1>b DEF ElementsInv, LiveInv, LastInv
<1>10. FilledInv(p, n, X, D)'
  <2>1. \A i : Wanted(p, i)' <=> Wanted(p, i)
    BY <1>1, <1>2, <1>6, RolesSame DEF Wanted
  <2>2. \A u \in Threads : \A k : Releases(u, p, k)' <=> Releases(u, p, k)
    BY <1>1, <1>6, RolesSame
  <2> QED
    BY <1>2, <1>a, <1>b, <2>1, <2>2 DEF ElementsInv, FilledInv, Filled
<1>11. Writer(t, p, n, X)'
  <2>0. /\ n \in Nat /\ tailIndex[p] \in Nat /\ BLOCK_SIZE \in Nat /\ BLOCK_SIZE >= 2
        /\ Base(n - 1) \in Int /\ Base(n) \in Int /\ Base(n) = Base(n - 1) + BLOCK_SIZE
        /\ Base(n - 1) <= tailIndex[p] /\ tailIndex[p] <= Base(n)
        /\ tailIndex[p] < Base(n) => n > 0 /\ tailIndex[p] \in Indices(n - 1)
    BY TailIs
  <2>1. CASE tailIndex[p] % BLOCK_SIZE = 0
    <3>1. tailIndex[p] = Base(n)
      <4> SUFFICES ASSUME tailIndex[p] < Base(n) PROVE FALSE
        BY <2>0
      <4>1. PICK k, x : k = n - 1 /\ x = tailIndex[p]
        OBVIOUS
      <4>2. k \in Int /\ x \in Indices(k) /\ n > 0
        BY <2>0, <4>1
      <4>3. PlaceOf(x) = x - Base(k)
        BY <4>2, IndicesAre
      <4>4. x = Base(k)
        BY <2>0, <2>1, <4>1, <4>3 DEF PlaceOf
      <4> QED
        BY <1>7, <4>1, <4>2, <4>4
    <3>2. Role(t)' = "insert"
      BY <1>5, <2>1
    <3> QED
      BY <1>2, <3>1, <3>2 DEF Writer, Filling
  <2>2. CASE tailIndex[p] % BLOCK_SIZE # 0
    <3>1. Role(t)' = "construct"
      BY <1>5, <2>2
    <3>2. tailIndex[p] < Base(n) /\ n > 0
      <4>1. Base(n) % BLOCK_SIZE = 0
        BY <2>0, BlockIs
      <4> QED
        BY <2>0, <2>2, <4>1
    <3>3. Val(p, X, n - 1) # 0
      <4>1. \/ n - 1 >= n - Size(p) /\ Val(p, X, n - 1) # 0
            \/ AllDone(D, n - 1)
            \/ n - 1 = n - 1 /\ tailIndex[p] = Base(n - 1)
        <5>1. n - 1 \in 0 .. n - 1
          BY <2>0, <3>2
        <5> QED
          BY <1>b, <5>1 DEF ElementsInv, LiveInv
      <4>2. ~ AllDone(D, n - 1)
        <5>1. n - 1 \in Int
          BY <2>0
        <5>2. AllDone(D, n - 1) => Base((n - 1) + 1) <= tailIndex[p]
          BY <5>1, TailIs
        <5>3. (n - 1) + 1 = n
          BY <2>0
        <5> QED
          BY <2>0, <3>2, <5>2, <5>3
      <4> QED
        BY <1>7, <3>2, <4>1, <4>2
    <3> QED
      BY <1>2, <1>a, <3>1, <3>2, <3>3 DEF Writer, Filling
  <2> QED
    BY <2>1, <2>2
<1> QED
  BY <1>1, <1>2, <1>6, <1>8, <1>9, <1>10, <1>11, PlainElements

\* Where an enqueue puts its element.
LEMMA FillsLast ==
  ASSUME NEW t, NEW p, NEW n, NEW X, NEW D, Working(t, p, n, X, D), pc[t] \in Filling
  PROVE  /\ Enqueuing(t) /\ Role(t) = pc[t] /\ ql[t].index = tailIndex[p]
         /\ n > 0 /\ tailIndex[p] < Base(n) /\ tailIndex[p] \in Indices(n - 1)
         /\ n - 1 \in Window(p, n)
         /\ tailBlock[p] # 0 /\ tailBlock[p] = Val(p, X, n - 1) /\ tailBlock[p] \in Blocks
         /\ pc[t] = "publish" => elements[tailBlock[p]][PlaceOf(tailIndex[p])] = <<p, tailIndex[p]>>
<1>1. Enqueuing(t) /\ Role(t) = pc[t] /\ pc[t] # "enqueue"
  BY DEF Filling, Enqueuing, EnqueueLabels, Role, Getting, AddLabels
<1>2. ql[t].index = tailIndex[p] /\ Writer(t, p, n, X)
  BY <1>1, OwnWriter
<1>3. n > 0 /\ tailIndex[p] < Base(n) /\ Val(p, X, n - 1) # 0
      /\ (pc[t] = "publish" => elements[tailBlock[p]][PlaceOf(tailIndex[p])] = <<p, tailIndex[p]>>)
  BY <1>1, <1>2 DEF Writer
<1>4. tailIndex[p] \in Indices(n - 1) /\ n - 1 \in Window(p, n)
  BY <1>3, TailIs
<1>5. tailBlock[p] = Val(p, X, n - 1)
  BY <1>3 DEF Working, ElementsInv, LastInv
<1>6. Val(p, X, n - 1) \in Addresses
  <2>1. n - 1 \in Int
    BY <1>4, WindowIs
  <2> QED
    BY <2>1, WindowIs
<1> QED
  BY <1>1, <1>2, <1>3, <1>4, <1>5, <1>6 DEF Addresses

-----------------------------------------------------------------------------
\* An element of a block is written, in a block that exists.
Written(b, k, x) == elements' = [elements EXCEPT ![b][k] = x]

\* It is written there and nowhere else.
LEMMA ElementWritten ==
  ASSUME ProducerTypes, NEW b \in Addresses, NEW k \in 0 .. BLOCK_SIZE - 1, NEW x,
         Written(b, k, x)
  PROVE  /\ elements'[b][k] = x
         /\ \A c \in Addresses : c # b => elements'[c] = elements[c]
         /\ \A c \in Addresses : \A j \in 0 .. BLOCK_SIZE - 1 :
              c # b \/ j # k => elements'[c][j] = elements[c][j]
<1>1. elements \in [Addresses -> [0 .. BLOCK_SIZE - 1 -> Contents]]
  BY DEF ProducerTypes
<1>2. PICK s : s = [elements[b] EXCEPT ![k] = x]
  OBVIOUS
<1>3. DOMAIN elements[b] = 0 .. BLOCK_SIZE - 1
  BY <1>1
<1>4. s[k] = x /\ \A j \in 0 .. BLOCK_SIZE - 1 : j # k => s[j] = elements[b][j]
  BY <1>2, <1>3
<1>5. elements' = [elements EXCEPT ![b] = s]
  BY <1>2 DEF Written
<1>6. elements'[b] = s /\ \A c \in Addresses : c # b => elements'[c] = elements[c]
  BY <1>1, <1>5
<1> QED
  BY <1>4, <1>6

\* The element is constructed in the tail block, where no element is wanted.
LEMMA ConstructElements ==
  ASSUME NEW t, NEW p, NEW n, NEW X, NEW D, Working(t, p, n, X, D), Construct(t)
  PROVE  ElementsInv(p, n, X, D)'
<1>0. pc[t] = "construct" /\ pc[t] \in Filling
  BY DEF Construct, Filling
<1>1. /\ Enqueuing(t) /\ ql[t].index = tailIndex[p]
      /\ n > 0 /\ tailIndex[p] < Base(n) /\ tailIndex[p] \in Indices(n - 1)
      /\ n - 1 \in Window(p, n)
      /\ tailBlock[p] # 0 /\ tailBlock[p] = Val(p, X, n - 1) /\ tailBlock[p] \in Blocks
  BY <1>0, FillsLast
<1>2. UNCHANGED <<dequeuedIn, tailIndex, headIndex, tailBlock, entries, blockIndex>>
  BY DEF Construct, counters
<1>3. /\ \A l : Go(t, l) => pc'[t] = l
      /\ p = ql[t].p
  BY WorkingIs
<1>4. pc'[t] = "publish"
  BY <1>3 DEF Construct
<1>5. Role(t)' = "publish"
  BY <1>4 DEF Role, Getting, AddLabels, Filling, Reading, Untaken
<1>6. Role(t)' \notin Reading /\ Role(t)' # "release"
  BY <1>5 DEF Reading, Untaken
<1>a. /\ \A Y, k : Val(p, Y, k)' = Val(p, Y, k) /\ Key(p, Y, k)' = Key(p, Y, k)
      /\ Size(p)' = Size(p) /\ Current(p)' = Current(p)
      /\ Window(p, n)' = Window(p, n)
  BY <1>2, PlainIs
<1>b. ElementsInv(p, n, X, D)
  BY DEF Working
<1>c. n - 1 \in Int /\ tailIndex[p] \in Nat
  <2>1. n - 1 \in Int
    BY <1>1, WindowIs
  <2> QED
    BY <2>1, TailIs
<1>7. PICK b, x : b = tailBlock[p] /\ x = tailIndex[p]
  OBVIOUS
<1>8. /\ elements'[b][PlaceOf(x)] = <<p, x>>
      /\ \A c \in Addresses : \A j \in 0 .. BLOCK_SIZE - 1 :
              c # b \/ j # PlaceOf(x) => elements'[c][j] = elements[c][j]
  <2>1. elements' = [elements EXCEPT ![b][PlaceOf(x)] = <<p, x>>]
    BY <1>1, <1>3, <1>7 DEF Construct
  <2>2. PlaceOf(x) \in 0 .. BLOCK_SIZE - 1
    BY <1>1, <1>7, <1>c, IndicesAre
  <2>3. b \in Addresses /\ ProducerTypes
    BY <1>1, <1>7, WorkingIs DEF Addresses
  <2>4. PICK z, y : z = PlaceOf(x) /\ y = <<p, x>>
    OBVIOUS
  <2>5. Written(b, z, y) /\ z \in 0 .. BLOCK_SIZE - 1
    BY <2>1, <2>2, <2>4 DEF Written
  <2>6. /\ elements'[b][z] = y
        /\ \A c \in Addresses : \A j \in 0 .. BLOCK_SIZE - 1 :
              c # b \/ j # z => elements'[c][j] = elements[c][j]
    BY <2>3, <2>5, ElementWritten
  <2> QED
    BY <2>4, <2>6
<1>9. TailInv(p, n)'
  <2>1. Fills(t, p)'
    <3>1. ql'[t].p = p
      BY WorkingIs
    <3> QED
      BY <1>5, <3>1 DEF Fills, Filling
  <2>2. t \in Threads
    BY WorkingIs
  <2> QED
    BY <1>2, <1>b, <2>1, <2>2 DEF ElementsInv, TailInv
<1>10. LiveInv(p, n, X, D)' /\ LastInv(p, n, X)'
  BY <1>2, <1>a, <1>b DEF ElementsInv, LiveInv, LastInv
<1>11. FilledInv(p, n, X, D)'
  <2>1. \A i : Wanted(p, i)' <=> Wanted(p, i)
    BY <1>1, <1>2, <1>6, RolesSame DEF Wanted
  <2>2. \A u \in Threads : \A k : Releases(u, p, k)' <=> Releases(u, p, k)
    BY <1>1, <1>6, RolesSame
  <2> SUFFICES ASSUME NEW k \in Window(p, n), Val(p, X, k) # 0
               PROVE  Filled(p, k, Val(p, X, k), D)'
    BY <1>a DEF FilledInv
  <2>3. PICK c : c = Val(p, X, k)
    OBVIOUS
  <2>4. Filled(p, k, c, D) /\ c \in Addresses /\ k \in Int
    <3>1. k \in Int
      BY WindowIs
    <3>2. Val(p, X, k) \in Addresses
      BY <3>1, WindowIs
    <3> QED
      BY <1>b, <2>3, <3>1, <3>2 DEF ElementsInv, FilledInv
  <2>5. ASSUME NEW i \in Indices(k), Wanted(p, i) PROVE elements'[c][PlaceOf(i)] = <<p, i>>
    <3>1. elements[c][PlaceOf(i)] = <<p, i>>
      BY <2>4, <2>5 DEF Filled
    <3>2. PlaceOf(i) \in 0 .. BLOCK_SIZE - 1 /\ i \in Int /\ PlaceOf(i) = i - Base(k)
            /\ Base(k) \in Int
      BY <2>4, IndicesAre
    <3>3. CASE c # b
      BY <1>8, <2>4, <3>1, <3>2, <3>3
    <3>4. CASE c = b
      <4>1. k = n - 1
        <5>1. \A j \in Window(p, n) : Val(p, X, j) # 0 /\ Val(p, X, j) = Val(p, X, k) => j = k
          BY WindowIs
        <5> QED
          BY <1>1, <1>7, <2>3, <3>4, <5>1
      <4>2. PlaceOf(x) = x - Base(k)
        BY <1>1, <1>7, <2>4, <4>1, IndicesAre
      <4>3. i < x
        BY <1>7, <2>5 DEF Wanted
      <4>4. PlaceOf(i) # PlaceOf(x)
        BY <1>7, <1>c, <3>2, <4>2, <4>3
      <4> QED
        BY <1>8, <2>4, <3>1, <3>2, <4>4
    <3> QED
      BY <3>3, <3>4
  <2>6. Filled(p, k, c, D)'
    BY <1>2, <2>1, <2>2, <2>4, <2>5 DEF Filled
  <2> QED
    BY <1>a, <2>3, <2>6
<1>12. Writer(t, p, n, X)'
  <2>1. Val(p, X, n - 1)' # 0
    BY <1>1, <1>a
  <2>2. elements'[tailBlock'[p]][PlaceOf(tailIndex'[p])] = <<p, tailIndex'[p]>>
    BY <1>2, <1>7, <1>8
  <2> QED
    BY <1>1, <1>2, <1>5, <2>1, <2>2 DEF Writer, Filling
<1> QED
  BY <1>1, <1>2, <1>6, <1>9, <1>10, <1>11, <1>12, PlainElements

\* The element is published, which has been constructed.
LEMMA PublishElements ==
  ASSUME NEW t, NEW p, NEW n, NEW X, NEW D, Working(t, p, n, X, D), Publish(t)
  PROVE  ElementsInv(p, n, X, D)'
<1>0. pc[t] = "publish" /\ pc[t] \in Filling
  BY DEF Publish, Filling
<1>1. /\ Enqueuing(t) /\ ql[t].index = tailIndex[p]
      /\ n > 0 /\ tailIndex[p] < Base(n) /\ tailIndex[p] \in Indices(n - 1)
      /\ n - 1 \in Window(p, n)
      /\ tailBlock[p] # 0 /\ tailBlock[p] = Val(p, X, n - 1) /\ tailBlock[p] \in Blocks
      /\ elements[tailBlock[p]][PlaceOf(tailIndex[p])] = <<p, tailIndex[p]>>
  BY <1>0, FillsLast
<1>2. UNCHANGED <<elements, dequeuedIn, headIndex, tailBlock, entries, blockIndex>>
  BY DEF Publish
<1>3. /\ \A l : Go(t, l) => pc'[t] = l
      /\ p = ql[t].p /\ p \in Producers
      /\ ProducerTypes
  BY WorkingIs
<1>4. pc'[t] = "enqueued"
  BY <1>3 DEF Publish
<1>5. Role(t)' = "none"
  BY <1>4 DEF Role, Getting, AddLabels, Filling, Reading, Untaken
<1>6. Role(t)' \notin Reading /\ Role(t)' # "release"
  BY <1>5 DEF Reading, Untaken
<1>a. /\ \A Y, k : Val(p, Y, k)' = Val(p, Y, k) /\ Key(p, Y, k)' = Key(p, Y, k)
      /\ Size(p)' = Size(p) /\ Current(p)' = Current(p)
      /\ Window(p, n)' = Window(p, n)
  BY <1>2, PlainIs
<1>b. ElementsInv(p, n, X, D)
  BY DEF Working
<1>c. n - 1 \in Int
  BY <1>1, WindowIs
<1>7. PICK x : x = tailIndex[p]
  OBVIOUS
<1>8. tailIndex'[p] = x + 1
  <2>1. DOMAIN tailIndex = Producers
    BY <1>3 DEF ProducerTypes, CountersInv
  <2> QED
    BY <1>1, <1>3, <1>7, <2>1 DEF Publish
<1>d. /\ n \in Nat /\ x \in Nat /\ BLOCK_SIZE \in Nat /\ BLOCK_SIZE >= 2
      /\ Base(n - 1) \in Int /\ Base(n) \in Int /\ Base(n) = Base(n - 1) + BLOCK_SIZE
      /\ Base(n - 1) <= x /\ x < Base(n)
  BY <1>1, <1>7, TailIs
<1>9. TailInv(p, n)'
  <2>1. Base(n - 1) <= x + 1 /\ x + 1 <= Base(n) /\ x + 1 # Base(n - 1)
    BY <1>d
  <2> QED
    BY <1>8, <2>1 DEF TailInv
<1>10. LiveInv(p, n, X, D)'
  <2>0. n \in Nat /\ Size(p) \in Nat /\ Size(p) >= 2
    BY WindowIs
  <2> SUFFICES ASSUME NEW k \in 0 .. n - 1
               PROVE  (k >= n - Size(p) /\ Val(p, X, k) # 0) \/ AllDone(D, k)
    BY <1>a DEF LiveInv
  <2>1. \/ k >= n - Size(p) /\ Val(p, X, k) # 0
        \/ AllDone(D, k)
        \/ k = n - 1 /\ tailIndex[p] = Base(k)
    BY <1>b DEF ElementsInv, LiveInv
  <2>2. k = n - 1 => k >= n - Size(p) /\ Val(p, X, k) # 0
    BY <1>1, <2>0
  <2> QED
    BY <2>1, <2>2
<1>11. LastInv(p, n, X)'
  <2>1. tailIndex'[p] # Base(n - 1)
    BY <1>8, <1>d
  <2>2. n > 0 /\ Val(p, X, n - 1) # 0 => tailBlock[p] = Val(p, X, n - 1)
    BY <1>b DEF ElementsInv, LastInv
  <2> QED
    BY <1>2, <1>a, <2>1, <2>2 DEF LastInv
<1>12. FilledInv(p, n, X, D)'
  <2>1. \A i \in Int : Wanted(p, i)' => Wanted(p, i) \/ i = x
    <3> SUFFICES ASSUME NEW i \in Int, Wanted(p, i)', i # x PROVE Wanted(p, i)
      OBVIOUS
    <3>1. i < x + 1
      BY <1>8 DEF Wanted
    <3>2. i < x
      BY <1>d, <3>1
    <3>3. \A u \in Threads : Awaits(u, p, i)' <=> Awaits(u, p, i)
      BY <1>1, <1>6, RolesSame
    <3> QED
      BY <1>2, <1>7, <3>2, <3>3 DEF Wanted
  <2>2. \A u \in Threads : \A k : Releases(u, p, k)' <=> Releases(u, p, k)
    BY <1>1, <1>6, RolesSame
  <2> SUFFICES ASSUME NEW k \in Window(p, n), Val(p, X, k) # 0
               PROVE  Filled(p, k, Val(p, X, k), D)'
    BY <1>a DEF FilledInv
  <2>3. PICK c : c = Val(p, X, k)
    OBVIOUS
  <2>4. Filled(p, k, c, D) /\ k \in Int
    <3>1. k \in Int
      BY WindowIs
    <3> QED
      BY <1>b, <2>3, <3>1 DEF ElementsInv, FilledInv
  <2>5. ASSUME NEW i \in Indices(k), Wanted(p, i)' PROVE elements[c][PlaceOf(i)] = <<p, i>>
    <3>1. i \in Int /\ Of(i) = k
      BY <2>4, IndicesAre
    <3>2. CASE Wanted(p, i)
      BY <2>4, <3>2 DEF Filled
    <3>3. CASE i = x
      <4>1. Of(x) = n - 1
        <5>1. PICK m : m = n - 1
          OBVIOUS
        <5>2. x \in Indices(m) /\ m \in Int /\ x \in Int
          BY <1>1, <1>7, <1>c, <1>d, <5>1
        <5> QED
          BY <5>1, <5>2, IndicesAre
      <4> QED
        BY <1>1, <1>7, <2>3, <3>1, <3>3, <4>1
    <3> QED
      BY <2>1, <2>5, <3>1, <3>2, <3>3
  <2>6. Filled(p, k, c, D)'
    BY <1>2, <2>2, <2>4, <2>5 DEF Filled
  <2> QED
    BY <1>a, <2>3, <2>6
<1>13. Writer(t, p, n, X)'
  BY <1>5 DEF Writer, Filling
<1>14. tailIndex[p] # Base(n)
  BY <1>7, <1>d
<1> QED
  BY <1>1, <1>2, <1>6, <1>9, <1>10, <1>11, <1>12, <1>13, <1>14, PlainElements

-----------------------------------------------------------------------------
\* The key of an entry is set.
SetsKey(p, e, x) == entries' = [entries EXCEPT ![p][e].key = x]

\* It is set there and nowhere else.
LEMMA KeyIsSet ==
  ASSUME ProducerTypes, NEW p \in Producers, NEW e \in Entries(p), NEW x \in Nat, SetsKey(p, e, x)
  PROVE  /\ Size(p)' = Size(p)
         /\ \A f \in Entries(p) : entries'[p][f].value = entries[p][f].value
         /\ \A f \in Entries(p) : entries'[p][f].key = IF f = e THEN x ELSE entries[p][f].key
<1>1. entries \in [Producers -> Seq(IndexEntry)]
  BY DEF ProducerTypes, IndexTypes
<1>2. \A q \in Producers : entries[q] \in Seq(IndexEntry)
  BY <1>1
<1>3. entries[p][e] \in IndexEntry
  BY <1>2, ElementOfSeq DEF Entries
<1>4. PICK r : r = [entries[p][e] EXCEPT !.key = x]
  OBVIOUS
<1>5. r \in IndexEntry /\ r.key = x /\ r.value = entries[p][e].value
  BY <1>3, <1>4 DEF IndexEntry
<1>6. PICK s : s = [entries[p] EXCEPT ![e] = r]
  OBVIOUS
<1>7. Len(s) = Len(entries[p]) /\ \A j \in 1 .. Len(entries[p]) :
        s[j] = IF j = e THEN r ELSE entries[p][j]
  BY <1>2, <1>5, <1>6, SeqWritten
<1>8. entries' = [entries EXCEPT ![p] = s]
  BY <1>4, <1>6 DEF SetsKey
<1>9. entries'[p] = s
  BY <1>1, <1>8
<1> QED
  BY <1>5, <1>7, <1>9 DEF Entries, Size

\* The next entry of the index, when it has no block.
LEMMA NextIs ==
  ASSUME NEW t, NEW p, NEW n, NEW X, NEW D, Working(t, p, n, X, D)
  PROVE  /\ NextEntry(p) = X[n]
         /\ entries[p][X[n]].key = INVALID_BLOCK_BASE => Val(p, X, n) = 0
         /\ Val(p, X, n - Size(p)) = Val(p, X, n)
         /\ \A m \in Window(p, n) : X[m] = X[n] => m = n - Size(p)
<1>0. /\ n \in Nat /\ Size(p) \in Nat /\ Size(p) >= 2 /\ n \in Int
      /\ \A k \in Int : X[k - Size(p)] = X[k]
      /\ \A j, k \in Int : j <= k /\ k < j + Size(p) /\ X[j] = X[k] => j = k
  <2>1. n \in Nat /\ Size(p) \in Nat /\ Size(p) >= 2 /\ n \in Int
    BY WindowIs
  <2>2. \A k \in Int : X[k - Size(p)] = X[k]
    BY WindowIs
  <2>3. Turns(p, X)
    <3>1. p \in Producers /\ IndexTypes
      BY WorkingIs
    <3> QED
      BY <3>1, IndexIs DEF Working, ElementsInv
  <2> QED
    BY <2>1, <2>2, <2>3 DEF Turns
<1>1. NextEntry(p) = X[n]
  <2>1. X[n] = Slot(Current(p), Current(p).tail + (n - (n - 1)))
    BY <1>0 DEF Working, ElementsInv, IndexInv
  <2>2. n - (n - 1) = 1
    BY <1>0
  <2> QED
    BY <2>1, <2>2 DEF NextEntry
<1>2. Val(p, X, n - Size(p)) = Val(p, X, n) /\ Key(p, X, n - Size(p)) = Key(p, X, n)
  BY <1>0 DEF Val, Key
<1>3. ASSUME entries[p][X[n]].key = INVALID_BLOCK_BASE PROVE Val(p, X, n) = 0
  <2> SUFFICES ASSUME Val(p, X, n) # 0 PROVE FALSE
    OBVIOUS
  <2>1. n - Size(p) \in Window(p, n) /\ n - Size(p) \in Int
    BY <1>0 DEF Window
  <2>2. Key(p, X, n - Size(p)) = Base(n - Size(p))
    BY <1>2, <2>1 DEF Working, ElementsInv, KeysInv
  <2>3. Base(n - Size(p)) # INVALID_BLOCK_BASE
    BY <2>1, Bases
  <2> QED
    BY <1>2, <1>3, <2>2, <2>3 DEF Key
<1>4. ASSUME NEW m \in Window(p, n), X[m] = X[n] PROVE m = n - Size(p)
  <2>1. m \in Int /\ n - Size(p) <= m /\ m < n
    BY <1>0 DEF Window
  <2>2. ~ (n < m + Size(p))
    BY <1>0, <1>4, <2>1
  <2> QED
    BY <1>0, <2>1, <2>2
<1> QED
  BY <1>1, <1>2, <1>3, <1>4

\* The next entry is taken.
LEMMA UnusedElements ==
  ASSUME NEW t, NEW p, NEW n, NEW X, NEW D, Working(t, p, n, X, D), pc[t] = "insert",
         SetsKey(p, X[n], tailIndex[p]), Val(p, X, n) = 0,
         pc'[t] = "settail", ql'[t].entry = X[n],
         UNCHANGED <<elements, dequeuedIn, tailIndex, headIndex, tailBlock, blockIndex>>
  PROVE  ElementsInv(p, n, X, D)'
<1>1. Enqueuing(t) /\ Role(t) = "insert"
  BY DEF Enqueuing, EnqueueLabels, Role, Getting, AddLabels
<1>2. Role(t)' = "settail"
  BY DEF Role, Getting, AddLabels, Filling, Reading, Untaken
<1>3. Role(t)' \notin Reading /\ Role(t)' # "release"
  BY <1>2 DEF Reading, Untaken
<1>4. tailIndex[p] = Base(n)
  <2>1. Writer(t, p, n, X)
    BY <1>1, OwnWriter
  <2> QED
    BY <1>1, <2>1 DEF Writer
<1>5. /\ n \in Nat /\ n \in Int /\ n - 1 \in Int /\ n - 2 \in Int /\ Size(p) \in Nat /\ Size(p) >= 2
      /\ \A k \in Int : X[k] \in Entries(p)
      /\ \A k \in Window(p, n) : k \in Int
  <2>1. n \in Nat /\ Size(p) \in Nat /\ Size(p) >= 2
    BY WindowIs
  <2>2. \A k \in Int : X[k] \in Entries(p)
    BY WindowIs
  <2>3. \A k \in Window(p, n) : k \in Int
    BY WindowIs
  <2> QED
    BY <2>1, <2>2, <2>3
<1>6. /\ Size(p)' = Size(p)
      /\ \A k \in Int : Val(p, X, k)' = Val(p, X, k)
      /\ \A k \in Int : X[k] # X[n] => Key(p, X, k)' = Key(p, X, k)
      /\ Key(p, X, n)' = Base(n)
  <2>1. p \in Producers /\ ProducerTypes /\ tailIndex[p] \in Nat
    BY WorkingIs
  <2>2. /\ Size(p)' = Size(p)
        /\ \A f \in Entries(p) : entries'[p][f].value = entries[p][f].value
        /\ \A f \in Entries(p) :
             entries'[p][f].key = IF f = X[n] THEN tailIndex[p] ELSE entries[p][f].key
    BY <1>5, <2>1, KeyIsSet
  <2> QED
    BY <1>4, <1>5, <2>2 DEF Val, Key
<1>7. Current(p)' = Current(p) /\ Window(p, n)' = Window(p, n)
  BY <1>6 DEF Current, Window
<1>b. ElementsInv(p, n, X, D)
  BY DEF Working
<1>8. IndexInv(p, n, X)'
  BY <1>6, <1>7, <1>b DEF ElementsInv, IndexInv
<1>9. KeysInv(p, n, X)'
  <2>1. n > 0 => Key(p, X, n - 1)' = Base(n - 1)
    <3>1. X[n - 1] # X[n]
      <4>1. n - 1 \in Window(p, n) /\ n - 1 # n - Size(p)
        BY <1>5 DEF Window
      <4> QED
        BY <4>1, NextIs
    <3> QED
      BY <1>5, <1>6, <1>b, <3>1 DEF ElementsInv, KeysInv
  <2>2. ASSUME NEW k \in Window(p, n), Val(p, X, k) # 0 PROVE k >= 0 /\ Key(p, X, k)' = Base(k)
    <3>1. X[k] # X[n]
      BY <2>2 DEF Val
    <3> QED
      BY <1>5, <1>6, <1>b, <2>2, <3>1 DEF ElementsInv, KeysInv
  <2> QED
    BY <1>5, <1>6, <1>7, <2>1, <2>2 DEF KeysInv
<1>10. TailInv(p, n)'
  <2>1. Base(n - 1) # tailIndex[p] /\ Base(n - 1) <= tailIndex[p] /\ tailIndex[p] <= Base(n)
    BY <1>4, TailIs
  <2> QED
    BY <2>1 DEF TailInv
<1>11. LiveInv(p, n, X, D)'
  BY <1>5, <1>6, <1>b DEF ElementsInv, LiveInv
<1>12. LastInv(p, n, X)'
  BY <1>5, <1>6, <1>b DEF ElementsInv, LastInv
<1>13. FilledInv(p, n, X, D)'
  <2>1. \A i : Wanted(p, i)' <=> Wanted(p, i)
    BY <1>1, <1>3, RolesSame DEF Wanted
  <2>2. \A u \in Threads : \A k : Releases(u, p, k)' <=> Releases(u, p, k)
    BY <1>1, <1>3, RolesSame
  <2>3. FilledInv(p, n, X, D)
    BY <1>b DEF ElementsInv
  <2>4. \A k : \A b : Filled(p, k, b, D) => Filled(p, k, b, D)'
    BY <2>1, <2>2 DEF Filled
  <2> QED
    BY <1>5, <1>6, <1>7, <2>3, <2>4 DEF FilledInv
<1>14. Writer(t, p, n, X)'
  <2>1. ql'[t].entry = X[n] /\ Val(p, X, n)' = 0 /\ Key(p, X, n)' = Base(n)
          /\ tailIndex'[p] = Base(n)
    BY <1>4, <1>5, <1>6
  <2> QED
    BY <1>2, <2>1 DEF Writer, Filling
<1>15. ASSUME NEW u \in Threads, NEW i,
              u # t /\ ql[u].p = p /\ ql[u].index = i /\ Role(u) \in Reading \cup {"release"}
       PROVE  /\ Role(u) = "entry" => Finds(u, p, i, n, X)'
              /\ X[Of(i)] = X[Of(i)] /\ Val(p, X, Of(i))' = Val(p, X, Of(i))
              /\ Of(i) >= n - Size(p)'
  <2>1. PICK o : o = Of(i)
    OBVIOUS
  <2>2. o \in Window(p, n) /\ n - Size(p) <= o /\ Val(p, X, o) # 0 /\ o < n
    BY <1>15, <2>1, Served
  <2>3. o \in Int
    BY <1>5, <2>2
  <2>4. Role(u) = "entry" => Finds(u, p, i, n, X)'
    <3> SUFFICES ASSUME Role(u) = "entry" PROVE Finds(u, p, i, n, X)'
      OBVIOUS
    <3>1. Finds(u, p, i, n, X)
      BY <1>15, <1>b DEF ElementsInv, ActorsInv, Reader
    <3>2. PICK h, x : h = blockIndex[p][ql[u].header] /\ x = ql[u].tail
      OBVIOUS
    <3>3. PICK m \in o .. n :
            /\ Slot(h, x) = X[m]
            /\ Key(p, X, m) = Base(m)
            /\ Slot(h, x + (o - m)) = X[o]
            /\ m = n => Val(p, X, n) = 0 /\ tailIndex[p] = Base(n)
      BY <2>1, <3>1, <3>2 DEF Finds
    <3>4. Key(p, X, m)' = Base(m)
      <4>1. CASE m = n
        BY <1>6, <4>1
      <4>2. CASE m # n
        <5>1. m \in Window(p, n) /\ m \in Int
          BY <1>5, <2>2, <2>3, <3>3, <4>2 DEF Window
        <5>2. X[m] # X[n]
          <6> SUFFICES ASSUME X[m] = X[n] PROVE FALSE
            OBVIOUS
          <6>1. m = n - Size(p)
            BY <5>1, NextIs
          <6>2. o = m
            BY <1>5, <2>2, <2>3, <3>3, <6>1
          <6> QED
            BY <2>2, <6>2 DEF Val
        <5> QED
          BY <1>6, <3>3, <5>1, <5>2
      <4> QED
        BY <4>1, <4>2
    <3>5. ql'[u] = ql[u]
      BY <1>15, WorkingIs
    <3>6. blockIndex'[p][ql'[u].header] = h /\ ql'[u].tail = x
      BY <3>2, <3>5
    <3>7. m = n => Val(p, X, n)' = 0 /\ tailIndex'[p] = Base(n)
      BY <1>4, <1>5, <1>6
    <3> QED
      BY <2>1, <3>3, <3>4, <3>6, <3>7 DEF Finds
  <2> QED
    BY <1>5, <1>6, <2>1, <2>2, <2>3, <2>4
<1> QED
  BY <1>1, <1>3, <1>8, <1>9, <1>10, <1>11, <1>12, <1>13, <1>14, <1>15, WriterElements

-----------------------------------------------------------------------------
\* The index is replaced by one of twice its slots, in which block k has the slot c + k - n.
GrownSlots(p, n, c) == [k \in Int |-> Slot(Current(p), c + k - n)]

\* The index that has grown has the old entries in their order and new ones.
LEMMA GrownIs ==
  ASSUME IndexTypes, NEW p \in Producers, NEW n, NEW X, IndexInv(p, n, X), NewBlockIndex(p),
         NEW c, c = Size(p), NEW X1, X1 = GrownSlots(p, n, c)'
  PROVE  /\ IndexInv(p, n, X1)' /\ Size(p)' = 2 * c
         /\ \A k \in n - c .. n - 1 : X1[k] = X[k]
         /\ \A k \in (n - 2 * c .. n - c - 1) \cup {n} : entries'[p][X1[k]].value = 0
         /\ \A e \in 1 .. c : entries'[p][e] = entries[p][e]
         /\ \A h \in 1 .. Len(blockIndex[p]) : blockIndex'[p][h] = blockIndex[p][h]
<1>1. PICK h, T : h = Current(p) /\ T = h.tail
  OBVIOUS
<1>2. /\ n \in Nat /\ c \in Nat /\ c >= 2 /\ Capacity(h) = c /\ T \in Nat
      /\ Len(entries[p]) = c /\ h \in Header(c)
  <2>1. n \in Nat /\ c >= 2 /\ Capacity(h) = c
    BY <1>1 DEF IndexInv
  <2>2. c \in Nat /\ h \in Header(c) /\ Len(entries[p]) = c
    BY <1>1, CurrentIs DEF Size
  <2>3. T \in Nat
    BY <1>1, <2>2 DEF Header
  <2> QED
    BY <2>1, <2>2, <2>3
<1>w. PICK w : w = 2 * c
  OBVIOUS
<1>n. c \in Nat /\ c >= 2 /\ n \in Nat /\ w = c + c /\ w \in Nat
  BY <1>2, <1>w
<1>3. PICK s : s = [i \in 1 .. w |-> IF i <= c THEN Slot(h, T + i) ELSE c + i - c]
  OBVIOUS
<1>4. PICK g : g = [tail |-> c - 1, slots |-> s]
  OBVIOUS
<1>5. /\ entries' = [entries EXCEPT ![p] = entries[p] \o NewEntries(c)]
      /\ blockIndex' = [blockIndex EXCEPT ![p] = Append(blockIndex[p], g)]
  BY <1>w, <1>1, <1>2, <1>n, <1>3, <1>4 DEF NewBlockIndex
<1>6. /\ entries'[p] = entries[p] \o NewEntries(c) /\ blockIndex'[p] = Append(blockIndex[p], g)
      /\ entries[p] \in Seq(IndexEntry)
  BY <1>5 DEF IndexTypes
<1>7. PICK x : x = [key |-> INVALID_BLOCK_BASE, value |-> 0]
  OBVIOUS
<1>8. /\ Len(entries'[p]) = w
      /\ \A e \in 1 .. c : entries'[p][e] = entries[p][e]
      /\ \A e \in c + 1 .. w : entries'[p][e].value = 0
  <2>1. PICK a, y : a = entries[p] /\ y = NewEntries(c)
    OBVIOUS
  <2>2. x.value = 0 /\ y = [i \in 1 .. c |-> x]
    BY <1>7, <2>1 DEF NewEntries
  <2>3. Len(y) = c /\ \A i \in 1 .. c : y[i].value = 0
    BY <1>2, <1>n, <2>2
  <2>4. y \in Seq({x})
    BY <1>2, <1>n, <2>2
  <2>5. a \in Seq(IndexEntry) /\ Len(a) = c
    BY <1>2, <1>n, <1>6, <2>1
  <2>6. PICK z : z = a \o y
    OBVIOUS
  <2>7. Len(z) = c + c /\ \A i \in 1 .. c + c : z[i] = IF i <= c THEN a[i] ELSE y[i - c]
    <3>1. Len(z) = Len(a) + Len(y)
      BY <2>4, <2>5, <2>6
    <3>2. \A i \in 1 .. Len(a) + Len(y) : z[i] = IF i <= Len(a) THEN a[i] ELSE y[i - Len(a)]
      BY <2>4, <2>5, <2>6
    <3> QED
      BY <2>3, <2>5, <3>1, <3>2
  <2>8. entries'[p] = z
    BY <1>6, <2>1, <2>6
  <2>9. \A e \in c + 1 .. w : z[e].value = 0
    <3> SUFFICES ASSUME NEW e \in c + 1 .. w PROVE z[e].value = 0
      OBVIOUS
    <3>1. z[e] = y[e - c] /\ e - c \in 1 .. c
      BY <1>2, <1>n, <2>7
    <3> QED
      BY <2>3, <3>1
  <2>10. \A e \in 1 .. c : z[e] = a[e]
    BY <1>2, <1>n, <2>7
  <2> QED
    BY <1>2, <1>n, <2>1, <2>7, <2>8, <2>9, <2>10
<1>9. /\ Len(blockIndex'[p]) = Len(blockIndex[p]) + 1
      /\ Current(p)' = g
      /\ \A i \in 1 .. Len(blockIndex[p]) : blockIndex'[p][i] = blockIndex[p][i]
  <2>1. PICK H, b : H = Header(Len(entries[p])) /\ b = blockIndex[p]
    OBVIOUS
  <2>2. b \in Seq(H) /\ Len(b) \in Nat
    BY <2>1, CurrentIs DEF IndexTypes
  <2>3. PICK d : d = Append(b, g)
    OBVIOUS
  <2>4. Len(d) = Len(b) + 1 /\ d[Len(b) + 1] = g /\ \A i \in 1 .. Len(b) : d[i] = b[i]
    <3>1. Len(d) = Len(b) + 1
      BY <2>2, <2>3
    <3>2. d[Len(b) + 1] = g
      BY <2>2, <2>3
    <3>3. \A i \in 1 .. Len(b) : d[i] = b[i]
      BY <2>2, <2>3
    <3> QED
      BY <3>1, <3>2, <3>3
  <2> QED
    BY <1>6, <2>1, <2>3, <2>4 DEF Current
<1>10. g.tail = c - 1 /\ g.slots = s /\ Len(s) = w /\ Capacity(g) = w
  <2>1. g.tail = c - 1 /\ g.slots = s
    BY <1>4
  <2>2. Len(s) = w
    <3>1. w \in Nat
      BY <1>2, <1>n
    <3>2. PICK m : m = w
      OBVIOUS
    <3>3. DOMAIN s = 1 .. m /\ m \in Nat
      BY <1>3, <3>1, <3>2
    <3>4. Len(s) = m
      <4>1. s = [i \in 1 .. m |-> s[i]]
        BY <1>3, <3>2
      <4> QED
        BY <3>3, <4>1
    <3> QED
      BY <3>2, <3>4
  <2> QED
    BY <2>1, <2>2 DEF Capacity
<1>11. \A k \in Int : X1[k] = Slot(g, c + k - n)
  BY <1>9 DEF GrownSlots
<1>12. /\ \A i \in 1 .. c : s[i] = X[i + (n - 1)] /\ s[i] \in 1 .. c
       /\ \A i \in c + 1 .. w : s[i] = i
  <2>1. ASSUME NEW i \in 1 .. c PROVE s[i] = X[i + (n - 1)] /\ s[i] \in 1 .. c
    <3>1. i \in 1 .. w /\ i <= c
      BY <1>2, <1>n
    <3>2. s[i] = Slot(h, T + i)
      BY <1>3, <3>1
    <3>3. i + (n - 1) \in Int /\ (i + (n - 1)) - (n - 1) = i
      BY <1>2, <1>n
    <3>4. X[i + (n - 1)] = Slot(h, T + i)
      BY <1>1, <3>3 DEF IndexInv
    <3>5. T + i \in Int
      BY <1>2, <1>n
    <3> QED
      BY <1>2, <1>n, <3>2, <3>4, <3>5, SlotIs
  <2>2. ASSUME NEW i \in c + 1 .. w PROVE s[i] = i
    <3>1. i \in 1 .. w /\ ~ (i <= c) /\ c + i - c = i
      BY <1>2, <1>n
    <3> QED
      BY <1>3, <3>1
  <2> QED
    BY <2>1, <2>2
<1>13. /\ \A k \in Int : X[k] \in 1 .. c /\ X[k - c] = X[k]
       /\ \A j, k \in Int : j <= k /\ k < j + c /\ X[j] = X[k] => j = k
       /\ \A e \in 1 .. c : \E k \in Window(p, n) : X[k] = e
  <2>1. \A k \in Int : X[k] \in 1 .. c
    BY <1>2, <1>n, IndexIs
  <2>2. \A k \in Int : X[k - c] = X[k]
    <3>1. \A k \in Int : X[k - Size(p)] = X[k]
      BY IndexIs
    <3> QED
      BY <3>1
  <2>3. Turns(p, X)
    BY IndexIs
  <2>4. \A e \in 1 .. c : \E k \in Window(p, n) : X[k] = e
    BY <1>2, <1>n, IndexIs
  <2> QED
    BY <2>1, <2>2, <2>3, <2>4 DEF Turns
<1>14. \A i, j \in 1 .. w : s[i] = s[j] => i = j
  <2> SUFFICES ASSUME NEW i \in 1 .. w, NEW j \in 1 .. w, s[i] = s[j] PROVE i = j
    OBVIOUS
  <2>1. ASSUME NEW a \in 1 .. c, NEW b \in 1 .. c, a <= b, s[a] = s[b] PROVE a = b
    <3>1. X[a + (n - 1)] = X[b + (n - 1)]
      BY <1>12, <2>1
    <3>2. a + (n - 1) \in Int /\ b + (n - 1) \in Int /\ a + (n - 1) <= b + (n - 1)
          /\ b + (n - 1) < (a + (n - 1)) + c
      BY <1>2, <1>n, <2>1
    <3>3. a + (n - 1) = b + (n - 1)
      BY <1>13, <3>1, <3>2
    <3> QED
      BY <1>2, <1>n, <3>3
  <2>2. CASE i <= c /\ j <= c
    <3>1. i \in 1 .. c /\ j \in 1 .. c /\ (i <= j \/ j <= i)
      BY <1>2, <1>n, <2>2
    <3> QED
      BY <2>1, <3>1
  <2>3. CASE i <= c /\ j > c
    <3>1. i \in 1 .. c /\ j \in c + 1 .. w
      BY <1>2, <1>n, <2>3
    <3> QED
      BY <1>2, <1>n, <1>12, <3>1
  <2>4. CASE i > c /\ j <= c
    <3>1. j \in 1 .. c /\ i \in c + 1 .. w
      BY <1>2, <1>n, <2>4
    <3> QED
      BY <1>2, <1>n, <1>12, <3>1
  <2>5. CASE i > c /\ j > c
    <3>1. j \in c + 1 .. w /\ i \in c + 1 .. w
      BY <1>2, <1>n, <2>5
    <3> QED
      BY <1>2, <1>n, <1>12, <3>1
  <2> QED
    BY <1>2, <1>n, <2>2, <2>3, <2>4, <2>5
<1>15. \A e \in 1 .. w : \E i \in 1 .. w : s[i] = e
  <2> SUFFICES ASSUME NEW e \in 1 .. w PROVE \E i \in 1 .. w : s[i] = e
    OBVIOUS
  <2>1. CASE e > c
    <3>1. e \in c + 1 .. w
      BY <1>2, <1>n, <2>1
    <3> QED
      BY <1>12, <3>1
  <2>2. CASE e <= c
    <3>1. PICK k \in Window(p, n) : X[k] = e
      BY <1>2, <1>n, <1>13, <2>2
    <3>2. k \in Int /\ n - c <= k /\ k < n
      BY <1>2, <1>n, <3>1 DEF Window
    <3>3. PICK i : i = k - (n - 1) + c
      OBVIOUS
    <3>4. i \in 1 .. c /\ i + (n - 1) = k + c /\ k + c \in Int /\ (k + c) - c = k
      BY ONLY <1>n, <3>2, <3>3
    <3>5. s[i] = e
      BY <1>12, <1>13, <3>1, <3>4
    <3>6. i \in 1 .. w
      BY <1>2, <1>n, <3>4
    <3> QED
      BY <3>5, <3>6
  <2> QED
    BY <1>2, <1>n, <2>1, <2>2
<1>16. Size(p)' = w
  BY <1>8 DEF Size
<1>17. IndexInv(p, n, X1)'
  <2>1. \A k \in Int : X1[k] = Slot(g, g.tail + (k - (n - 1)))
    <3> SUFFICES ASSUME NEW k \in Int PROVE X1[k] = Slot(g, g.tail + (k - (n - 1)))
      OBVIOUS
    <3>1. g.tail + (k - (n - 1)) = c + k - n
      BY <1>2, <1>n, <1>10
    <3> QED
      BY <1>11, <3>1
  <2>2. n \in Nat /\ w >= 2
    BY <1>2, <1>n
  <2> QED
    BY <1>9, <1>10, <1>14, <1>15, <1>16, <2>1, <2>2 DEF IndexInv
<1>18. ASSUME NEW r \in Int, NEW q \in Int, r \in 0 .. w - 1, r = q \/ r = q + w
       PROVE  Slot(g, q) = s[r + 1]
  <2>1. q % w = r
    <3>1. PICK d : d = w
      OBVIOUS
    <3>2. d \in Nat \ {0} /\ r \in 0 .. d - 1
      BY <1>2, <1>n, <1>18, <3>1
    <3>3. r % d = r
      <4>1. r = 0 * d + r /\ 0 \in Int /\ r \in Int
        BY <3>2
      <4> QED
        BY <3>2, <4>1, QuotientIs
    <3>4. (q + d) % d = q % d
      BY <3>2, Remainders
    <3> QED
      BY <1>18, <3>1, <3>3, <3>4
  <2> QED
    BY <1>10, <2>1 DEF Slot
<1>19. ASSUME NEW k \in n - c .. n - 1 PROVE X1[k] = X[k]
  <2>1. PICK r : r = c + k - n
    OBVIOUS
  <2>0. k \in Int /\ n - c <= k /\ k <= n - 1
    BY <1>n
  <2>2. r \in Int /\ r \in 0 .. w - 1 /\ k \in Int /\ r + 1 \in 1 .. c
        /\ (r + 1) + (n - 1) = k + c /\ k + c \in Int /\ (k + c) - c = k
    BY ONLY <1>n, <2>0, <2>1
  <2>3. X1[k] = s[r + 1]
    BY <1>11, <1>18, <2>1, <2>2
  <2>4. s[r + 1] = X[k + c]
    BY <1>12, <2>2
  <2> QED
    BY <1>13, <2>2, <2>3, <2>4
<1>20. ASSUME NEW k \in (n - w .. n - c - 1) \cup {n} PROVE entries'[p][X1[k]].value = 0
  <2>1. PICK q : q = c + k - n
    OBVIOUS
  <2>2. \E r : r \in c .. w - 1 /\ (r = q \/ r = q + w)
    <3>1. CASE k = n
      BY <1>2, <1>n, <2>1, <3>1
    <3>2. CASE k # n
      <4>0. k \in Int /\ n - w <= k /\ k <= n - c - 1
        BY <1>n, <3>2
      <4>1. q + w \in c .. w - 1
        BY ONLY <1>n, <2>1, <4>0
      <4> QED
        BY <4>1
    <3> QED
      BY <3>1, <3>2
  <2>3. PICK r : r \in c .. w - 1 /\ (r = q \/ r = q + w)
    BY <2>2
  <2>a. k \in Int
    BY <1>n
  <2>4. r \in Int /\ q \in Int /\ k \in Int /\ r \in 0 .. w - 1 /\ r + 1 \in c + 1 .. w
    BY ONLY <1>n, <2>1, <2>3, <2>a
  <2>5. X1[k] = r + 1
    <3>1. Slot(g, q) = s[r + 1]
      BY <1>18, <2>3, <2>4
    <3>2. X1[k] = Slot(g, q)
      BY <1>11, <2>1, <2>4
    <3>3. s[r + 1] = r + 1
      BY <1>12, <2>4
    <3> QED
      BY <3>1, <3>2, <3>3
  <2> QED
    BY <1>8, <2>4, <2>5
<1> QED
  BY <1>8, <1>9, <1>16, <1>17, <1>19, <1>20, <1>w

-----------------------------------------------------------------------------
\* The blocks that are in the index keep their entries when it grows.
LEMMA GrowElements ==
  ASSUME NEW t, NEW p, NEW n, NEW X, NEW D, Working(t, p, n, X, D), pc[t] = "insert",
         NewBlockIndex(p), Val(p, X, n) # 0, UNCHANGED <<pc, ql>>,
         UNCHANGED <<elements, dequeuedIn, tailIndex, headIndex, tailBlock>>
  PROVE  \E X1 : ElementsInv(p, n, X1, D)'
<1>1. Enqueuing(t) /\ Role(t) = "insert" /\ Role(t)' = "insert"
  BY DEF Enqueuing, EnqueueLabels, Role, Getting, AddLabels
<1>3. Role(t)' \notin Reading /\ Role(t)' # "release"
  BY <1>1 DEF Reading, Untaken
<1>4. tailIndex[p] = Base(n)
  <2>1. Writer(t, p, n, X)
    BY <1>1, OwnWriter
  <2> QED
    BY <1>1, <2>1 DEF Writer
<1>b. ElementsInv(p, n, X, D)
  BY DEF Working
<1>5. PICK c : c = Size(p)
  OBVIOUS
<1>6. PICK X1 : X1 = GrownSlots(p, n, c)'
  OBVIOUS
<1>n. /\ n \in Nat /\ n \in Int /\ n - 1 \in Int /\ n - 2 \in Int /\ c \in Nat /\ c >= 2
  <2>1. n \in Nat /\ c \in Nat /\ c >= 2
    BY <1>5, WindowIs
  <2> QED
    BY <2>1
<1>7. /\ IndexInv(p, n, X1)' /\ Size(p)' = 2 * c
      /\ \A k \in n - c .. n - 1 : X1[k] = X[k]
      /\ \A k \in (n - 2 * c .. n - c - 1) \cup {n} : entries'[p][X1[k]].value = 0
      /\ \A e \in 1 .. c : entries'[p][e] = entries[p][e]
      /\ \A h \in 1 .. Len(blockIndex[p]) : blockIndex'[p][h] = blockIndex[p][h]
  <2>1. p \in Producers /\ IndexTypes
    BY WorkingIs
  <2>2. IndexInv(p, n, X)
    BY <1>b DEF ElementsInv
  <2> QED
    BY <1>5, <1>6, <2>1, <2>2, GrownIs
<1>8. /\ \A k \in Window(p, n) : /\ k \in Int /\ X1[k] = X[k] /\ k \in Window(p, n)'
                                 /\ Val(p, X1, k)' = Val(p, X, k) /\ Key(p, X1, k)' = Key(p, X, k)
      /\ \A k \in Window(p, n)' : k \in Window(p, n) \/ Val(p, X1, k)' = 0
  <2>1. Window(p, n) = n - c .. n - 1 /\ Window(p, n)' = n - 2 * c .. n - 1
    BY <1>5, <1>7 DEF Window
  <2>2. PICK w : w = 2 * c
    OBVIOUS
  <2>3. w = c + c /\ w \in Nat
    BY <1>n, <2>2
  <2>4. ASSUME NEW k \in n - c .. n - 1
        PROVE  /\ k \in Int /\ X1[k] = X[k] /\ k \in n - w .. n - 1
               /\ Val(p, X1, k)' = Val(p, X, k) /\ Key(p, X1, k)' = Key(p, X, k)
    <3>1. k \in Int /\ k \in n - w .. n - 1
      BY <1>n, <2>3
    <3>2. X1[k] = X[k]
      BY <1>7
    <3>3. X[k] \in 1 .. c
      <4>1. X[k] \in Entries(p)
        BY <3>1, WindowIs
      <4> QED
        BY <1>5, <4>1 DEF Entries, Size
    <3>4. entries'[p][X[k]] = entries[p][X[k]]
      BY <1>7, <3>3
    <3> QED
      BY <3>1, <3>2, <3>4 DEF Val, Key
  <2>5. ASSUME NEW k \in n - w .. n - 1, k \notin n - c .. n - 1
        PROVE  Val(p, X1, k)' = 0
    <3>1. k \in n - w .. n - c - 1
      BY <1>n, <2>3, <2>5
    <3>2. entries'[p][X1[k]].value = 0
      BY <1>7, <2>2, <3>1
    <3> QED
      BY <3>2 DEF Val
  <2> QED
    BY <2>1, <2>2, <2>4, <2>5
<1>9. n > 0 => n - 1 \in Window(p, n)
  BY TailIs
<1>10. KeysInv(p, n, X1)'
  BY <1>8, <1>9, <1>b DEF ElementsInv, KeysInv
<1>11. TailInv(p, n)'
  <2>1. Base(n - 1) # tailIndex[p] /\ Base(n - 1) <= tailIndex[p] /\ tailIndex[p] <= Base(n)
    BY <1>4, TailIs
  <2> QED
    BY <2>1 DEF TailInv
<1>12. LiveInv(p, n, X1, D)'
  <2> SUFFICES ASSUME NEW k \in 0 .. n - 1
               PROVE  \/ k >= n - Size(p)' /\ Val(p, X1, k)' # 0
                      \/ AllDone(D, k)
                      \/ k = n - 1 /\ tailIndex'[p] = Base(k)
    BY DEF LiveInv
  <2>1. \/ k >= n - Size(p) /\ Val(p, X, k) # 0
        \/ AllDone(D, k)
        \/ k = n - 1 /\ tailIndex[p] = Base(k)
    BY <1>b DEF ElementsInv, LiveInv
  <2>2. CASE k >= n - Size(p) /\ Val(p, X, k) # 0
    <3>1. k \in Window(p, n)
      BY <1>5, <1>n, <2>2 DEF Window
    <3>2. Val(p, X1, k)' # 0 /\ k \in Window(p, n)'
      BY <1>8, <2>2, <3>1
    <3>3. k >= n - Size(p)'
      BY <1>n, <1>7, <3>2 DEF Window
    <3> QED
      BY <3>2, <3>3
  <2> QED
    BY <2>1, <2>2
<1>13. LastInv(p, n, X1)'
  <2>1. (n > 0 /\ Val(p, X1, n - 1) # 0 => tailBlock[p] = Val(p, X1, n - 1))'
    BY <1>8, <1>9, <1>b DEF ElementsInv, LastInv
  <2>2. tailIndex[p] # Base(n - 1)
    BY <1>4, TailIs
  <2> QED
    BY <2>1, <2>2 DEF LastInv
<1>14. FilledInv(p, n, X1, D)'
  <2>1. \A i : Wanted(p, i)' <=> Wanted(p, i)
    BY <1>1, <1>3, RolesSame DEF Wanted
  <2>2. \A u \in Threads : \A k : Releases(u, p, k)' <=> Releases(u, p, k)
    BY <1>1, <1>3, RolesSame
  <2>3. FilledInv(p, n, X, D)
    BY <1>b DEF ElementsInv
  <2>4. \A k : \A b : Filled(p, k, b, D) => Filled(p, k, b, D)'
    BY <2>1, <2>2 DEF Filled
  <2> QED
    BY <1>8, <2>3, <2>4 DEF FilledInv
<1>15. Writer(t, p, n, X1)'
  BY <1>1, <1>4 DEF Writer, Filling
<1>16. ASSUME NEW u \in Threads, NEW i,
              u # t /\ ql[u].p = p /\ ql[u].index = i /\ Role(u) \in Reading \cup {"release"}
       PROVE  /\ Role(u) = "entry" => Finds(u, p, i, n, X1)'
              /\ X1[Of(i)] = X[Of(i)] /\ Val(p, X1, Of(i))' = Val(p, X, Of(i))
              /\ Of(i) >= n - Size(p)'
  <2>1. PICK o : o = Of(i)
    OBVIOUS
  <2>2. o \in Window(p, n) /\ Val(p, X, o) # 0 /\ o < n /\ n - Size(p) <= o
    BY <1>16, <2>1, Served
  <2>3. o \in Int /\ X1[o] = X[o] /\ Val(p, X1, o)' = Val(p, X, o) /\ o \in Window(p, n)'
    BY <1>8, <2>2
  <2>4. o >= n - Size(p)'
    BY <1>n, <1>7, <2>3 DEF Window
  <2>5. Role(u) = "entry" => Finds(u, p, i, n, X1)'
    <3> SUFFICES ASSUME Role(u) = "entry" PROVE Finds(u, p, i, n, X1)'
      OBVIOUS
    <3>1. Finds(u, p, i, n, X)
      BY <1>16, <1>b DEF ElementsInv, ActorsInv, Reader
    <3>2. PICK h, x : h = blockIndex[p][ql[u].header] /\ x = ql[u].tail
      OBVIOUS
    <3>3. PICK m \in o .. n :
            /\ Slot(h, x) = X[m]
            /\ Key(p, X, m) = Base(m)
            /\ Slot(h, x + (o - m)) = X[o]
            /\ m = n => Val(p, X, n) = 0 /\ tailIndex[p] = Base(n)
      BY <2>1, <3>1, <3>2 DEF Finds
    <3>4. m # n
      BY <3>3
    <3>5. m \in Window(p, n)
      <4>1. n - c <= o
        BY <1>5, <2>2
      <4>2. m \in n - c .. n - 1
        BY <1>n, <2>3, <3>3, <3>4, <4>1
      <4> QED
        BY <1>5, <4>2 DEF Window
    <3>6. pc[u] = "entry"
      BY DEF Role, Getting, AddLabels, Filling, Reading, Untaken
    <3>7. ql[u].header \in 1 .. Len(blockIndex[p])
      <4>1. ProducerTypes
        BY WorkingIs
      <4> QED
        BY <1>16, <3>6, <4>1 DEF ProducerTypes
    <3>8. blockIndex'[p][ql'[u].header] = h /\ ql'[u].tail = x
      BY <1>7, <3>2, <3>7
    <3>9. X1[m] = X[m] /\ Key(p, X1, m)' = Base(m)
      BY <1>8, <3>3, <3>5
    <3> QED
      BY <2>1, <2>3, <3>3, <3>4, <3>8, <3>9 DEF Finds
  <2> QED
    BY <2>1, <2>3, <2>4, <2>5
<1>17. ElementsInv(p, n, X1, D)'
  BY <1>1, <1>3, <1>7, <1>10, <1>11, <1>12, <1>13, <1>14, <1>15, <1>16, WriterElements
<1> QED
  BY <1>17

\* insert_block_index_entry takes an entry for the next block, or the index grows.
LEMMA InsertElements ==
  ASSUME NEW t, NEW p, NEW n, NEW X, NEW D, Working(t, p, n, X, D), Insert(t)
  PROVE  \E n1, X1, D1 : ElementsInv(p, n1, X1, D1)'
<1>1. /\ \A l : Go(t, l) => pc'[t] = l
      /\ \A w : Remember(t, w) => ql'[t] = w
      /\ p = ql[t].p /\ ql[t] \in ElementLocals
  BY WorkingIs
<1>2. NextEntry(p) = X[n]
  BY NextIs
<1>3. pc[t] = "insert" /\ UNCHANGED <<elements, dequeuedIn, tailIndex, headIndex, tailBlock>>
  BY DEF Insert, counters
<1>4. ql[t].index = tailIndex[p]
  <2>1. Enqueuing(t)
    BY <1>3 DEF Enqueuing, EnqueueLabels
  <2> QED
    BY <1>3, <2>1, OwnWriter
<1>5. \/ /\ entries[p][X[n]].key = INVALID_BLOCK_BASE \/ entries[p][X[n]].value = 0
         /\ SetsKey(p, X[n], tailIndex[p]) /\ Remember(t, [ql[t] EXCEPT !.entry = X[n]])
         /\ Go(t, "settail") /\ UNCHANGED blockIndex
      \/ entries[p][X[n]].value # 0 /\ NewBlockIndex(p) /\ UNCHANGED <<pc, ql>>
  BY <1>1, <1>2, <1>4 DEF Insert, NextEntry, SetsKey
<1>6. CASE /\ entries[p][X[n]].key = INVALID_BLOCK_BASE \/ entries[p][X[n]].value = 0
           /\ SetsKey(p, X[n], tailIndex[p]) /\ Remember(t, [ql[t] EXCEPT !.entry = X[n]])
           /\ Go(t, "settail") /\ UNCHANGED blockIndex
  <2>1. Val(p, X, n) = 0
    BY <1>6, NextIs DEF Val
  <2>2. pc'[t] = "settail" /\ ql'[t] = [ql[t] EXCEPT !.entry = X[n]]
    BY <1>1, <1>6
  <2>3. ql'[t].entry = X[n]
    BY <1>1, <2>2 DEF ElementLocals
  <2>4. ElementsInv(p, n, X, D)'
    BY <1>3, <1>6, <2>1, <2>2, <2>3, UnusedElements
  <2> QED
    BY <2>4
<1>7. CASE entries[p][X[n]].value # 0 /\ NewBlockIndex(p) /\ UNCHANGED <<pc, ql>>
  <2>1. Val(p, X, n) # 0
    BY <1>7 DEF Val
  <2>2. \E X1 : ElementsInv(p, n, X1, D)'
    BY <1>3, <1>7, <2>1, GrowElements
  <2> QED
    BY <2>2
<1> QED
  BY <1>5, <1>6, <1>7

-----------------------------------------------------------------------------
\* The value of an entry is set.
SetsValue(p, e, x) == entries' = [entries EXCEPT ![p][e].value = x]

\* It is set there and nowhere else.
LEMMA EntrySet ==
  ASSUME ProducerTypes, NEW p \in Producers, NEW e \in Entries(p), NEW x \in Addresses,
         SetsValue(p, e, x)
  PROVE  /\ Size(p)' = Size(p)
         /\ \A f \in Entries(p) : entries'[p][f].key = entries[p][f].key
         /\ \A f \in Entries(p) : entries'[p][f].value = IF f = e THEN x ELSE entries[p][f].value
<1>1. entries \in [Producers -> Seq(IndexEntry)]
  BY DEF ProducerTypes, IndexTypes
<1>2. \A q \in Producers : entries[q] \in Seq(IndexEntry)
  BY <1>1
<1>3. entries[p][e] \in IndexEntry
  BY <1>2, ElementOfSeq DEF Entries
<1>4. PICK r : r = [entries[p][e] EXCEPT !.value = x]
  OBVIOUS
<1>5. r \in IndexEntry /\ r.value = x /\ r.key = entries[p][e].key
  BY <1>3, <1>4 DEF IndexEntry
<1>6. PICK s : s = [entries[p] EXCEPT ![e] = r]
  OBVIOUS
<1>7. Len(s) = Len(entries[p]) /\ \A j \in 1 .. Len(entries[p]) :
        s[j] = IF j = e THEN r ELSE entries[p][j]
  BY <1>2, <1>5, <1>6, SeqWritten
<1>8. entries' = [entries EXCEPT ![p] = s]
  BY <1>4, <1>6 DEF SetsValue
<1>9. entries'[p] = s
  BY <1>1, <1>8
<1> QED
  BY <1>5, <1>7, <1>9 DEF Entries, Size

\* The tail of the index moves by i slots.
LEMMA MovedIs ==
  ASSUME IndexTypes, NEW p \in Producers, NEW n, NEW X, IndexInv(p, n, X), NEW i \in Int,
         MoveTail(p, i), Size(p)' = Size(p), NEW n1 \in Nat, n1 = n + i
  PROVE  /\ IndexInv(p, n1, X)'
         /\ \A h \in 1 .. Len(blockIndex[p]) : blockIndex'[p][h].slots = blockIndex[p][h].slots
<1>1. PICK c, h, s, T, l, b : /\ c = Size(p) /\ h = Current(p) /\ s = h.slots /\ T = h.tail
                              /\ b = blockIndex[p] /\ l = Len(b)
  OBVIOUS
<1>2. /\ n \in Nat /\ c \in Nat \ {0} /\ c >= 2 /\ T \in Nat /\ Len(s) = c /\ Capacity(h) = c
      /\ h \in Header(c) /\ b \in Seq(Header(c)) /\ l \in Nat \ {0} /\ h = b[l]
      /\ DOMAIN blockIndex = Producers
  <2>1. h \in Header(c) /\ c \in Nat /\ l \in Nat \ {0} /\ h = b[l]
    BY <1>1, CurrentIs DEF Size, Current
  <2>2. n \in Nat /\ c >= 2 /\ Len(s) = c /\ Capacity(h) = c
    BY <1>1 DEF IndexInv, Capacity
  <2>3. T \in Nat
    BY <1>1, <2>1 DEF Header
  <2>4. b \in Seq(Header(c)) /\ DOMAIN blockIndex = Producers
    BY <1>1 DEF IndexTypes, Size
  <2> QED
    BY <2>1, <2>2, <2>3, <2>4
<1>3. PICK x : x = (T + i) % c
  OBVIOUS
<1>4. x \in Nat /\ T + i \in Int
  <2>1. T + i \in Int
    BY <1>2
  <2>2. x \in 0 .. c - 1
    BY <1>2, <1>3, <2>1, Division
  <2> QED
    BY <1>2, <2>1, <2>2
<1>5. PICK g : g = [h EXCEPT !.tail = x]
  OBVIOUS
<1>6. g.tail = x /\ g.slots = s /\ g \in Header(c)
  <2>1. h \in [tail : Nat, slots : Seq(1 .. c)] /\ Len(h.slots) > 0
    BY <1>2 DEF Header
  <2>2. g \in [tail : Nat, slots : Seq(1 .. c)] /\ g.slots = h.slots /\ g.tail = x
    BY ONLY <1>4, <1>5, <2>1
  <2> QED
    BY <1>1, <2>1, <2>2 DEF Header
<1>7. PICK d : d = [b EXCEPT ![l] = g]
  OBVIOUS
<1>8. blockIndex'[p] = d
  <2>1. blockIndex' = [blockIndex EXCEPT ![p][l].tail = (@ + i) % Capacity(h)]
    BY <1>1 DEF MoveTail
  <2>2. blockIndex' = [blockIndex EXCEPT ![p] = d]
    BY <1>1, <1>2, <1>3, <1>5, <1>7, <2>1
  <2> QED
    BY <1>2, <2>2
<1>9. Len(d) = l /\ \A j \in 1 .. l : d[j] = IF j = l THEN g ELSE b[j]
  BY <1>1, <1>2, <1>6, <1>7, SeqWritten
<1>10. Current(p)' = g
  BY <1>2, <1>8, <1>9 DEF Current
<1>11. \A k \in Int : X[k] = Slot(g, g.tail + (k - (n1 - 1)))
  <2> SUFFICES ASSUME NEW k \in Int PROVE X[k] = Slot(g, g.tail + (k - (n1 - 1)))
    OBVIOUS
  <2>1. X[k] = s[((T + (k - (n - 1))) % c) + 1]
    BY <1>1, <1>2 DEF IndexInv, Slot
  <2>2. PICK y : y = k - (n1 - 1)
    OBVIOUS
  <2>3. y \in Int /\ (T + i) + y = T + (k - (n - 1))
    BY <1>2, <2>2
  <2>4. (x + y) % c = ((T + i) + y) % c
    BY <1>2, <1>3, <1>4, <2>3, Remainders
  <2>5. Slot(g, x + y) = s[((x + y) % c) + 1]
    BY <1>2, <1>6 DEF Slot, Capacity
  <2> QED
    BY <1>6, <2>1, <2>2, <2>3, <2>4, <2>5
<1>12. IndexInv(p, n1, X)'
  <2>1. Capacity(g) = Size(p)'
    BY <1>1, <1>2, <1>6 DEF Capacity
  <2>2. /\ \A j, k \in 1 .. c : s[j] = s[k] => j = k
        /\ \A e \in 1 .. c : \E j \in 1 .. c : s[j] = e
    BY <1>1 DEF IndexInv
  <2>3. Size(p)' = c /\ Current(p)' = g /\ g.slots = s /\ c >= 2 /\ n1 \in Nat
    BY <1>1, <1>2, <1>6, <1>10
  <2> QED
    BY <1>11, <2>1, <2>2, <2>3 DEF IndexInv
<1>13. \A j \in 1 .. Len(blockIndex[p]) : blockIndex'[p][j].slots = blockIndex[p][j].slots
  BY <1>1, <1>2, <1>6, <1>8, <1>9
<1> QED
  BY <1>12, <1>13

-----------------------------------------------------------------------------
\* A thread finds its entry through the slots that it has read, wherever the tail is now.
LEMMA FindsAgain ==
  ASSUME NEW p, NEW u, NEW i, NEW n, NEW X, Finds(u, p, i, n, X), ql'[u] = ql[u], NEW n1,
         n \in Int, n1 \in Int, Of(i) \in Int,
         blockIndex'[p][ql[u].header].slots = blockIndex[p][ql[u].header].slots,
         \A m \in Of(i) .. n :
           Key(p, X, m) = Base(m) /\ (m = n => Val(p, X, n) = 0 /\ tailIndex[p] = Base(n)) =>
             /\ m <= n1 /\ Key(p, X, m)' = Base(m)
             /\ m = n1 => Val(p, X, n1)' = 0 /\ tailIndex'[p] = Base(n1)
  PROVE  Finds(u, p, i, n1, X)'
<1>1. PICK h, x, o : h = blockIndex[p][ql[u].header] /\ x = ql[u].tail /\ o = Of(i)
  OBVIOUS
<1>2. PICK m \in o .. n :
        /\ Slot(h, x) = X[m]
        /\ Key(p, X, m) = Base(m)
        /\ Slot(h, x + (o - m)) = X[o]
        /\ m = n => Val(p, X, n) = 0 /\ tailIndex[p] = Base(n)
  BY <1>1 DEF Finds
<1>3. /\ m <= n1 /\ Key(p, X, m)' = Base(m)
      /\ m = n1 => Val(p, X, n1)' = 0 /\ tailIndex'[p] = Base(n1)
  BY <1>1, <1>2
<1>4. PICK g : g = blockIndex'[p][ql'[u].header]
  OBVIOUS
<1>5. \A y : Slot(g, y) = Slot(h, y)
  BY <1>1, <1>4 DEF Slot, Capacity
<1>6. m \in o .. n1
  BY <1>1, <1>2, <1>3
<1> QED
  BY <1>1, <1>2, <1>3, <1>4, <1>5, <1>6 DEF Finds

\* The tail of the index moves to the entry of the next block.
LEMMA InsertTailElements ==
  ASSUME NEW t, NEW p, NEW n, NEW X, NEW D, Working(t, p, n, X, D), InsertTail(t)
  PROVE  ElementsInv(p, n + 1, X, D)'
<1>0. pc[t] = "settail" /\ UNCHANGED <<elements, dequeuedIn, counters, entries, ql>>
  BY DEF InsertTail
<1>a. UNCHANGED <<tailIndex, headIndex, tailBlock>>
  BY <1>0 DEF counters
<1>1. Enqueuing(t) /\ Role(t) = "settail"
  BY <1>0 DEF Enqueuing, EnqueueLabels, Role, Getting, AddLabels
<1>2. /\ \A l : Go(t, l) => pc'[t] = l
      /\ p = ql[t].p /\ p \in Producers /\ ql'[t].p = p /\ t \in Threads
      /\ IndexTypes /\ ProducerTypes
  BY WorkingIs
<1>3. pc'[t] = "requisition" /\ MoveTail(p, 1)
  BY <1>2 DEF InsertTail
<1>4. Role(t)' = "gets"
  BY <1>3 DEF Role, Getting
<1>5. Role(t)' \notin Reading /\ Role(t)' # "release"
  BY <1>4 DEF Reading, Untaken
<1>6. /\ tailIndex[p] = Base(n) /\ ql[t].entry = X[n]
      /\ Val(p, X, n) = 0 /\ Key(p, X, n) = Base(n)
  <2>1. Writer(t, p, n, X)
    BY <1>1, OwnWriter
  <2> QED
    BY <1>1, <2>1 DEF Writer
<1>b. ElementsInv(p, n, X, D)
  BY DEF Working
<1>n. /\ n \in Nat /\ n \in Int /\ n - 1 \in Int /\ n + 1 \in Nat /\ (n + 1) - 1 = n
      /\ (n + 1) - 2 = n - 1 /\ Size(p) \in Nat /\ Size(p) >= 2
      /\ \A k \in Window(p, n) : k \in Int
  <2>1. n \in Nat /\ Size(p) \in Nat /\ Size(p) >= 2
    BY WindowIs
  <2>2. \A k \in Window(p, n) : k \in Int
    BY WindowIs
  <2> QED
    BY <2>1, <2>2
<1>7. /\ \A Y, k : Val(p, Y, k)' = Val(p, Y, k) /\ Key(p, Y, k)' = Key(p, Y, k)
      /\ Size(p)' = Size(p)
  BY <1>0 DEF Val, Key, Size
<1>8. /\ IndexInv(p, n + 1, X)'
      /\ \A h \in 1 .. Len(blockIndex[p]) : blockIndex'[p][h].slots = blockIndex[p][h].slots
  <2>1. PICK n1 : n1 = n + 1
    OBVIOUS
  <2>2. n1 \in Nat /\ 1 \in Int /\ IndexInv(p, n, X)
    BY <1>n, <1>b, <2>1 DEF ElementsInv
  <2>3. /\ IndexInv(p, n1, X)'
        /\ \A h \in 1 .. Len(blockIndex[p]) : blockIndex'[p][h].slots = blockIndex[p][h].slots
    BY <1>2, <1>3, <1>7, <2>1, <2>2, MovedIs
  <2> QED
    BY <2>1, <2>3
<1>9. \A k \in Window(p, n) : Val(p, X, k) # 0 => k >= (n + 1) - Size(p)
  <2> SUFFICES ASSUME NEW k \in Window(p, n), Val(p, X, k) # 0 PROVE k >= (n + 1) - Size(p)
    OBVIOUS
  <2>1. Val(p, X, n - Size(p)) = 0
    BY <1>6, NextIs
  <2>2. k # n - Size(p) /\ k \in Int
    BY <1>n, <2>1
  <2>3. n - Size(p) <= k
    BY <1>n DEF Window
  <2> QED
    BY <1>n, <2>2, <2>3
<1>10. \A k \in Window(p, n + 1)' : Val(p, X, k) # 0 => k \in Window(p, n)
  <2> SUFFICES ASSUME NEW k \in Window(p, n + 1)', Val(p, X, k) # 0 PROVE k \in Window(p, n)
    OBVIOUS
  <2>1. k \in (n + 1) - Size(p) .. (n + 1) - 1
    BY <1>7 DEF Window
  <2>2. k # n
    BY <1>6
  <2> QED
    BY <1>n, <2>1, <2>2 DEF Window
<1>11. KeysInv(p, n + 1, X)'
  <2>1. KeysInv(p, n, X)
    BY <1>b DEF ElementsInv
  <2> QED
    BY <1>6, <1>7, <1>n, <1>10, <2>1 DEF KeysInv
<1>c. Base(n) \in Int /\ Base(n + 1) \in Int /\ Base(n) < Base(n + 1) /\ Base(n) # Base(n - 1)
  <2>1. /\ Base(n) \in Int /\ Base(n + 1) = Base(n) + BLOCK_SIZE
        /\ Base(n) = Base(n - 1) + BLOCK_SIZE /\ Base(n - 1) \in Int
    BY <1>n, Bases
  <2> QED
    BY <2>1, ProducerAssumption
<1>12. TailInv(p, n + 1)'
  <2>1. Fills(t, p)'
    BY <1>2, <1>4 DEF Fills
  <2>2. Base((n + 1) - 1) <= tailIndex'[p] /\ tailIndex'[p] <= Base(n + 1)
    BY <1>6, <1>a, <1>c, <1>n
  <2> QED
    BY <1>2, <2>1, <2>2 DEF TailInv
<1>13. LiveInv(p, n + 1, X, D)'
  <2> SUFFICES ASSUME NEW k \in 0 .. (n + 1) - 1
               PROVE  \/ k >= (n + 1) - Size(p) /\ Val(p, X, k) # 0
                      \/ AllDone(D, k)
                      \/ k = (n + 1) - 1 /\ tailIndex[p] = Base(k)
    BY <1>7, <1>a DEF LiveInv
  <2>1. CASE k = n
    BY <1>6, <1>n, <2>1
  <2>2. CASE k # n
    <3>1. k \in 0 .. n - 1 /\ k \in Int
      BY <1>n, <2>2
    <3>2. \/ k >= n - Size(p) /\ Val(p, X, k) # 0
          \/ AllDone(D, k)
          \/ k = n - 1 /\ tailIndex[p] = Base(k)
      BY <1>b, <3>1 DEF ElementsInv, LiveInv
    <3>3. ~ (k = n - 1 /\ tailIndex[p] = Base(k))
      BY <1>6, <1>c
    <3>4. k >= n - Size(p) => k \in Window(p, n)
      BY <1>n, <3>1 DEF Window
    <3> QED
      BY <1>9, <3>2, <3>3, <3>4
  <2> QED
    BY <2>1, <2>2
<1>14. LastInv(p, n + 1, X)'
  <2>1. n > 0 /\ Val(p, X, n - 1) # 0 => tailBlock[p] = Val(p, X, n - 1)
    BY <1>b DEF ElementsInv, LastInv
  <2>2. n + 1 > 1 => n > 0
    BY <1>n
  <2> QED
    BY <1>6, <1>7, <1>a, <1>n, <2>1, <2>2 DEF LastInv
<1>15. FilledInv(p, n + 1, X, D)'
  <2>1. \A i : Wanted(p, i)' <=> Wanted(p, i)
    BY <1>1, <1>5, <1>a, RolesSame DEF Wanted
  <2>2. \A u \in Threads : \A k : Releases(u, p, k)' <=> Releases(u, p, k)
    BY <1>1, <1>5, RolesSame
  <2>3. FilledInv(p, n, X, D)
    BY <1>b DEF ElementsInv
  <2>4. \A k : \A b : Filled(p, k, b, D) => Filled(p, k, b, D)'
    BY <1>0, <2>1, <2>2 DEF Filled
  <2> QED
    BY <1>7, <1>10, <2>3, <2>4 DEF FilledInv
<1>16. Writer(t, p, n + 1, X)'
  <2>1. n > 0 => Key(p, X, n - 1) = Base(n - 1)
    BY <1>b DEF ElementsInv, KeysInv
  <2>2. n + 1 > 0 /\ (n + 1 > 1 => n > 0)
    BY <1>n
  <2> QED
    BY <1>0, <1>4, <1>6, <1>7, <1>a, <1>n, <2>1, <2>2 DEF Writer, Filling
<1>17. ASSUME NEW u \in Threads, NEW i,
              u # t /\ ql[u].p = p /\ ql[u].index = i /\ Role(u) \in Reading \cup {"release"}
       PROVE  /\ Role(u) = "entry" => Finds(u, p, i, n + 1, X)'
              /\ X[Of(i)] = X[Of(i)] /\ Val(p, X, Of(i))' = Val(p, X, Of(i))
              /\ Of(i) >= (n + 1) - Size(p)'
  <2>1. Of(i) \in Window(p, n) /\ Val(p, X, Of(i)) # 0 /\ Of(i) < n
    BY <1>17, Served
  <2>2. Of(i) \in Int /\ Of(i) >= (n + 1) - Size(p)'
    BY <1>7, <1>9, <1>n, <2>1
  <2>3. Role(u) = "entry" => Finds(u, p, i, n + 1, X)'
    <3> SUFFICES ASSUME Role(u) = "entry" PROVE Finds(u, p, i, n + 1, X)'
      OBVIOUS
    <3>1. Finds(u, p, i, n, X)
      BY <1>17, <1>b DEF ElementsInv, ActorsInv, Reader
    <3>2. pc[u] = "entry"
      BY DEF Role, Getting, AddLabels, Filling, Reading, Untaken
    <3>3. ql[u].header \in 1 .. Len(blockIndex[p])
      BY <1>2, <1>17, <3>2 DEF ProducerTypes
    <3>4. blockIndex'[p][ql[u].header].slots = blockIndex[p][ql[u].header].slots
      BY <1>8, <3>3
    <3>5. PICK n1 : n1 = n + 1
      OBVIOUS
    <3>6. n1 \in Int /\ n < n1
      BY <1>n, <3>5
    <3>7. \A m \in Of(i) .. n : m <= n1 /\ m # n1
      BY <1>n, <2>2, <3>6
    <3>8. Finds(u, p, i, n1, X)'
      BY <1>0, <1>7, <1>n, <2>2, <3>1, <3>4, <3>6, <3>7, FindsAgain
    <3> QED
      BY <3>5, <3>8
  <2> QED
    BY <1>7, <2>2, <2>3
<1> QED
  BY <1>1, <1>5, <1>a, <1>8, <1>11, <1>12, <1>13, <1>14, <1>15, <1>16, <1>17, WriterElements

-----------------------------------------------------------------------------
\* What a thread that has got a block, or none, knows of its producer.
LEMMA GetsIs ==
  ASSUME NEW t, NEW p, NEW n, NEW X, NEW D, Working(t, p, n, X, D), pc[t] = "gotblock"
  PROVE  /\ Enqueuing(t) /\ Role(t) = "gets"
         /\ n > 0 /\ n - 1 \in Int /\ n - 1 \in Nat /\ n - 1 \in Window(p, n)
         /\ tailIndex[p] = Base(n - 1) /\ ql[t].entry = X[n - 1]
         /\ Val(p, X, n - 1) = 0 /\ X[n - 1] \in Entries(p)
         /\ n > 1 => Key(p, X, n - 2) = Base(n - 2)
         /\ Base(n - 1) \in Int /\ Base(n) \in Int /\ Base(n - 2) \in Int
         /\ Base(n - 1) < Base(n) /\ Base(n - 2) < Base(n - 1)
<1>1. Enqueuing(t) /\ Role(t) = "gets"
  BY DEF Enqueuing, EnqueueLabels, Role, Getting
<1>2. /\ n > 0 /\ tailIndex[p] = Base(n - 1) /\ ql[t].entry = X[n - 1]
      /\ Val(p, X, n - 1) = 0
      /\ n > 1 => Key(p, X, n - 2) = Base(n - 2)
  <2>1. Writer(t, p, n, X)
    BY <1>1, OwnWriter
  <2> QED
    BY <1>1, <2>1 DEF Writer
<1>3. n \in Nat /\ n - 1 \in Int /\ n - 1 \in Nat /\ n - 2 \in Int /\ (n - 2) + 1 = n - 1
  <2>1. n \in Nat
    BY WindowIs
  <2> QED
    BY <1>2, <2>1
<1>4. X[n - 1] \in Entries(p)
  BY <1>3, WindowIs
<1>5. n - 1 \in Window(p, n)
  BY <1>2, TailIs
<1>6. Base(n - 1) \in Int /\ Base(n) \in Int /\ Base(n) = Base(n - 1) + BLOCK_SIZE
  BY TailIs
<1>7. Base(n - 2) \in Int /\ Base(n - 1) = Base(n - 2) + BLOCK_SIZE
  BY <1>3, Bases
<1>8. BLOCK_SIZE \in Nat /\ BLOCK_SIZE >= 2
  BY ProducerAssumption
<1>9. Base(n - 1) < Base(n) /\ Base(n - 2) < Base(n - 1)
  BY <1>6, <1>7, <1>8
<1> QED
  BY <1>1, <1>2, <1>3, <1>4, <1>5, <1>6, <1>7, <1>9

\* The tail of the index moves back.
LEMMA GotNoBlockElements ==
  ASSUME NEW t, NEW p, NEW n, NEW X, NEW D, Working(t, p, n, X, D), GotNoBlock(t)
  PROVE  ElementsInv(p, n - 1, X, D)'
<1>0. pc[t] = "gotblock" /\ UNCHANGED <<elements, dequeuedIn, counters, ql>>
  BY DEF GotNoBlock
<1>a. UNCHANGED <<tailIndex, headIndex, tailBlock>>
  BY <1>0 DEF counters
<1>1. /\ Enqueuing(t) /\ Role(t) = "gets"
      /\ n > 0 /\ n - 1 \in Int /\ n - 1 \in Nat /\ n - 1 \in Window(p, n)
      /\ tailIndex[p] = Base(n - 1) /\ ql[t].entry = X[n - 1]
      /\ Val(p, X, n - 1) = 0 /\ X[n - 1] \in Entries(p)
      /\ n > 1 => Key(p, X, n - 2) = Base(n - 2)
  BY <1>0, GetsIs
<1>c. /\ Base(n - 1) \in Int /\ Base(n) \in Int /\ Base(n - 2) \in Int
      /\ Base(n - 1) < Base(n) /\ Base(n - 2) < Base(n - 1)
  BY <1>0, GetsIs
<1>2. /\ \A l : Go(t, l) => pc'[t] = l
      /\ p = ql[t].p /\ p \in Producers /\ ql'[t].p = p /\ t \in Threads
      /\ IndexTypes /\ ProducerTypes
  BY WorkingIs
<1>3. pc'[t] = "failed" /\ MoveTail(p, -1)
  BY <1>2 DEF GotNoBlock
<1>4. Role(t)' = "none"
  BY <1>3 DEF Role, Getting, AddLabels, Filling, Reading, Untaken
<1>5. Role(t)' \notin Reading /\ Role(t)' # "release"
  BY <1>4 DEF Reading, Untaken
<1>b. ElementsInv(p, n, X, D)
  BY DEF Working
<1>6. PICK m : m = n - 1
  OBVIOUS
<1>n. /\ n \in Nat /\ n \in Int /\ m \in Nat /\ m \in Int /\ n = m + 1 /\ m < n
      /\ m - 1 = n - 2 /\ m - 1 \in Int /\ Size(p) \in Nat /\ Size(p) >= 2
  <2>1. n \in Nat /\ Size(p) \in Nat /\ Size(p) >= 2
    BY WindowIs
  <2> QED
    BY <1>1, <1>6, <2>1
<1>w. \A k \in Window(p, n) : k \in Int
  BY WindowIs
<1>7. /\ Size(p)' = Size(p)
      /\ \A k \in Int : Val(p, X, k)' = Val(p, X, k) /\ Key(p, X, k)' = Key(p, X, k)
  <2>1. SetsValue(p, X[m], 0)
    BY <1>1, <1>2, <1>6 DEF GotNoBlock, SetsValue
  <2>2. X[m] \in Entries(p) /\ entries[p][X[m]].value = 0 /\ 0 \in Addresses
    BY <1>1, <1>6 DEF Val, Addresses
  <2>3. /\ Size(p)' = Size(p)
        /\ \A f \in Entries(p) : entries'[p][f].key = entries[p][f].key
        /\ \A f \in Entries(p) : entries'[p][f].value = IF f = X[m] THEN 0 ELSE entries[p][f].value
    BY <1>2, <2>1, <2>2, EntrySet
  <2>4. \A k \in Int : X[k] \in Entries(p)
    BY WindowIs
  <2> QED
    BY <2>2, <2>3, <2>4 DEF Val, Key
<1>8. /\ IndexInv(p, m, X)'
      /\ \A h \in 1 .. Len(blockIndex[p]) : blockIndex'[p][h].slots = blockIndex[p][h].slots
  <2>1. PICK j : j = -1
    OBVIOUS
  <2>2. j \in Int /\ m = n + j
    BY <1>n, <2>1
  <2>3. MoveTail(p, j) /\ IndexInv(p, n, X)
    BY <1>3, <1>b, <2>1 DEF ElementsInv
  <2>4. Size(p)' = Size(p) /\ m \in Nat
    BY <1>7, <1>n
  <2> QED
    BY <1>2, <2>2, <2>3, <2>4, MovedIs
<1>9. \A k \in Window(p, m)' : k \in Int /\ (Val(p, X, k)' # 0 => k \in Window(p, n))
  <2> SUFFICES ASSUME NEW k \in Window(p, m)'
                        PROVE k \in Int /\ (Val(p, X, k)' # 0 => k \in Window(p, n))
    OBVIOUS
  <2>1. k \in m - Size(p) .. m - 1
    BY <1>7 DEF Window
  <2>2. k \in Int
    BY <1>n, <2>1
  <2>3. k = m - Size(p) => Val(p, X, k) = 0
    <3>1. X[m - Size(p)] = X[m]
      BY <1>n, WindowIs
    <3> QED
      BY <1>1, <1>6, <3>1 DEF Val
  <2>4. k # m - Size(p) => k \in Window(p, n)
    BY <1>n, <2>1, <2>2 DEF Window
  <2> QED
    BY <1>7, <2>2, <2>3, <2>4
<1>11. KeysInv(p, m, X)'
  <2>1. KeysInv(p, n, X)
    BY <1>b DEF ElementsInv
  <2>2. m > 0 => Key(p, X, m - 1)' = Base(m - 1)
    BY <1>1, <1>6, <1>7, <1>n
  <2>3. \A k \in Window(p, m)' : Val(p, X, k)' # 0 => k >= 0 /\ Key(p, X, k)' = Base(k)
    BY <1>7, <1>9, <2>1 DEF KeysInv
  <2> QED
    BY <2>2, <2>3 DEF KeysInv
<1>12. TailInv(p, m)'
  <2>1. Base(m - 1) <= tailIndex[p] /\ tailIndex[p] <= Base(m) /\ tailIndex[p] # Base(m - 1)
    BY <1>1, <1>6, <1>c, <1>n
  <2> QED
    BY <1>a, <2>1 DEF TailInv
<1>13. LiveInv(p, m, X, D)'
  <2> SUFFICES ASSUME NEW k \in 0 .. m - 1
               PROVE  (k >= m - Size(p) /\ Val(p, X, k) # 0) \/ AllDone(D, k)
    BY <1>7, <1>n DEF LiveInv
  <2>1. k \in 0 .. n - 1 /\ k # n - 1 /\ k \in Int
    BY <1>n
  <2>2. \/ k >= n - Size(p) /\ Val(p, X, k) # 0
        \/ AllDone(D, k)
    BY <1>b, <2>1 DEF ElementsInv, LiveInv
  <2>3. k >= n - Size(p) => k >= m - Size(p)
    BY <1>n, <2>1
  <2> QED
    BY <2>2, <2>3
<1>14. LastInv(p, m, X)'
  <2>1. m > 0 => n > 1
    BY <1>n
  <2>2. m > 0 /\ Val(p, X, m - 1) # 0 => tailBlock[p] = Val(p, X, m - 1)
    BY <1>1, <1>6, <1>b, <1>n, <2>1 DEF ElementsInv, LastInv
  <2>3. tailIndex[p] # Base(m - 1)
    BY <1>1, <1>c, <1>n
  <2> QED
    BY <1>7, <1>a, <1>n, <2>2, <2>3 DEF LastInv
<1>15. FilledInv(p, m, X, D)'
  <2>1. \A i : Wanted(p, i)' <=> Wanted(p, i)
    BY <1>1, <1>5, <1>a, RolesSame DEF Wanted
  <2>2. \A u \in Threads : \A k : Releases(u, p, k)' <=> Releases(u, p, k)
    BY <1>1, <1>5, RolesSame
  <2>3. FilledInv(p, n, X, D)
    BY <1>b DEF ElementsInv
  <2>4. \A k : \A b : Filled(p, k, b, D) => Filled(p, k, b, D)'
    BY <1>0, <2>1, <2>2 DEF Filled
  <2> QED
    BY <1>7, <1>9, <2>3, <2>4 DEF FilledInv
<1>16. Writer(t, p, m, X)'
  BY <1>4 DEF Writer, Filling
<1>17. ASSUME NEW u \in Threads, NEW i,
              u # t /\ ql[u].p = p /\ ql[u].index = i /\ Role(u) \in Reading \cup {"release"}
       PROVE  /\ Role(u) = "entry" => Finds(u, p, i, m, X)'
              /\ X[Of(i)] = X[Of(i)] /\ Val(p, X, Of(i))' = Val(p, X, Of(i))
              /\ Of(i) >= m - Size(p)'
  <2>1. Of(i) \in Window(p, n) /\ n - Size(p) <= Of(i)
    BY <1>17, Served
  <2>2. Of(i) \in Int /\ Of(i) >= m - Size(p)'
    <3>1. Of(i) \in Int
      BY <1>w, <2>1
    <3> QED
      BY <1>7, <1>n, <2>1, <3>1
  <2>3. Role(u) = "entry" => Finds(u, p, i, m, X)'
    <3> SUFFICES ASSUME Role(u) = "entry" PROVE Finds(u, p, i, m, X)'
      OBVIOUS
    <3>1. Finds(u, p, i, n, X)
      BY <1>17, <1>b DEF ElementsInv, ActorsInv, Reader
    <3>2. pc[u] = "entry"
      BY DEF Role, Getting, AddLabels, Filling, Reading, Untaken
    <3>3. ql[u].header \in 1 .. Len(blockIndex[p])
      BY <1>2, <1>17, <3>2 DEF ProducerTypes
    <3>4. blockIndex'[p][ql[u].header].slots = blockIndex[p][ql[u].header].slots
      BY <1>8, <3>3
    <3>5. tailIndex[p] # Base(n)
      BY <1>1, <1>c
    <3>6. ASSUME NEW k \in Of(i) .. n, k # n PROVE k <= m /\ k \in Int
      BY <1>n, <2>2, <3>6
    <3>7. Val(p, X, m)' = 0 /\ tailIndex'[p] = Base(m)
      BY <1>1, <1>6, <1>7, <1>a, <1>n
    <3>8. \A k \in Of(i) .. n :
           Key(p, X, k) = Base(k) /\ (k = n => Val(p, X, n) = 0 /\ tailIndex[p] = Base(n)) =>
             /\ k <= m /\ Key(p, X, k)' = Base(k)
             /\ k = m => Val(p, X, m)' = 0 /\ tailIndex'[p] = Base(m)
      BY <1>7, <3>5, <3>6, <3>7
    <3>9. ql'[u] = ql[u]
      BY <1>0
    <3> QED
      BY <1>n, <2>2, <3>1, <3>4, <3>8, <3>9, FindsAgain
  <2> QED
    BY <1>7, <2>2, <2>3
<1>18. headIndex'[p] = headIndex[p]
  BY <1>a
<1>19. ElementsInv(p, m, X, D)'
  BY <1>1, <1>5, <1>18, <1>8, <1>11, <1>12, <1>13, <1>14, <1>15, <1>16, <1>17, WriterElements
<1> QED
  BY <1>6, <1>19

-----------------------------------------------------------------------------
\* The block that a thread has got becomes the last one, and is empty.
LEMMA GotBlockElements ==
  ASSUME NEW t, NEW p, NEW n, NEW X, NEW D, Working(t, p, n, X, D), GotBlock(t)
  PROVE  ElementsInv(p, n, X, D)'
<1>0. pc[t] = "gotblock" /\ UNCHANGED <<elements, tailIndex, headIndex, blockIndex, ql>>
  BY DEF GotBlock
<1>1. /\ Enqueuing(t) /\ Role(t) = "gets"
      /\ n > 0 /\ n - 1 \in Int /\ n - 1 \in Nat /\ n - 1 \in Window(p, n)
      /\ tailIndex[p] = Base(n - 1) /\ ql[t].entry = X[n - 1]
      /\ Val(p, X, n - 1) = 0 /\ X[n - 1] \in Entries(p)
  BY <1>0, GetsIs
<1>c. Base(n - 1) \in Int /\ Base(n) \in Int /\ Base(n - 1) < Base(n)
  BY <1>0, GetsIs
<1>2. /\ \A l : Go(t, l) => pc'[t] = l
      /\ p = ql[t].p /\ p \in Producers /\ ql'[t].p = p /\ t \in Threads
      /\ IndexTypes /\ ProducerTypes /\ PoolTypes
  BY WorkingIs
<1>4. Role(t)' = "construct"
  <2>1. pc'[t] = "construct"
    BY <1>2 DEF GotBlock
  <2> QED
    BY <2>1 DEF Role, Getting, AddLabels, Filling, Reading, Untaken
<1>5. Role(t)' \notin Reading /\ Role(t)' # "release"
  BY <1>4 DEF Reading, Untaken
<1>b. ElementsInv(p, n, X, D)
  BY DEF Working
<1>6. PICK m : m = n - 1
  OBVIOUS
<1>n. /\ n \in Nat /\ n \in Int /\ m \in Nat /\ m \in Int /\ n = m + 1 /\ m < n
      /\ Size(p) \in Nat /\ Size(p) >= 2 /\ n - 2 \in Int
  <2>1. n \in Nat /\ Size(p) \in Nat /\ Size(p) >= 2
    BY WindowIs
  <2> QED
    BY <1>1, <1>6, <2>1
<1>w. \A k \in Window(p, n) : k \in Int
  BY WindowIs
<1>d. PICK b : b = fl[t].block
  OBVIOUS
<1>7. /\ b # 0 /\ b \in Addresses
      /\ \A e \in Entries(p) : entries[p][e].value # b
      /\ dequeuedIn'[b] = 0 /\ \A c \in Addresses : c # b => dequeuedIn'[c] = dequeuedIn[c]
      /\ tailBlock'[p] = b
  <2>1. b # 0 /\ dequeuedIn' = [dequeuedIn EXCEPT ![b] = 0]
          /\ tailBlock' = [tailBlock EXCEPT ![p] = b]
    BY <1>2, <1>d DEF GotBlock, ResetEmpty
  <2>2. fl[t] \in PoolLocals
    BY <1>2 DEF PoolTypes
  <2>3. b \in Addresses
    BY <1>d, <2>2 DEF PoolLocals
  <2>4. \A e \in Entries(p) : entries[p][e].value # b
    <3>1. Placed
      BY DEF Working
    <3> QED
      BY <1>0, <1>2, <1>d, <2>1, <3>1, Apart
  <2>5. DOMAIN dequeuedIn = Addresses /\ DOMAIN tailBlock = Producers
    BY <1>2 DEF ProducerTypes
  <2> QED
    BY <1>2, <2>1, <2>3, <2>4, <2>5
<1>8. /\ Size(p)' = Size(p)
      /\ \A k \in Int : Key(p, X, k)' = Key(p, X, k)
      /\ \A k \in Int : Val(p, X, k)' = IF X[k] = X[m] THEN b ELSE Val(p, X, k)
  <2>1. SetsValue(p, X[m], b) /\ X[m] \in Entries(p)
    BY <1>1, <1>2, <1>6, <1>d DEF GotBlock, SetsValue
  <2>2. /\ Size(p)' = Size(p)
        /\ \A f \in Entries(p) : entries'[p][f].key = entries[p][f].key
        /\ \A f \in Entries(p) : entries'[p][f].value = IF f = X[m] THEN b ELSE entries[p][f].value
    BY <1>2, <1>7, <2>1, EntrySet
  <2>3. \A k \in Int : X[k] \in Entries(p)
    BY WindowIs
  <2> QED
    BY <2>2, <2>3 DEF Val, Key
<1>9. /\ Val(p, X, m)' = b /\ m \in Window(p, n)
      /\ \A k \in Window(p, n) : k # m => Val(p, X, k)' = Val(p, X, k) /\ Val(p, X, k) # b
  <2>1. m \in Window(p, n)
    BY <1>1, <1>6
  <2>2. \A k \in Window(p, n) : X[k] = X[m] => k = m
    BY <2>1, WindowIs
  <2>3. \A k \in Window(p, n) : Val(p, X, k) # b
    <3>1. \A k \in Int : X[k] \in Entries(p)
      BY WindowIs
    <3> QED
      BY <1>7, <1>w, <3>1 DEF Val
  <2> QED
    BY <1>8, <1>n, <1>w, <2>1, <2>2, <2>3
<1>10. Current(p)' = Current(p) /\ Window(p, n)' = Window(p, n)
  BY <1>0, <1>8 DEF Current, Window
<1>11. IndexInv(p, n, X)'
  BY <1>8, <1>10, <1>b DEF ElementsInv, IndexInv
<1>12. KeysInv(p, n, X)'
  <2>1. KeysInv(p, n, X)
    BY <1>b DEF ElementsInv
  <2>2. n > 0 => Key(p, X, n - 1)' = Base(n - 1)
    BY <1>1, <1>8, <2>1 DEF KeysInv
  <2>3. ASSUME NEW k \in Window(p, n), Val(p, X, k)' # 0
        PROVE  k >= 0 /\ Key(p, X, k)' = Base(k)
    <3>1. CASE k = m
      BY <1>6, <1>n, <1>1, <2>2, <3>1
    <3>2. CASE k # m
      BY <1>8, <1>9, <1>w, <2>1, <2>3, <3>2 DEF KeysInv
    <3> QED
      BY <3>1, <3>2
  <2> QED
    BY <1>10, <2>2, <2>3 DEF KeysInv
<1>13. TailInv(p, n)'
  <2>1. Fills(t, p)'
    BY <1>2, <1>4 DEF Fills, Filling
  <2>2. Base(n - 1) <= tailIndex'[p] /\ tailIndex'[p] <= Base(n)
    BY <1>0, <1>1, <1>c
  <2> QED
    BY <1>2, <2>1, <2>2 DEF TailInv
<1>14. LiveInv(p, n, X, D)'
  <2> SUFFICES ASSUME NEW k \in 0 .. n - 1
               PROVE  (k >= n - Size(p) /\ Val(p, X, k)' # 0) \/ AllDone(D, k)
    BY <1>8 DEF LiveInv
  <2>1. CASE k = m
    BY <1>7, <1>9, <1>n, <2>1
  <2>2. CASE k # m
    <3>1. \/ k >= n - Size(p) /\ Val(p, X, k) # 0
          \/ AllDone(D, k)
      BY <1>6, <1>b, <2>2 DEF ElementsInv, LiveInv
    <3>2. k >= n - Size(p) => k \in Window(p, n)
      BY <1>n DEF Window
    <3> QED
      BY <1>9, <2>2, <3>1, <3>2
  <2> QED
    BY <2>1, <2>2
<1>15. LastInv(p, n, X)'
  <2>1. Val(p, X, n - 1)' = tailBlock'[p] /\ Val(p, X, n - 1)' # 0
    BY <1>6, <1>7, <1>9
  <2> QED
    BY <2>1 DEF LastInv
<1>16. FilledInv(p, n, X, D)'
  <2>1. \A i : Wanted(p, i)' <=> Wanted(p, i)
    BY <1>0, <1>1, <1>5, RolesSame DEF Wanted
  <2>2. \A u \in Threads : \A k : Releases(u, p, k)' <=> Releases(u, p, k)
    BY <1>1, <1>5, RolesSame
  <2>3. FilledInv(p, n, X, D)
    BY <1>b DEF ElementsInv
  <2>4. \A k : \A c \in Addresses : c # b /\ Filled(p, k, c, D) => Filled(p, k, c, D)'
    BY <1>0, <1>7, <2>1, <2>2 DEF Filled
  <2>5. Filled(p, m, b, D)'
    <3>1. \A i \in Indices(m) : i \in Int /\ i >= tailIndex[p]
      <4>1. \A i \in Int : i \in Indices(m) <=> (Base(m) <= i /\ i < Base(m + 1))
        BY <1>n, IndicesAre
      <4>2. \A i \in Indices(m) : i \in Int
        BY <1>n, IndicesAre
      <4> QED
        BY <1>1, <1>6, <4>1, <4>2
    <3>2. /\ tailIndex[p] \in Nat /\ headIndex[p] \in Nat /\ headIndex[p] <= tailIndex[p]
      BY WorkingIs
    <3>3. DoneIn(D, m) = {}
      <4>1. D \subseteq 0 .. headIndex[p] - 1
        BY <1>b DEF ElementsInv, DoneInv
      <4> QED
        BY <3>1, <3>2, <4>1 DEF DoneIn
    <3>4. ~ AllDone(D, m)
      <4>1. Base(m) \in Indices(m)
        BY <1>n, IndicesAre
      <4> QED
        BY <3>3, <4>1 DEF DoneIn, AllDone
    <3>5. \A i \in Indices(m) : ~ Wanted(p, i)
      BY <3>1, <3>2 DEF Wanted
    <3>6. Cardinality(DoneIn(D, m)) = 0
      BY <3>3, FS_EmptySet
    <3> QED
      BY <1>7, <2>1, <3>4, <3>5, <3>6 DEF Filled
  <2> SUFFICES ASSUME NEW k \in Window(p, n), Val(p, X, k)' # 0
               PROVE  Filled(p, k, Val(p, X, k), D)'
    BY <1>10 DEF FilledInv
  <2>6. PICK c : c = Val(p, X, k)'
    OBVIOUS
  <2>7. Filled(p, k, c, D)'
    <3>1. CASE k = m
      BY <1>9, <2>5, <2>6, <3>1
    <3>2. CASE k # m
      <4>1. c = Val(p, X, k) /\ c # b
        BY <1>9, <2>6, <3>2
      <4>2. Filled(p, k, c, D)
        BY <2>3, <2>6, <4>1 DEF FilledInv
      <4>3. c \in Addresses
        BY <1>w, <4>1, WindowIs
      <4> QED
        BY <2>4, <4>1, <4>2, <4>3
    <3> QED
      BY <3>1, <3>2
  <2> QED
    BY <2>6, <2>7
<1>17. Writer(t, p, n, X)'
  <2>1. n > 0 /\ tailIndex'[p] < Base(n) /\ Val(p, X, n - 1)' # 0
    BY <1>0, <1>1, <1>6, <1>7, <1>9, <1>c
  <2> QED
    BY <1>4, <2>1 DEF Writer, Filling
<1>18. ASSUME NEW u \in Threads, NEW i,
              u # t /\ ql[u].p = p /\ ql[u].index = i /\ Role(u) \in Reading \cup {"release"}
       PROVE  /\ Role(u) = "entry" => Finds(u, p, i, n, X)'
              /\ X[Of(i)] = X[Of(i)] /\ Val(p, X, Of(i))' = Val(p, X, Of(i))
              /\ Of(i) >= n - Size(p)'
  <2>1. Of(i) \in Window(p, n) /\ n - Size(p) <= Of(i) /\ Val(p, X, Of(i)) # 0
    BY <1>18, Served
  <2>2. Of(i) \in Int /\ Of(i) >= n - Size(p)'
    BY <1>8, <1>n, <1>w, <2>1
  <2>3. Val(p, X, Of(i))' = Val(p, X, Of(i))
    BY <1>1, <1>6, <1>9, <2>1
  <2>4. Role(u) = "entry" => Finds(u, p, i, n, X)'
    <3> SUFFICES ASSUME Role(u) = "entry" PROVE Finds(u, p, i, n, X)'
      OBVIOUS
    <3>1. Finds(u, p, i, n, X)
      BY <1>18, <1>b DEF ElementsInv, ActorsInv, Reader
    <3>2. tailIndex[p] # Base(n)
      BY <1>1, <1>c
    <3>3. \A k \in Of(i) .. n : k \in Int /\ k <= n
      BY <1>n, <2>2
    <3>4. \A k \in Of(i) .. n :
           Key(p, X, k) = Base(k) /\ (k = n => Val(p, X, n) = 0 /\ tailIndex[p] = Base(n)) =>
             /\ k <= n /\ Key(p, X, k)' = Base(k)
             /\ k = n => Val(p, X, n)' = 0 /\ tailIndex'[p] = Base(n)
      BY <1>8, <3>2, <3>3
    <3>5. ql'[u] = ql[u] /\ blockIndex'[p][ql[u].header].slots = blockIndex[p][ql[u].header].slots
      BY <1>0
    <3> QED
      BY <1>n, <2>2, <3>1, <3>4, <3>5, FindsAgain
  <2> QED
    BY <2>2, <2>3, <2>4
<1>19. headIndex'[p] = headIndex[p]
  BY <1>0
<1> QED
  BY <1>1, <1>5, <1>19, <1>11, <1>12, <1>13, <1>14, <1>15, <1>16, <1>17, <1>18, WriterElements

-----------------------------------------------------------------------------
\* A thread claims the index j, or looks for the block of the index j it has claimed.
Seeks(t, p, j) ==
  /\ ql'[t].index = j
  /\ \/ Role(t) \in Untaken /\ ql[t].index = j /\ headIndex'[p] = headIndex[p]
     \/ Role(t) = "none" /\ j = headIndex[p] /\ headIndex'[p] = headIndex[p] + 1

\* A dequeue claims an index or gets nearer to its entry.
LEMMA SeekElements ==
  ASSUME NEW t, NEW p, NEW n, NEW X, NEW D, Working(t, p, n, X, D),
         UNCHANGED <<elements, dequeuedIn, tailIndex, tailBlock, entries, blockIndex>>,
         Role(t)' \in Untaken, NEW j, Seeks(t, p, j),
         Role(t)' = "entry" => Finds(t, p, j, n, X)',
         Role(t)' = "take" => ql'[t].entry = X[Of(j)]
  PROVE  ElementsInv(p, n, X, D)'
<1>1. /\ t \in Threads /\ p = ql[t].p /\ ql'[t].p = p
      /\ headIndex[p] \in Nat /\ headIndex'[p] \in Nat
  BY WorkingIs
<1>b. ElementsInv(p, n, X, D)
  BY DEF Working
<1>2. /\ Untaken \subseteq Reading /\ "none" \notin Reading /\ "none" \notin Writing
      /\ \A r \in Reading : r \notin Writing /\ r # "release" /\ r # "none"
      /\ \A r \in Untaken : r # "setempty"
  BY DEF Untaken, Reading, Writing, Filling
<1>3. Role(t) \notin Writing /\ Role(t)' \notin Writing /\ Role(t) # "release"
        /\ Role(t)' # "release"
      /\ (Role(t) \in Reading => Role(t) \in Untaken)
  BY <1>2 DEF Seeks
<1>4. /\ \A i : Reads(t, p, i)' <=> i = j
      /\ \A i : Awaits(t, p, i)' <=> i = j
      /\ \A k : ~ Releases(t, p, k) /\ ~ Releases(t, p, k)'
      /\ \A i : Reads(t, p, i) => i = j
      /\ Role(t) \in Untaken => Reads(t, p, j) /\ Awaits(t, p, j)
  BY <1>1, <1>2, <1>3 DEF Reads, Awaits, Releases, Seeks
<1>o. \A u \in Threads : u # t =>
           /\ \A i : Reads(u, p, i)' <=> Reads(u, p, i)
           /\ \A i : Awaits(u, p, i)' <=> Awaits(u, p, i)
           /\ \A k : Releases(u, p, k)' <=> Releases(u, p, k)
  BY OthersDo
<1>5. \A u \in Threads : \A i : Reads(u, p, i) => i \in 0 .. headIndex[p] - 1 /\ i \notin D
  BY <1>b DEF ElementsInv, ActorsInv, Reader, Reads
<1>6. D \subseteq 0 .. headIndex[p] - 1
  BY <1>b DEF ElementsInv, DoneInv
<1>7. /\ j \in 0 .. headIndex'[p] - 1 /\ j \notin D /\ headIndex[p] <= headIndex'[p]
      /\ \A u \in Threads : u # t => ~ Reads(u, p, j)
  <2>1. CASE Role(t) \in Untaken /\ ql[t].index = j /\ headIndex'[p] = headIndex[p]
    <3>1. Reader(t, p, j, n, X, D) /\ Role(t) \in Reading
      BY <1>1, <1>2, <1>b, <2>1 DEF ElementsInv, ActorsInv
    <3> QED
      BY <1>1, <2>1, <3>1 DEF Reader
  <2>2. CASE Role(t) = "none" /\ j = headIndex[p] /\ headIndex'[p] = headIndex[p] + 1
    BY <1>1, <1>5, <1>6, <2>2
  <2> QED
    BY <2>1, <2>2 DEF Seeks
<1>8. DoneInv(p, D)'
  <2>1. D \subseteq 0 .. headIndex'[p] - 1
    BY <1>1, <1>6, <1>7
  <2>2. ASSUME NEW i \in 0 .. headIndex'[p] - 1, i \notin D
        PROVE  \E u \in Threads : Reads(u, p, i)'
    <3>1. CASE i = j
      BY <1>1, <1>4, <3>1
    <3>2. CASE i # j
      <4>1. i \in 0 .. headIndex[p] - 1
        BY <1>1, <3>2 DEF Seeks
      <4>2. PICK u \in Threads : Reads(u, p, i)
        BY <1>b, <2>2, <4>1 DEF ElementsInv, DoneInv
      <4>3. u # t
        BY <1>4, <3>2, <4>2
      <4> QED
        BY <1>o, <4>2, <4>3
    <3> QED
      BY <3>1, <3>2
  <2> QED
    BY <2>1, <2>2 DEF DoneInv
<1>9. /\ \A Y, k : Val(p, Y, k)' = Val(p, Y, k) /\ Key(p, Y, k)' = Key(p, Y, k)
      /\ Size(p)' = Size(p) /\ Window(p, n)' = Window(p, n)
  BY PlainIs
<1>10. LiveInv(p, n, X, D)'
  BY <1>9, <1>b DEF ElementsInv, LiveInv
<1>11. FilledInv(p, n, X, D)'
  <2>1. \A k : \A i \in Indices(k) : k \in Int => i \in Int
    BY IndicesAre
  <2>2. ASSUME NEW i \in Int, Wanted(p, i)' PROVE Wanted(p, i)
    <3>1. i < tailIndex[p]
      BY <2>2 DEF Wanted
    <3>2. CASE i >= headIndex'[p]
      <4>1. i >= headIndex[p]
        BY <1>1, <1>7, <3>2
      <4> QED
        BY <3>1, <4>1 DEF Wanted
    <3>3. CASE \E u \in Threads : Awaits(u, p, i)'
      <4>1. PICK u \in Threads : Awaits(u, p, i)'
        BY <3>3
      <4>2. CASE u # t
        BY <1>o, <3>1, <4>1, <4>2 DEF Wanted
      <4>3. CASE u = t
        <5>1. i = j
          BY <1>4, <4>1, <4>3
        <5>2. CASE Role(t) \in Untaken
          BY <1>1, <1>4, <3>1, <5>1, <5>2 DEF Wanted
        <5>3. CASE Role(t) \notin Untaken
          <6>1. i >= headIndex[p]
            BY <1>1, <5>1, <5>3 DEF Seeks
          <6> QED
            BY <3>1, <6>1 DEF Wanted
        <5> QED
          BY <5>2, <5>3
      <4> QED
        BY <4>2, <4>3
    <3> QED
      BY <2>2, <3>2, <3>3 DEF Wanted
  <2>3. \A u \in Threads : \A k : Releases(u, p, k)' <=> Releases(u, p, k)
    BY <1>4, <1>o
  <2>4. FilledInv(p, n, X, D)
    BY <1>b DEF ElementsInv
  <2>5. \A k \in Int : \A b : Filled(p, k, b, D) => Filled(p, k, b, D)'
    BY <2>1, <2>2, <2>3 DEF Filled
  <2>6. \A k \in Window(p, n) : k \in Int
    BY WindowIs
  <2> QED
    BY <1>9, <2>4, <2>5, <2>6 DEF FilledInv
<1>12. \A i : ql'[t].index = i => Reader(t, p, i, n, X, D)'
  <2>1. Reader(t, p, j, n, X, D)'
    <3>1. \A u \in Threads : u # t => ~ Reads(u, p, j)'
      BY <1>7, <1>o
    <3>2. Role(t)' \notin {"setempty", "release"}
      BY <1>2, <1>3
    <3> QED
      BY <1>7, <3>1, <3>2 DEF Reader
  <2> QED
    BY <2>1 DEF Seeks
<1>13. \A u \in Threads : \A i :
           u # t /\ ql[u].p = p /\ ql[u].index = i =>
             /\ Role(u) \in Reading => i \notin D /\ (Reads(t, p, i)' => Reads(t, p, i))
             /\ Role(u) \in {"setempty", "release"} => Val(p, X, Of(i))' = Val(p, X, Of(i))
             /\ Role(u) = "release" => (Releases(t, p, Of(i))' => Releases(t, p, Of(i)))
  <2> SUFFICES ASSUME NEW u \in Threads, NEW i, u # t, ql[u].p = p, ql[u].index = i,
                      Role(u) \in Reading
               PROVE  i \notin D /\ ~ Reads(t, p, i)'
    BY <1>4, <1>9
  <2>1. Reads(u, p, i)
    BY DEF Reads
  <2> QED
    BY <1>4, <1>5, <1>7, <2>1
<1>14. /\ \A k \in Int : /\ Key(p, X, k)' = Key(p, X, k)
                         /\ Val(p, X, k)' = Val(p, X, k) \/ Val(p, X, k)' = 0
       /\ n > 0 /\ tailIndex[p] < Base(n) => Val(p, X, n - 1)' = Val(p, X, n - 1)
       /\ Size(p)' = Size(p)
  BY <1>9
<1>15. D \subseteq D
  OBVIOUS
<1> QED
  BY <1>3, <1>7, <1>8, <1>10, <1>11, <1>12, <1>13, <1>14, <1>15, ReaderElements

-----------------------------------------------------------------------------

\* The next index is claimed.
LEMMA ClaimElements ==
  ASSUME NEW t, NEW p, NEW n, NEW X, NEW D, Working(t, p, n, X, D), Claim(t)
  PROVE  ElementsInv(p, n, X, D)'
<1>1. /\ \A l : Go(t, l) => pc'[t] = l
      /\ \A w : Remember(t, w) => ql'[t] = w
      /\ p = ql[t].p /\ p \in Producers /\ headIndex[p] \in Nat /\ ProducerTypes
  BY WorkingIs
<1>2. UNCHANGED <<elements, dequeuedIn, tailIndex, tailBlock, entries, blockIndex>>
      /\ pc[t] = "claim"
  BY DEF Claim
<1>3. PICK j : j = headIndex[p]
  OBVIOUS
<1>4. pc'[t] = "lookup" /\ ql'[t] = [NoElement EXCEPT !.p = p, !.index = j]
  BY <1>1, <1>3 DEF Claim
<1>5. ql'[t].index = j
  BY <1>4 DEF NoElement
<1>6. headIndex'[p] = headIndex[p] + 1
  <2>1. DOMAIN headIndex = Producers
    BY <1>1 DEF ProducerTypes, CountersInv
  <2> QED
    BY <1>1, <2>1 DEF Claim
<1>7. Role(t) = "none" /\ Role(t)' = "lookup"
  BY <1>2, <1>4 DEF Role, Getting, AddLabels, Filling, Reading, Untaken
<1>8. Seeks(t, p, j)
  BY <1>3, <1>5, <1>6, <1>7 DEF Seeks
<1> QED
  BY <1>2, <1>7, <1>8, SeekElements DEF Untaken

\* The index is read: the header and its tail.
LEMMA LookupElements ==
  ASSUME NEW t, NEW p, NEW n, NEW X, NEW D, Working(t, p, n, X, D), Lookup(t)
  PROVE  ElementsInv(p, n, X, D)'
<1>1. /\ \A l : Go(t, l) => pc'[t] = l
      /\ \A w : Remember(t, w) => ql'[t] = w
      /\ p = ql[t].p /\ ql[t] \in ElementLocals /\ t \in Threads
  BY WorkingIs
<1>2. /\ UNCHANGED <<elements, dequeuedIn, tailIndex, headIndex, tailBlock, entries, blockIndex>>
      /\ pc[t] = "lookup"
  BY DEF Lookup, producerVars
<1>3. PICK j : j = ql[t].index
  OBVIOUS
<1>4. PICK l, x : l = Len(blockIndex[p]) /\ x = Current(p).tail
  OBVIOUS
<1>5. pc'[t] = "entry" /\ ql'[t] = [ql[t] EXCEPT !.header = l, !.tail = x]
  BY <1>1, <1>4 DEF Lookup
<1>6. ql'[t].index = j /\ ql'[t].header = l /\ ql'[t].tail = x
  BY <1>1, <1>3, <1>5 DEF ElementLocals
<1>7. Role(t) = "lookup" /\ Role(t)' = "entry"
  BY <1>2, <1>5 DEF Role, Getting, AddLabels, Filling, Reading, Untaken
<1>8. Seeks(t, p, j)
  BY <1>2, <1>3, <1>6, <1>7 DEF Seeks, Untaken
<1>9. Finds(t, p, j, n, X)'
  <2>1. PICK m, o, h : m = n - 1 /\ o = Of(j) /\ h = Current(p)
    OBVIOUS
  <2>2. o \in Window(p, n) /\ o >= 0 /\ o < n
    BY <1>1, <1>3, <1>7, <2>1, Served DEF Reading, Untaken
  <2>3. /\ n \in Nat /\ m \in Int /\ o \in Int /\ n > 0 /\ m \in o .. n /\ m # n
    <3>1. n \in Nat /\ o \in Int
      BY <2>2, WindowIs
    <3> QED
      BY <2>1, <2>2, <3>1
  <2>4. x \in Nat
    <3>1. p \in Producers /\ IndexTypes
      BY WorkingIs
    <3>2. Current(p) \in Header(Len(entries[p]))
      BY <3>1, CurrentIs
    <3> QED
      BY <1>4, <3>2 DEF Header
  <2>5. \A k \in Int : X[k] = Slot(h, x + (k - m))
    BY <1>4, <2>1 DEF Working, ElementsInv, IndexInv
  <2>6. X[m] = Slot(h, x) /\ X[o] = Slot(h, x + (o - m))
    <3>1. x + (m - m) = x
      BY <2>3, <2>4
    <3> QED
      BY <2>3, <2>5, <3>1
  <2>7. Key(p, X, m) = Base(m)
    BY <2>1, <2>3 DEF Working, ElementsInv, KeysInv
  <2>8. blockIndex'[p][ql'[t].header] = h /\ ql'[t].tail = x
    BY <1>2, <1>4, <1>6, <2>1 DEF Current
  <2>9. Key(p, X, m)' = Base(m)
    BY <1>2, <2>7 DEF Key
  <2> QED
    BY <2>1, <2>3, <2>6, <2>8, <2>9 DEF Finds
<1> QED
  BY <1>2, <1>7, <1>8, <1>9, SeekElements DEF Untaken

\* The entry of the claimed index is found, also from an old header.
LEMMA EntryElements ==
  ASSUME NEW t, NEW p, NEW n, NEW X, NEW D, Working(t, p, n, X, D), Entry(t)
  PROVE  ElementsInv(p, n, X, D)'
<1>1. /\ \A l : Go(t, l) => pc'[t] = l
      /\ \A w : Remember(t, w) => ql'[t] = w
      /\ p = ql[t].p /\ ql[t] \in ElementLocals /\ t \in Threads
  BY WorkingIs
<1>2. /\ UNCHANGED <<elements, dequeuedIn, tailIndex, headIndex, tailBlock, entries, blockIndex>>
      /\ pc[t] = "entry"
  BY DEF Entry, producerVars
<1>3. PICK j : j = ql[t].index
  OBVIOUS
<1>4. PICK e, h, x : h = blockIndex[p][ql[t].header] /\ x = ql[t].tail /\ e = EntryOf(p, h, x, j)
  OBVIOUS
<1>5. pc'[t] = "take" /\ ql'[t] = [ql[t] EXCEPT !.header = 0, !.tail = 0, !.entry = e]
  BY <1>1, <1>3, <1>4 DEF Entry
<1>6. ql'[t].index = j /\ ql'[t].entry = e
  BY <1>1, <1>3, <1>5 DEF ElementLocals
<1>7. Role(t) = "entry" /\ Role(t)' = "take"
  BY <1>2, <1>5 DEF Role, Getting, AddLabels, Filling, Reading, Untaken
<1>8. Seeks(t, p, j)
  BY <1>2, <1>3, <1>6, <1>7 DEF Seeks, Untaken
<1>9. e = X[Of(j)]
  <2>1. PICK o : o = Of(j)
    OBVIOUS
  <2>2. j \in Nat /\ o \in Window(p, n)
    BY <1>1, <1>3, <1>7, <2>1, Served DEF Reading, Untaken
  <2>3. o \in Int
    BY <2>2, WindowIs
  <2>4. Finds(t, p, j, n, X)
    BY <1>1, <1>3, <1>7 DEF Working, ElementsInv, ActorsInv, Reader
  <2>5. PICK m \in o .. n :
          /\ Slot(h, x) = X[m]
          /\ Key(p, X, m) = Base(m)
          /\ Slot(h, x + (o - m)) = X[o]
    BY <1>4, <2>1, <2>4 DEF Finds
  <2>6. m \in Int
    <3>1. n \in Nat
      BY WindowIs
    <3> QED
      BY <2>3, <3>1
  <2>7. j - (j % BLOCK_SIZE) = Base(o)
    <3>1. PlaceOf(j) = j - Base(Of(j)) /\ j % BLOCK_SIZE = PlaceOf(j)
      BY <2>2, BlockIs
    <3>2. PICK y, b : y = j % BLOCK_SIZE /\ b = Base(o)
      OBVIOUS
    <3>3. b \in Int
      BY <2>3, <3>2, Bases
    <3>4. j - y = b
      BY <2>1, <2>2, <3>1, <3>2, <3>3
    <3> QED
      BY <3>2, <3>4
  <2>8. (Base(o) - Base(m)) \div BLOCK_SIZE = o - m
    <3>1. Base(o - m) = Base(o) - Base(m)
      BY <2>3, <2>6, Bases
    <3>2. o - m \in Int
      BY <2>3, <2>6
    <3>3. Base(o - m) \div BLOCK_SIZE = o - m
      BY <3>2, BlockIs
    <3> QED
      BY <3>1, <3>3
  <2>9. entries[p][Slot(h, x)].key = Base(m)
    BY <2>5 DEF Key
  <2>10. e = Slot(h, x + ((Base(o) - Base(m)) \div BLOCK_SIZE))
    BY <1>4, <2>7, <2>9 DEF EntryOf
  <2> QED
    BY <2>1, <2>5, <2>8, <2>10
<1>10. ql'[t].entry = X[Of(j)]
  BY <1>6, <1>9
<1> QED
  BY <1>2, <1>7, <1>8, <1>10, SeekElements DEF Untaken

-----------------------------------------------------------------------------
\* What a thread knows that has claimed the index i of p.
LEMMA OwnReader ==
  ASSUME NEW t, NEW p, NEW n, NEW X, NEW D, Working(t, p, n, X, D), Role(t) \in Reading, NEW i,
         i = ql[t].index
  PROVE  /\ t \in Threads /\ p = ql[t].p /\ p \in Producers /\ i \in Nat /\ i < headIndex[p]
         /\ headIndex[p] \in Nat /\ tailIndex[p] \in Nat /\ headIndex[p] <= tailIndex[p]
         /\ Reader(t, p, i, n, X, D) /\ i \notin D
         /\ \A u \in Threads : u # t => ~ Reads(u, p, i) /\ ~ Awaits(u, p, i)
         /\ \A u \in Threads : \A j : Reads(u, p, j) => j \in 0 .. headIndex[p] - 1 /\ j \notin D
         /\ \A u \in Threads : \A k : Releases(u, p, k) => k # Of(i) /\ k \in Window(p, n)
              /\ AllDone(D, k)
         /\ D \subseteq 0 .. headIndex[p] - 1
<1>1. /\ t \in Threads /\ p = ql[t].p /\ p \in Producers /\ headIndex[p] \in Nat
      /\ tailIndex[p] \in Nat /\ headIndex[p] <= tailIndex[p] /\ ql[t] \in ElementLocals
  BY WorkingIs
<1>b. ElementsInv(p, n, X, D)
  BY DEF Working
<1>2. Reader(t, p, i, n, X, D)
  BY <1>1, <1>b DEF ElementsInv, ActorsInv
<1>3. /\ i \in 0 .. headIndex[p] - 1 /\ i \notin D
      /\ \A u \in Threads : u # t => ~ Reads(u, p, i)
  BY <1>2 DEF Reader
<1>4. i \in Nat /\ i < headIndex[p]
  BY <1>1, <1>3
<1>5. \A u \in Threads : \A j : Awaits(u, p, j) => Reads(u, p, j)
  BY DEF Awaits, Reads, Reading
<1>6. \A u \in Threads : \A j : Reads(u, p, j) => j \in 0 .. headIndex[p] - 1 /\ j \notin D
  BY <1>b DEF ElementsInv, ActorsInv, Reader, Reads
<1>7. ASSUME NEW u \in Threads, NEW k, Releases(u, p, k)
      PROVE  k # Of(i) /\ k \in Window(p, n) /\ AllDone(D, k)
  <2>1. Role(u) = "release" /\ ql[u].p = p /\ Of(ql[u].index) = k
    BY <1>7 DEF Releases
  <2>2. AllDone(D, k)
    BY <1>b, <2>1 DEF ElementsInv, ActorsInv, Reader
  <2>3. i \in Indices(Of(i))
    <3>1. i \in Int /\ Of(i) \in Int
      BY <1>4, BlockIs
    <3> QED
      BY <3>1, IndicesAre
  <2>4. k # Of(i)
    BY <1>3, <2>2, <2>3 DEF AllDone
  <2>5. k \in Window(p, n)
    <3>1. PICK j : j = ql[u].index
      OBVIOUS
    <3> QED
      BY <2>1, <3>1, Served
  <2> QED
    BY <2>2, <2>4, <2>5
<1>8. D \subseteq 0 .. headIndex[p] - 1
  BY <1>b DEF ElementsInv, DoneInv
<1> QED
  BY <1>1, <1>2, <1>3, <1>4, <1>5, <1>6, <1>7, <1>8

\* The element is moved out of its place.
LEMMA TakeElements ==
  ASSUME NEW t, NEW p, NEW n, NEW X, NEW D, Working(t, p, n, X, D), Take(t)
  PROVE  ElementsInv(p, n, X, D)'
<1>1. /\ \A l : Go(t, l) => pc'[t] = l
      /\ \A w : Remember(t, w) => ql'[t] = w
      /\ ql[t] \in ElementLocals /\ ProducerTypes /\ ql'[t].p = p
  BY WorkingIs
<1>2. /\ UNCHANGED <<dequeuedIn, tailIndex, headIndex, tailBlock, entries, blockIndex>>
      /\ pc[t] = "take"
  BY DEF Take, counters
<1>3. PICK i, o : i = ql[t].index /\ o = Of(i)
  OBVIOUS
<1>4. Role(t) = "take" /\ Role(t) \in Reading
  BY <1>2 DEF Role, Getting, AddLabels, Filling, Reading, Untaken
<1>5. /\ t \in Threads /\ p = ql[t].p /\ p \in Producers /\ i \in Nat /\ i < headIndex[p]
      /\ headIndex[p] \in Nat /\ tailIndex[p] \in Nat /\ headIndex[p] <= tailIndex[p]
      /\ Reader(t, p, i, n, X, D) /\ i \notin D
      /\ \A u \in Threads : u # t => ~ Reads(u, p, i) /\ ~ Awaits(u, p, i)
      /\ \A u \in Threads : \A j : Reads(u, p, j) => j \in 0 .. headIndex[p] - 1 /\ j \notin D
  BY <1>3, <1>4, OwnReader
<1>6. /\ o \in Window(p, n) /\ o >= 0 /\ o < n /\ Val(p, X, o) # 0 /\ i \in Indices(o)
           /\ i < tailIndex[p]
      /\ elements[Val(p, X, o)][PlaceOf(i)] = <<p, i>>
  <2>1. t \in Threads /\ ql[t].p = p /\ i = ql[t].index /\ o = Of(i)
    BY <1>3, <1>5
  <2>2. Role(t) \in Reading \cup {"release"} /\ Role(t) \in Untaken
    BY <1>4 DEF Untaken
  <2>3. o \in Window(p, n) /\ o >= 0 /\ o < n /\ Val(p, X, o) # 0 /\ i \in Indices(o)
          /\ i < tailIndex[p]
    BY <2>1, <2>2, Served
  <2>4. elements[Val(p, X, o)][PlaceOf(i)] = <<p, i>>
    <3>1. Wanted(p, i)
      BY <2>1, <2>2, <2>3 DEF Wanted, Awaits
    <3>2. Filled(p, o, Val(p, X, o), D)
      BY <2>3 DEF Working, ElementsInv, FilledInv
    <3> QED
      BY <2>3, <3>1, <3>2 DEF Filled
  <2> QED
    BY <2>2, <2>3, <2>4
<1>7. o \in Int /\ Val(p, X, o) \in Addresses
  <2>1. o \in Int
    BY <1>6, WindowIs
  <2> QED
    BY <2>1, WindowIs
<1>8. PICK b, k : b = Val(p, X, o) /\ k = PlaceOf(i)
  OBVIOUS
<1>9. k \in 0 .. BLOCK_SIZE - 1 /\ k = i - Base(o) /\ Base(o) \in Int /\ b \in Addresses /\ b # 0
  BY <1>6, <1>7, <1>8, IndicesAre
<1>10. b = entries[p][ql[t].entry].value /\ ql[t].entry = X[o]
  BY <1>3, <1>4, <1>5, <1>8 DEF Reader, Val
<1>11. pc'[t] = "setempty" /\ Written(b, k, <<>>)
       /\ ql'[t] = [ql[t] EXCEPT !.block = b, !.element = elements[b][k]]
  BY <1>1, <1>3, <1>5, <1>8, <1>10 DEF Take, Written
<1>12. ql'[t].index = i /\ ql'[t].entry = X[o] /\ ql'[t].block = b /\ ql'[t].element = <<p, i>>
  BY <1>1, <1>3, <1>6, <1>8, <1>10, <1>11 DEF ElementLocals
<1>13. \A c \in Addresses : \A j \in 0 .. BLOCK_SIZE - 1 :
              c # b \/ j # k => elements'[c][j] = elements[c][j]
  BY <1>1, <1>9, <1>11, ElementWritten
<1>14. Role(t)' = "setempty"
  BY <1>11 DEF Role, Getting, AddLabels, Filling, Reading, Untaken
<1>15. Role(t) \notin Writing /\ Role(t)' \notin Writing /\ Role(t)' \in Reading
         /\ Role(t)' \notin Untaken
  BY <1>4, <1>14 DEF Writing, Filling, Reading, Untaken
<1>b. ElementsInv(p, n, X, D)
  BY DEF Working
<1>16. /\ \A j : Reads(t, p, j)' <=> j = i
       /\ \A j : Reads(t, p, j) <=> j = i
       /\ \A j : ~ Awaits(t, p, j)'
       /\ \A m : ~ Releases(t, p, m) /\ ~ Releases(t, p, m)'
  BY <1>1, <1>3, <1>4, <1>5, <1>12, <1>14, <1>15 DEF Reads, Awaits, Releases
<1>o. \A u \in Threads : u # t =>
           /\ \A j : Reads(u, p, j)' <=> Reads(u, p, j)
           /\ \A j : Awaits(u, p, j)' <=> Awaits(u, p, j)
           /\ \A m : Releases(u, p, m)' <=> Releases(u, p, m)
  BY OthersDo
<1>17. /\ \A Y, m : Val(p, Y, m)' = Val(p, Y, m) /\ Key(p, Y, m)' = Key(p, Y, m)
       /\ Size(p)' = Size(p) /\ Window(p, n)' = Window(p, n)
  BY <1>2, PlainIs
<1>18. DoneInv(p, D)'
  <2>1. \A u \in Threads : \A j : Reads(u, p, j)' <=> Reads(u, p, j)
    BY <1>16, <1>o
  <2> QED
    BY <1>2, <1>b, <2>1 DEF ElementsInv, DoneInv
<1>19. LiveInv(p, n, X, D)'
  BY <1>2, <1>17, <1>b DEF ElementsInv, LiveInv
<1>20. \A j \in Int : Wanted(p, j)' => Wanted(p, j) /\ j # i
  <2> SUFFICES ASSUME NEW j \in Int, Wanted(p, j)' PROVE Wanted(p, j) /\ j # i
    OBVIOUS
  <2>1. j < tailIndex[p] /\ (j >= headIndex[p] \/ \E u \in Threads : Awaits(u, p, j)')
    BY <1>2 DEF Wanted
  <2>2. CASE j >= headIndex[p]
    BY <1>5, <2>1, <2>2 DEF Wanted
  <2>3. CASE \E u \in Threads : Awaits(u, p, j)'
    <3>1. PICK u \in Threads : Awaits(u, p, j)'
      BY <2>3
    <3>2. u # t
      BY <1>16, <3>1
    <3>3. Awaits(u, p, j) /\ j # i
      BY <1>5, <1>o, <3>1, <3>2
    <3> QED
      BY <2>1, <3>3 DEF Wanted
  <2> QED
    BY <2>1, <2>2, <2>3
<1>21. FilledInv(p, n, X, D)'
  <2> SUFFICES ASSUME NEW m \in Window(p, n), Val(p, X, m) # 0
               PROVE  Filled(p, m, Val(p, X, m), D)'
    BY <1>17 DEF FilledInv
  <2>1. PICK c : c = Val(p, X, m)
    OBVIOUS
  <2>2. Filled(p, m, c, D) /\ c \in Addresses /\ m \in Int
    <3>1. m \in Int
      BY WindowIs
    <3>2. Val(p, X, m) \in Addresses
      BY <3>1, WindowIs
    <3> QED
      BY <1>b, <2>1, <3>1, <3>2 DEF ElementsInv, FilledInv
  <2>3. ASSUME NEW j \in Indices(m), Wanted(p, j)' PROVE elements'[c][PlaceOf(j)] = <<p, j>>
    <3>1. PlaceOf(j) \in 0 .. BLOCK_SIZE - 1 /\ j \in Int /\ PlaceOf(j) = j - Base(m)
      BY <2>2, IndicesAre
    <3>2. Wanted(p, j) /\ j # i
      BY <1>20, <2>3, <3>1
    <3>3. elements[c][PlaceOf(j)] = <<p, j>>
      BY <2>2, <3>2 DEF Filled
    <3>4. c # b \/ PlaceOf(j) # k
      <4> SUFFICES ASSUME c = b PROVE PlaceOf(j) # k
        OBVIOUS
      <4>1. m = o
        <5>1. \A x \in Window(p, n) : Val(p, X, x) # 0 /\ Val(p, X, x) = Val(p, X, m) => x = m
          BY WindowIs
        <5> QED
          BY <1>6, <1>8, <2>1, <5>1
      <4> QED
        BY <1>5, <1>9, <3>1, <3>2, <4>1
    <3> QED
      BY <1>13, <2>2, <3>1, <3>3, <3>4
  <2>4. \A u \in Threads : \A x : Releases(u, p, x)' <=> Releases(u, p, x)
    BY <1>16, <1>o
  <2>5. Filled(p, m, c, D)'
    BY <1>2, <2>2, <2>3, <2>4 DEF Filled
  <2> QED
    BY <1>17, <2>1, <2>5
<1>22. \A j : ql'[t].index = j => Reader(t, p, j, n, X, D)'
  <2>1. Reader(t, p, i, n, X, D)'
    <3>1. \A u \in Threads : u # t => ~ Reads(u, p, i)'
      BY <1>5, <1>o
    <3>2. i \in 0 .. headIndex'[p] - 1
      BY <1>2, <1>5
    <3>3. ql'[t].block = Val(p, X, Of(i))' /\ ql'[t].entry = X[Of(i)] /\ ql'[t].element = <<p, i>>
      BY <1>3, <1>8, <1>12, <1>17
    <3> QED
      BY <1>5, <1>14, <3>1, <3>2, <3>3 DEF Reader
  <2> QED
    BY <1>12, <2>1
<1>23. \A u \in Threads : \A j :
           u # t /\ ql[u].p = p /\ ql[u].index = j =>
             /\ Role(u) \in Reading => j \notin D /\ (Reads(t, p, j)' => Reads(t, p, j))
             /\ Role(u) \in {"setempty", "release"} => Val(p, X, Of(j))' = Val(p, X, Of(j))
             /\ Role(u) = "release" => (Releases(t, p, Of(j))' => Releases(t, p, Of(j)))
  <2>1. \A u \in Threads : \A j : ql[u].p = p /\ ql[u].index = j /\ Role(u) \in Reading
          => j \notin D
    BY <1>5 DEF Reads
  <2> QED
    BY <1>16, <1>17, <2>1
<1>24. /\ \A m \in Int : /\ Key(p, X, m)' = Key(p, X, m)
                         /\ Val(p, X, m)' = Val(p, X, m) \/ Val(p, X, m)' = 0
       /\ n > 0 /\ tailIndex[p] < Base(n) => Val(p, X, n - 1)' = Val(p, X, n - 1)
       /\ Size(p)' = Size(p)
  BY <1>17
<1>25. n > 0 /\ Base(n - 1) <= tailIndex[p] /\ tailIndex[p] < Base(n)
           /\ tailBlock[p] = Val(p, X, n - 1) /\ Val(p, X, n - 1) # 0
           /\ elements[tailBlock[p]][PlaceOf(tailIndex[p])] = <<p, tailIndex[p]>> =>
                elements'[tailBlock[p]][PlaceOf(tailIndex[p])] = <<p, tailIndex[p]>>
  <2> SUFFICES ASSUME n > 0, tailIndex[p] < Base(n), tailBlock[p] = Val(p, X, n - 1),
                      Val(p, X, n - 1) # 0,
                      elements[tailBlock[p]][PlaceOf(tailIndex[p])] = <<p, tailIndex[p]>>
               PROVE  elements'[tailBlock[p]][PlaceOf(tailIndex[p])] = <<p, tailIndex[p]>>
    OBVIOUS
  <2>1. PICK m, x : m = n - 1 /\ x = tailIndex[p]
    OBVIOUS
  <2>2. m \in Window(p, n) /\ x \in Indices(m) /\ x \in Nat
    BY <2>1, TailIs
  <2>3. m \in Int /\ Val(p, X, m) \in Addresses
    <3>1. m \in Int
      BY <2>2, WindowIs
    <3> QED
      BY <3>1, WindowIs
  <2>4. PlaceOf(x) \in 0 .. BLOCK_SIZE - 1 /\ PlaceOf(x) = x - Base(m)
    BY <2>2, <2>3, IndicesAre
  <2>5. Val(p, X, m) # b \/ PlaceOf(x) # k
    <3> SUFFICES ASSUME Val(p, X, m) = b PROVE PlaceOf(x) # k
      OBVIOUS
    <3>1. m = o
      <4>1. \A y \in Window(p, n) : Val(p, X, y) # 0 /\ Val(p, X, y) = Val(p, X, m) => y = m
        BY <2>2, WindowIs
      <4> QED
        BY <1>6, <1>8, <4>1
    <3> QED
      BY <1>5, <1>6, <1>9, <2>1, <2>2, <2>4, <3>1
  <2> QED
    BY <1>13, <2>1, <2>3, <2>4, <2>5
<1>26. D \subseteq D /\ headIndex[p] <= headIndex'[p]
  BY <1>2, <1>5
<1> QED
  BY <1>2, <1>15, <1>18, <1>19, <1>21, <1>22, <1>23, <1>24, <1>25, <1>26, ReaderElements

-----------------------------------------------------------------------------
\* One more element of block o has been dequeued.
LEMMA DoneAdded ==
  ASSUME NEW D, NEW o \in Int, NEW i \in Indices(o), i \notin D, NEW D1, D1 = D \cup {i}
  PROVE  /\ Cardinality(DoneIn(D, o)) \in Nat
         /\ Cardinality(DoneIn(D1, o)) = Cardinality(DoneIn(D, o)) + 1
         /\ AllDone(D1, o) <=> Cardinality(DoneIn(D, o)) = BLOCK_SIZE - 1
         /\ \A k \in Int : k # o => DoneIn(D1, k) = DoneIn(D, k) /\ (AllDone(D1, k)
              <=> AllDone(D, k))
<1>1. PICK S, T, T1 : S = Indices(o) /\ T = DoneIn(D, o) /\ T1 = DoneIn(D1, o)
  OBVIOUS
<1>2. IsFiniteSet(S) /\ Cardinality(S) = BLOCK_SIZE /\ BLOCK_SIZE \in Nat /\ i \in Int
  BY <1>1, IndicesAre, ProducerAssumption
<1>3. T \in SUBSET S /\ T1 \in SUBSET S /\ T1 = T \cup {i} /\ i \notin T
  BY <1>1 DEF DoneIn
<1>4. IsFiniteSet(T) /\ IsFiniteSet(T1)
  BY <1>2, <1>3, FS_Subset
<1>5. Cardinality(T) \in Nat /\ Cardinality(T1) \in Nat
  BY <1>4, FS_CardinalityType
<1>6. Cardinality(T1) = Cardinality(T) + 1
  <2>1. Cardinality(T \cup {i}) = IF i \in T THEN Cardinality(T) ELSE Cardinality(T) + 1
    BY <1>4, FS_AddElement
  <2> QED
    BY <1>3, <2>1
<1>7. Cardinality(S) = Cardinality(T1) => S = T1
  BY <1>2, <1>3, FS_Subset
<1>8. AllDone(D1, o) <=> S = T1
  BY <1>1 DEF AllDone, DoneIn
<1>9. AllDone(D1, o) <=> Cardinality(T) = BLOCK_SIZE - 1
  <2>1. PICK c, d : c = Cardinality(T) /\ d = Cardinality(T1)
    OBVIOUS
  <2>2. S = T1 <=> d = BLOCK_SIZE
    BY <1>2, <1>7, <2>1
  <2> QED
    BY <1>2, <1>5, <1>6, <1>8, <2>1, <2>2
<1>10. ASSUME NEW k \in Int, k # o
       PROVE  DoneIn(D1, k) = DoneIn(D, k) /\ (AllDone(D1, k) <=> AllDone(D, k))
  <2>1. i \notin Indices(k)
    <3>1. Of(i) = o
      BY <1>2, IndicesAre
    <3> QED
      BY <1>2, <1>10, <3>1, IndicesAre
  <2> QED
    BY <2>1 DEF DoneIn, AllDone
<1> QED
  BY <1>1, <1>5, <1>6, <1>9, <1>10

\* The element is counted, and who counts the last one gives the block back.
LEMMA SetEmptyElements ==
  ASSUME NEW t, NEW p, NEW n, NEW X, NEW D, Working(t, p, n, X, D), SetEmpty(t)
  PROVE  ElementsInv(p, n, X, D \cup {ql[t].index})'
<1>1. /\ \A l : Go(t, l) => pc'[t] = l
      /\ ql[t] \in ElementLocals /\ ProducerTypes /\ ql'[t].p = p
  BY WorkingIs
<1>2. /\ UNCHANGED <<elements, tailIndex, headIndex, tailBlock, entries, blockIndex, ql>>
      /\ pc[t] = "setempty"
  BY DEF SetEmpty, counters
<1>3. PICK i, o, b : i = ql[t].index /\ o = Of(i) /\ b = ql[t].block
  OBVIOUS
<1>4. Role(t) = "setempty" /\ Role(t) \in Reading
  BY <1>2 DEF Role, Getting, AddLabels, Filling, Reading, Untaken
<1>5. /\ t \in Threads /\ p = ql[t].p /\ p \in Producers /\ i \in Nat /\ i < headIndex[p]
      /\ headIndex[p] \in Nat /\ tailIndex[p] \in Nat /\ headIndex[p] <= tailIndex[p]
      /\ Reader(t, p, i, n, X, D) /\ i \notin D
      /\ \A u \in Threads : u # t => ~ Reads(u, p, i)
      /\ \A u \in Threads : \A j : Reads(u, p, j) => j \in 0 .. headIndex[p] - 1 /\ j \notin D
      /\ D \subseteq 0 .. headIndex[p] - 1
  BY <1>3, <1>4, OwnReader
<1>r. \A u \in Threads : \A k : Releases(u, p, k) => k # o /\ AllDone(D, k)
  BY <1>3, <1>4, OwnReader
<1>6. o \in Window(p, n) /\ o >= 0 /\ o < n /\ n - Size(p) <= o /\ Val(p, X, o) # 0
        /\ i \in Indices(o)
  <2>1. t \in Threads /\ ql[t].p = p /\ i = ql[t].index /\ o = Of(i)
    BY <1>3, <1>5
  <2>2. Role(t) \in Reading \cup {"release"}
    BY <1>4
  <2> QED
    BY <2>1, <2>2, Served
<1>7. o \in Int /\ n \in Nat /\ Size(p) \in Nat
  BY <1>6, WindowIs
<1>8. b = Val(p, X, o) /\ ql[t].entry = X[o] /\ b \in Addresses
  <2>1. b = Val(p, X, o) /\ ql[t].entry = X[o]
    BY <1>3, <1>4, <1>5 DEF Reader
  <2>2. Val(p, X, o) \in Addresses
    BY <1>7, WindowIs
  <2> QED
    BY <2>1, <2>2
<1>9. PICK D1 : D1 = D \cup {i}
  OBVIOUS
<1>10. PICK d : d = Cardinality(DoneIn(D, o))
  OBVIOUS
<1>11. /\ d \in Nat
       /\ Cardinality(DoneIn(D1, o)) = d + 1
       /\ AllDone(D1, o) <=> d = BLOCK_SIZE - 1
       /\ \A k \in Int : k # o => DoneIn(D1, k) = DoneIn(D, k) /\ (AllDone(D1, k) <=> AllDone(D, k))
  BY <1>5, <1>6, <1>7, <1>9, <1>10, DoneAdded
<1>b. ElementsInv(p, n, X, D)
  BY DEF Working
<1>12. dequeuedIn[b] = d
  BY <1>6, <1>8, <1>10, <1>b DEF ElementsInv, FilledInv, Filled
<1>13. /\ dequeuedIn'[b] = d + 1 /\ \A c \in Addresses : c # b => dequeuedIn'[c] = dequeuedIn[c]
       /\ pc'[t] = IF d = BLOCK_SIZE - 1 THEN "release" ELSE "dequeued"
  <2>1. DOMAIN dequeuedIn = Addresses
    BY <1>1 DEF ProducerTypes
  <2>2. dequeuedIn' = [dequeuedIn EXCEPT ![b] = @ + 1]
    BY <1>3 DEF SetEmpty
  <2>3. pc'[t] = IF dequeuedIn[b] = BLOCK_SIZE - 1 THEN "release" ELSE "dequeued"
    BY <1>1, <1>3 DEF SetEmpty
  <2> QED
    BY <1>8, <1>12, <2>1, <2>2, <2>3
<1>14. Role(t)' = IF d = BLOCK_SIZE - 1 THEN "release" ELSE "none"
  BY <1>13 DEF Role, Getting, AddLabels, Filling, Reading, Untaken
<1>15. Role(t) \notin Writing /\ Role(t)' \notin Writing /\ Role(t)' \notin Reading
       /\ Role(t) \notin Untaken /\ Role(t)' \notin Untaken
  BY <1>4, <1>14 DEF Writing, Filling, Reading, Untaken
<1>16. /\ \A j : ~ Reads(t, p, j)'
       /\ \A j : Reads(t, p, j) <=> j = i
       /\ \A j : ~ Awaits(t, p, j) /\ ~ Awaits(t, p, j)'
       /\ \A m : ~ Releases(t, p, m)
       /\ \A m : Releases(t, p, m)' <=> d = BLOCK_SIZE - 1 /\ m = o
  BY <1>1, <1>2, <1>3, <1>4, <1>5, <1>14, <1>15 DEF Reads, Awaits, Releases
<1>o. \A u \in Threads : u # t =>
           /\ \A j : Reads(u, p, j)' <=> Reads(u, p, j)
           /\ \A j : Awaits(u, p, j)' <=> Awaits(u, p, j)
           /\ \A m : Releases(u, p, m)' <=> Releases(u, p, m)
  BY OthersDo
<1>17. /\ \A Y, m : Val(p, Y, m)' = Val(p, Y, m) /\ Key(p, Y, m)' = Key(p, Y, m)
       /\ Size(p)' = Size(p) /\ Window(p, n)' = Window(p, n)
  BY <1>2, PlainIs
<1>18. DoneInv(p, D1)'
  <2>1. D1 \subseteq 0 .. headIndex'[p] - 1
    BY <1>2, <1>5, <1>9
  <2>2. ASSUME NEW j \in 0 .. headIndex[p] - 1, j \notin D1 PROVE \E u \in Threads : Reads(u, p, j)'
    <3>1. PICK u \in Threads : Reads(u, p, j)
      BY <1>9, <1>b, <2>2 DEF ElementsInv, DoneInv
    <3>2. u # t
      BY <1>9, <1>16, <2>2, <3>1
    <3> QED
      BY <1>o, <3>1, <3>2
  <2> QED
    BY <1>2, <2>1, <2>2 DEF DoneInv
<1>19. LiveInv(p, n, X, D1)'
  <2>1. \A k : AllDone(D, k) => AllDone(D1, k)
    BY <1>9 DEF AllDone
  <2> QED
    BY <1>2, <1>17, <1>b, <2>1 DEF ElementsInv, LiveInv
<1>20. FilledInv(p, n, X, D1)'
  <2> SUFFICES ASSUME NEW m \in Window(p, n), Val(p, X, m) # 0
               PROVE  Filled(p, m, Val(p, X, m), D1)'
    BY <1>17 DEF FilledInv
  <2>1. PICK c : c = Val(p, X, m)
    OBVIOUS
  <2>2. Filled(p, m, c, D) /\ c \in Addresses /\ m \in Int
    <3>1. m \in Int
      BY WindowIs
    <3>2. Val(p, X, m) \in Addresses
      BY <3>1, WindowIs
    <3> QED
      BY <1>b, <2>1, <3>1, <3>2 DEF ElementsInv, FilledInv
  <2>3. \A u \in Threads : \A j : Awaits(u, p, j)' <=> Awaits(u, p, j)
    BY <1>16, <1>o
  <2>4. \A j \in Indices(m) : Wanted(p, j)' => elements'[c][PlaceOf(j)] = <<p, j>>
    BY <1>2, <2>2, <2>3 DEF Wanted, Filled
  <2>5. CASE m = o
    <3>1. c = b
      BY <1>8, <2>1, <2>5
    <3>2. dequeuedIn'[c] = Cardinality(DoneIn(D1, m))
      BY <1>11, <1>13, <2>5, <3>1
    <3>3. AllDone(D1, m) => \E u \in Threads : Releases(u, p, m)'
      BY <1>5, <1>11, <1>16, <2>5
    <3>4. Filled(p, m, c, D1)'
      BY <2>4, <3>2, <3>3 DEF Filled
    <3> QED
      BY <1>17, <2>1, <3>4
  <2>6. CASE m # o
    <3>1. c # b
      <4>1. \A y \in Window(p, n) : Val(p, X, y) # 0 /\ Val(p, X, y) = Val(p, X, m) => y = m
        BY WindowIs
      <4> QED
        BY <1>6, <1>8, <2>1, <2>6, <4>1
    <3>2. dequeuedIn'[c] = Cardinality(DoneIn(D1, m))
      <4>1. DoneIn(D1, m) = DoneIn(D, m)
        BY <1>11, <2>2, <2>6
      <4> QED
        BY <1>13, <2>2, <3>1, <4>1 DEF Filled
    <3>3. AllDone(D1, m) => \E u \in Threads : Releases(u, p, m)'
      <4> SUFFICES ASSUME AllDone(D1, m) PROVE \E u \in Threads : Releases(u, p, m)'
        OBVIOUS
      <4>1. AllDone(D, m)
        BY <1>11, <2>2, <2>6
      <4>2. PICK u \in Threads : Releases(u, p, m)
        BY <2>2, <4>1 DEF Filled
      <4>3. u # t
        BY <1>16, <4>2
      <4> QED
        BY <1>o, <4>2, <4>3
    <3>4. Filled(p, m, c, D1)'
      BY <2>4, <3>2, <3>3 DEF Filled
    <3> QED
      BY <1>17, <2>1, <3>4
  <2> QED
    BY <2>5, <2>6
<1>21. \A j : ql'[t].index = j => Reader(t, p, j, n, X, D1)'
  <2>1. ql'[t].index = i
    BY <1>2, <1>3
  <2>2. Reader(t, p, i, n, X, D1)'
    <3>1. CASE d = BLOCK_SIZE - 1
      <4>1. AllDone(D1, o) /\ i \in D1 /\ Role(t)' = "release"
        BY <1>9, <1>11, <1>14, <3>1
      <4>2. \A u \in Threads : u # t => ~ Releases(u, p, o)'
        BY <1>r, <1>o
      <4>3. o >= n - Size(p)'
        BY <1>6, <1>7, <1>17
      <4>4. ql'[t].entry = X[o] /\ ql'[t].block = Val(p, X, o)' /\ ql'[t].block # 0
        BY <1>2, <1>3, <1>6, <1>8, <1>17
      <4>5. Role(t)' \notin Reading /\ Role(t)' # "entry" /\ Role(t)' # "setempty"
        BY <1>15, <4>1
      <4> QED
        BY <1>3, <4>1, <4>2, <4>3, <4>4, <4>5 DEF Reader
    <3>2. CASE d # BLOCK_SIZE - 1
      <4>1. Role(t)' = "none"
        BY <1>14, <3>2
      <4> QED
        BY <4>1 DEF Reader, Reading, Untaken
    <3> QED
      BY <3>1, <3>2
  <2> QED
    BY <2>1, <2>2
<1>23. \A u \in Threads : \A j :
           u # t /\ ql[u].p = p /\ ql[u].index = j =>
             /\ Role(u) \in Reading => j \notin D1 /\ (Reads(t, p, j)' => Reads(t, p, j))
             /\ Role(u) \in {"setempty", "release"} => Val(p, X, Of(j))' = Val(p, X, Of(j))
             /\ Role(u) = "release" => (Releases(t, p, Of(j))' => Releases(t, p, Of(j)))
  <2> SUFFICES ASSUME NEW u \in Threads, NEW j, u # t, ql[u].p = p, ql[u].index = j
               PROVE  /\ Role(u) \in Reading => j \notin D1
                      /\ Role(u) = "release" => Of(j) # o
    BY <1>16, <1>17
  <2>1. Role(u) \in Reading => Reads(u, p, j)
    BY DEF Reads
  <2>2. Role(u) = "release" => Releases(u, p, Of(j))
    BY DEF Releases
  <2> QED
    BY <1>5, <1>9, <1>r, <2>1, <2>2
<1>24. /\ \A m \in Int : /\ Key(p, X, m)' = Key(p, X, m)
                         /\ Val(p, X, m)' = Val(p, X, m) \/ Val(p, X, m)' = 0
       /\ n > 0 /\ tailIndex[p] < Base(n) => Val(p, X, n - 1)' = Val(p, X, n - 1)
       /\ Size(p)' = Size(p)
  BY <1>17
<1>25. D \subseteq D1 /\ headIndex[p] <= headIndex'[p]
  BY <1>2, <1>5, <1>9
<1>26. ElementsInv(p, n, X, D1)'
  BY <1>2, <1>15, <1>18, <1>19, <1>20, <1>21, <1>23, <1>24, <1>25, ReaderElements
<1> QED
  BY <1>2, <1>3, <1>9, <1>26

-----------------------------------------------------------------------------
\* The block whose elements have all been dequeued leaves the index.
LEMMA ReleaseElements ==
  ASSUME NEW t, NEW p, NEW n, NEW X, NEW D, Working(t, p, n, X, D), Release(t)
  PROVE  ElementsInv(p, n, X, D)'
<1>1. /\ \A l : Go(t, l) => pc'[t] = l
      /\ \A v : Locals(t, v) => fl'[t] = v
      /\ ql[t] \in ElementLocals /\ ProducerTypes /\ ql'[t].p = p
      /\ t \in Threads /\ p = ql[t].p /\ p \in Producers
      /\ headIndex[p] \in Nat /\ tailIndex[p] \in Nat
  BY WorkingIs
<1>2. /\ UNCHANGED <<elements, dequeuedIn, tailIndex, headIndex, tailBlock, blockIndex, ql>>
      /\ pc[t] = "release"
  BY DEF Release, counters
<1>3. PICK i, o, b : i = ql[t].index /\ o = Of(i) /\ b = ql[t].block
  OBVIOUS
<1>4. Role(t) = "release"
  BY <1>2 DEF Role, Getting, AddLabels, Filling, Reading, Untaken
<1>b. ElementsInv(p, n, X, D)
  BY DEF Working
<1>5. Reader(t, p, i, n, X, D)
  BY <1>1, <1>3, <1>b DEF ElementsInv, ActorsInv
<1>6. /\ AllDone(D, o) /\ ql[t].entry = X[o]
      /\ \A u \in Threads : u # t => ~ Releases(u, p, o)
  BY <1>3, <1>4, <1>5 DEF Reader
<1>7. o \in Window(p, n) /\ n - Size(p) <= o /\ o < n
  <2>1. t \in Threads /\ ql[t].p = p /\ i = ql[t].index /\ o = Of(i)
    BY <1>1, <1>3
  <2>2. Role(t) \in Reading \cup {"release"}
    BY <1>4
  <2> QED
    BY <2>1, <2>2, Served
<1>8. o \in Int /\ n \in Nat /\ Size(p) \in Nat
  BY <1>7, WindowIs
<1>9. /\ Size(p)' = Size(p)
      /\ \A k \in Int : Key(p, X, k)' = Key(p, X, k)
      /\ \A k \in Int : Val(p, X, k)' = IF X[k] = X[o] THEN 0 ELSE Val(p, X, k)
  <2>1. \A k \in Int : X[k] \in Entries(p)
    BY WindowIs
  <2>2. SetsValue(p, X[o], 0) /\ X[o] \in Entries(p) /\ 0 \in Addresses
    BY <1>1, <1>6, <1>8, <2>1 DEF Release, SetsValue, Addresses
  <2>3. /\ Size(p)' = Size(p)
        /\ \A f \in Entries(p) : entries'[p][f].key = entries[p][f].key
        /\ \A f \in Entries(p) : entries'[p][f].value = IF f = X[o] THEN 0 ELSE entries[p][f].value
    BY <1>1, <2>2, EntrySet
  <2> QED
    BY <2>1, <2>3 DEF Val, Key
<1>10. \A k \in Window(p, n) : k \in Int /\ Val(p, X, k)' = IF k = o THEN 0 ELSE Val(p, X, k)
  <2>1. \A k \in Window(p, n) : k \in Int
    BY WindowIs
  <2>2. \A k \in Window(p, n) : X[k] = X[o] => k = o
    BY <1>7, WindowIs
  <2> QED
    BY <1>9, <2>1, <2>2
<1>11. Role(t)' = "none"
  <2>1. pc'[t] = "addblock" /\ fl'[t] = [NoBlock EXCEPT !.block = b]
    BY <1>1, <1>3 DEF Release
  <2>2. fl'[t].getting = FALSE
    BY <2>1 DEF NoBlock
  <2> QED
    BY <2>1, <2>2 DEF Role, Getting, AddLabels, Filling, Reading, Untaken
<1>12. /\ Role(t) \notin Writing /\ Role(t)' \notin Writing /\ Role(t) \notin Reading
            /\ Role(t)' \notin Reading
       /\ Role(t) \notin Untaken /\ Role(t)' \notin Untaken
  BY <1>4, <1>11 DEF Writing, Filling, Reading, Untaken
<1>13. /\ \A j : ~ Reads(t, p, j) /\ ~ Reads(t, p, j)'
       /\ \A j : ~ Awaits(t, p, j) /\ ~ Awaits(t, p, j)'
       /\ \A m : Releases(t, p, m) <=> m = o
       /\ \A m : ~ Releases(t, p, m)'
  BY <1>1, <1>3, <1>4, <1>11, <1>12 DEF Reads, Awaits, Releases
<1>o. \A u \in Threads : u # t =>
           /\ \A j : Reads(u, p, j)' <=> Reads(u, p, j)
           /\ \A j : Awaits(u, p, j)' <=> Awaits(u, p, j)
           /\ \A m : Releases(u, p, m)' <=> Releases(u, p, m)
  BY OthersDo
<1>14. \A u \in Threads : /\ \A j : Reads(u, p, j)' <=> Reads(u, p, j)
                          /\ \A j : Awaits(u, p, j)' <=> Awaits(u, p, j)
                          /\ \A m : m # o => (Releases(u, p, m)' <=> Releases(u, p, m))
  BY <1>13, <1>o
<1>15. Window(p, n)' = Window(p, n)
  BY <1>9 DEF Window
<1>18. DoneInv(p, D)'
  BY <1>2, <1>14, <1>b DEF ElementsInv, DoneInv
<1>19. LiveInv(p, n, X, D)'
  <2> SUFFICES ASSUME NEW k \in 0 .. n - 1
               PROVE  \/ k >= n - Size(p) /\ Val(p, X, k)' # 0
                      \/ AllDone(D, k)
                      \/ k = n - 1 /\ tailIndex[p] = Base(k)
    BY <1>2, <1>9 DEF LiveInv
  <2>1. \/ k >= n - Size(p) /\ Val(p, X, k) # 0
        \/ AllDone(D, k)
        \/ k = n - 1 /\ tailIndex[p] = Base(k)
    BY <1>b DEF ElementsInv, LiveInv
  <2>2. k >= n - Size(p) => k \in Window(p, n)
    BY <1>8 DEF Window
  <2> QED
    BY <1>6, <1>10, <2>1, <2>2
<1>20. FilledInv(p, n, X, D)'
  <2> SUFFICES ASSUME NEW m \in Window(p, n), Val(p, X, m)' # 0
               PROVE  Filled(p, m, Val(p, X, m), D)'
    BY <1>15 DEF FilledInv
  <2>1. m # o /\ Val(p, X, m)' = Val(p, X, m) /\ Val(p, X, m) # 0
    BY <1>10
  <2>2. PICK c : c = Val(p, X, m)
    OBVIOUS
  <2>3. Filled(p, m, c, D)
    BY <1>b, <2>1, <2>2 DEF ElementsInv, FilledInv
  <2>4. \A j : Wanted(p, j)' <=> Wanted(p, j)
    BY <1>2, <1>14 DEF Wanted
  <2>5. Filled(p, m, c, D)'
    BY <1>2, <1>14, <2>1, <2>3, <2>4 DEF Filled
  <2> QED
    BY <2>1, <2>2, <2>5
<1>21. \A j : ql'[t].index = j => Reader(t, p, j, n, X, D)'
  BY <1>11, <1>12 DEF Reader, Reading, Untaken
<1>23. \A u \in Threads : \A j :
           u # t /\ ql[u].p = p /\ ql[u].index = j =>
             /\ Role(u) \in Reading => j \notin D /\ (Reads(t, p, j)' => Reads(t, p, j))
             /\ Role(u) \in {"setempty", "release"} => Val(p, X, Of(j))' = Val(p, X, Of(j))
             /\ Role(u) = "release" => (Releases(t, p, Of(j))' => Releases(t, p, Of(j)))
  <2> SUFFICES ASSUME NEW u \in Threads, NEW j, u # t, ql[u].p = p, ql[u].index = j
               PROVE  /\ Role(u) \in Reading => j \notin D
                      /\ Role(u) \in {"setempty", "release"} => Val(p, X, Of(j))' = Val(p, X, Of(j))
    BY <1>13
  <2>1. Role(u) \in Reading => j \notin D
    BY <1>b DEF ElementsInv, ActorsInv, Reader
  <2>2. ASSUME Role(u) \in {"setempty", "release"} PROVE Val(p, X, Of(j))' = Val(p, X, Of(j))
    <3>1. Role(u) \in Reading \cup {"release"} /\ (Role(u) # "release" => Role(u) \in Reading)
      BY <2>2 DEF Reading
    <3>2. PICK k : k = Of(j)
      OBVIOUS
    <3>3. k \in Window(p, n) /\ j \in Indices(k)
      BY <3>1, <3>2, Served
    <3>4. k # o
      <4>1. CASE Role(u) = "release"
        BY <1>6, <3>2, <4>1 DEF Releases
      <4>2. CASE Role(u) # "release"
        BY <1>6, <2>1, <3>1, <3>3, <4>2 DEF AllDone
      <4> QED
        BY <4>1, <4>2
    <3> QED
      BY <1>10, <3>2, <3>3, <3>4
  <2> QED
    BY <2>1, <2>2
<1>24. /\ \A m \in Int : /\ Key(p, X, m)' = Key(p, X, m)
                         /\ Val(p, X, m)' = Val(p, X, m) \/ Val(p, X, m)' = 0
       /\ Size(p)' = Size(p)
  BY <1>9
<1>25. n > 0 /\ tailIndex[p] < Base(n) => Val(p, X, n - 1)' = Val(p, X, n - 1)
  <2> SUFFICES ASSUME n > 0, tailIndex[p] < Base(n) PROVE Val(p, X, n - 1)' = Val(p, X, n - 1)
    OBVIOUS
  <2>1. n - 1 \in Window(p, n)
    BY TailIs
  <2>2. n - 1 # o
    <3>1. Base(o + 1) <= tailIndex[p]
      BY <1>6, <1>8, TailIs
    <3>2. o + 1 # n
      <4>1. Base(n) \in Int
        BY TailIs
      <4> QED
        BY <1>1, <3>1, <4>1
    <3> QED
      BY <1>8, <3>2
  <2> QED
    BY <1>10, <2>1, <2>2
<1>26. D \subseteq D /\ headIndex[p] <= headIndex'[p]
  BY <1>1, <1>2
<1> QED
  BY <1>2, <1>12, <1>18, <1>19, <1>20, <1>21, <1>23, <1>24, <1>25, <1>26, ReaderElements

-----------------------------------------------------------------------------
\* The producer that a thread works on.
LEMMA OwnElements ==
  ASSUME NEW t, NEW p, NEW n, NEW X, NEW D, Working(t, p, n, X, D)
  PROVE  \E n1, X1, D1 : ElementsInv(p, n1, X1, D1)'
<1>1. ASSUME Insert(t) \/ InsertTail(t) \/ GotNoBlock(t) \/ SetEmpty(t)
      PROVE  \E n1, X1, D1 : ElementsInv(p, n1, X1, D1)'
  <2>1. CASE Insert(t)
    BY <2>1, InsertElements
  <2>2. CASE InsertTail(t)
    <3>1. ElementsInv(p, n + 1, X, D)'
      BY <2>2, InsertTailElements
    <3> QED
      BY <3>1
  <2>3. CASE GotNoBlock(t)
    <3>1. ElementsInv(p, n - 1, X, D)'
      BY <2>3, GotNoBlockElements
    <3> QED
      BY <3>1
  <2>4. CASE SetEmpty(t)
    <3>1. PICK D1 : D1 = D \cup {ql[t].index}
      OBVIOUS
    <3>2. ElementsInv(p, n, X, D1)'
      <4>1. ElementsInv(p, n, X, D \cup {ql[t].index})'
        BY <2>4, SetEmptyElements
      <4>2. UNCHANGED ql
        BY <2>4 DEF SetEmpty
      <4> QED
        BY <3>1, <4>1, <4>2
    <3> QED
      BY <3>2
  <2> QED
    BY <1>1, <2>1, <2>2, <2>3, <2>4
<1>2. ASSUME Enqueue(t) \/ GotBlock(t) \/ Construct(t) \/ Publish(t)
             \/ Claim(t) \/ Lookup(t) \/ Entry(t) \/ Take(t) \/ Release(t)
      PROVE  ElementsInv(p, n, X, D)'
  BY <1>2, EnqueueElements, GotBlockElements, ConstructElements, PublishElements, ClaimElements,
     LookupElements, EntryElements, TakeElements, ReleaseElements
<1>3. ASSUME Tries(t) PROVE ElementsInv(p, n, X, D)'
  <2>1. BaseInv /\ t \in Threads /\ ElementsInv(p, n, X, D)
    BY DEF Working
  <2>2. p \in Producers
    BY WorkingIs
  <2> QED
    BY <1>3, <2>1, <2>2, TriesElements
<1>4. Producer(t)
  BY DEF Working
<1> QED
  BY <1>1, <1>2, <1>3, <1>4 DEF Producer, Tries

\* The others.
LEMMA OtherElements ==
  ASSUME NEW t, NEW p, NEW n, NEW X, NEW D, Working(t, p, n, X, D),
         NEW q \in Producers, q # p, NEW m, NEW Y, NEW E, ElementsInv(q, m, Y, E)
  PROVE  ElementsInv(q, m, Y, E)'
<1>1. BaseInv /\ t \in Threads /\ Producer(t) /\ Placed /\ p = ql[t].p /\ p \in Producers
      /\ ProducerTypes
  <2>1. p = ql[t].p /\ p \in Producers /\ ProducerTypes
    BY WorkingIs
  <2> QED
    BY <2>1 DEF Working
<1>2. ASSUME NEW b,
             \A c \in Blocks : c # b => elements'[c] = elements[c]
               /\ dequeuedIn'[c] = dequeuedIn[c],
             \A e \in Entries(q) : entries[q][e].value # 0 => entries[q][e].value # b
      PROVE  ElementsInv(q, m, Y, E)'
  BY <1>1, <1>2, ForeignElements
<1>3. ASSUME NEW e \in Entries(p)
      PROVE  \A f \in Entries(q) : entries[q][f].value # 0
               => entries[q][f].value # entries[p][e].value
  BY <1>1, Apart
<1>4. DOMAIN elements = Addresses /\ DOMAIN dequeuedIn = Addresses /\ Blocks \subseteq Addresses
  BY <1>1 DEF ProducerTypes, Addresses
<1>x. \A k \in Int : X[k] \in Entries(p)
  BY WindowIs
<1>5. CASE Construct(t)
  <2>1. pc[t] \in Filling
    BY <1>5 DEF Construct, Filling
  <2>2. n - 1 \in Window(p, n) /\ tailBlock[p] = Val(p, X, n - 1)
    BY <2>1, FillsLast
  <2>3. X[n - 1] \in Entries(p)
    <3>1. n - 1 \in Int
      BY <2>2, WindowIs
    <3> QED
      BY <1>x, <3>1
  <2>4. PICK b : b = tailBlock[p]
    OBVIOUS
  <2>5. \A f \in Entries(q) : entries[q][f].value # 0 => entries[q][f].value # b
    BY <1>3, <2>2, <2>3, <2>4 DEF Val
  <2>6. \A c \in Blocks : c # b => elements'[c] = elements[c] /\ dequeuedIn'[c] = dequeuedIn[c]
    BY <1>1, <1>4, <1>5, <2>4 DEF Construct
  <2> QED
    BY <1>2, <2>5, <2>6
<1>6. CASE GotBlock(t)
  <2>1. PICK b : b = fl[t].block
    OBVIOUS
  <2>2. \A f \in Entries(q) : entries[q][f].value # 0 => entries[q][f].value # b
    BY <1>1, <1>6, <2>1, Apart DEF GotBlock
  <2>3. \A c \in Blocks : c # b => elements'[c] = elements[c] /\ dequeuedIn'[c] = dequeuedIn[c]
    BY <1>4, <1>6, <2>1 DEF GotBlock, ResetEmpty
  <2> QED
    BY <1>2, <2>2, <2>3
<1>7. CASE Take(t) \/ SetEmpty(t)
  <2>1. Role(t) \in {"take", "setempty"} /\ Role(t) \in Reading
    BY <1>7 DEF Take, SetEmpty, Role, Getting, AddLabels, Filling, Reading, Untaken
  <2>2. PICK i, o : i = ql[t].index /\ o = Of(i)
    OBVIOUS
  <2>3. Reader(t, p, i, n, X, D) /\ i \in Nat
    BY <2>1, <2>2, OwnReader
  <2>4. o \in Int
    BY <2>2, <2>3, BlockIs
  <2>5. ql[t].entry = X[o] /\ X[o] \in Entries(p)
        /\ (Role(t) = "setempty" => ql[t].block = Val(p, X, o))
    BY <1>x, <2>1, <2>2, <2>3, <2>4 DEF Reader
  <2>6. PICK b : b = entries[p][X[o]].value
    OBVIOUS
  <2>7. \A f \in Entries(q) : entries[q][f].value # 0 => entries[q][f].value # b
    BY <1>3, <2>5, <2>6
  <2>8. \A c \in Blocks : c # b => elements'[c] = elements[c] /\ dequeuedIn'[c] = dequeuedIn[c]
    <3>1. CASE Take(t)
      BY <1>1, <1>4, <2>5, <2>6, <3>1 DEF Take
    <3>2. CASE SetEmpty(t)
      <4>1. Role(t) = "setempty"
        BY <3>2 DEF SetEmpty, Role, Getting, AddLabels, Filling, Reading, Untaken
      <4> QED
        BY <1>4, <2>5, <2>6, <3>2, <4>1 DEF SetEmpty, Val
    <3> QED
      BY <1>7, <3>1, <3>2
  <2> QED
    BY <1>2, <2>7, <2>8
<1>8. CASE ~ Construct(t) /\ ~ GotBlock(t) /\ ~ Take(t) /\ ~ SetEmpty(t)
  <2>1. UNCHANGED <<elements, dequeuedIn>>
    BY <1>1, <1>8 DEF Producer, Enqueue, Insert, InsertTail, GotNoBlock, Publish,
       Dequeue, CountIn, Recheck, OverCommit, Claim, Lookup, Entry, Release, counters, producerVars
  <2>2. \A c \in Blocks : c # 0 => elements'[c] = elements[c] /\ dequeuedIn'[c] = dequeuedIn[c]
    BY <2>1
  <2>3. \A f \in Entries(q) : entries[q][f].value # 0 => entries[q][f].value # 0
    OBVIOUS
  <2> QED
    BY <1>2, <2>2, <2>3
<1> QED
  BY <1>5, <1>6, <1>7, <1>8

\* A step of ImplicitProducer.
LEMMA ProducerElements ==
  ASSUME BaseInv, BaseInv', Placed, AtTail, Published, Published', ElementInv,
         NEW t \in Threads, Producer(t)
  PROVE  ElementInv'
<1>1. PICK p : p = ql[t].p
  OBVIOUS
<1>2. p \in Producers
  BY <1>1, ProducerSetting
<1>3. PICK n, X, D : ElementsInv(p, n, X, D)
  BY <1>2 DEF ElementInv
<1>4. Working(t, p, n, X, D)
  BY <1>1, <1>3 DEF Working
<1>5. ASSUME NEW q \in Producers PROVE \E m, Y, E : ElementsInv(q, m, Y, E)'
  <2>1. CASE q = p
    BY <1>4, <2>1, OwnElements
  <2>2. CASE q # p
    <3>1. PICK m, Y, E : ElementsInv(q, m, Y, E)
      BY DEF ElementInv
    <3>2. ElementsInv(q, m, Y, E)'
      BY <1>4, <2>2, <3>1, OtherElements
    <3> QED
      BY <3>2
  <2> QED
    BY <2>1, <2>2
<1> QED
  BY <1>5 DEF ElementInv

-----------------------------------------------------------------------------
\* The threads that fill or clear an entry know it.
LEMMA EntriesKnown ==
  ASSUME BaseInv, ElementInv
  PROVE  EntryInv
<1> SUFFICES ASSUME NEW t \in Threads, pc[t] \in {"gotblock", "release"}
             PROVE  (pc[t] = "gotblock" => Opened(t)) /\ (pc[t] = "release" => Closes(t))
  BY DEF EntryInv
<1>1. PICK p, i : p = ql[t].p /\ i = ql[t].index
  OBVIOUS
<1>2. p \in Producers /\ IndexTypes /\ headIndex[p] \in Nat
  <2>1. Ranged(t) /\ producers \in Nat /\ producers <= MaxProducers
    BY DEF BaseInv, RangeInv
  <2>2. p \in 1 .. producers
    BY <1>1, <2>1 DEF Ranged, ProducerLabels, EnqueueLabels, AddLabels
  <2>3. p \in Producers
    BY <2>1, <2>2, ProducerAssumption DEF Producers
  <2> QED
    BY <2>3 DEF BaseInv, ProducerTypes, CountersInv
<1>3. PICK n, X, D : ElementsInv(p, n, X, D)
  BY <1>2 DEF ElementInv
<1>4. IndexInv(p, n, X) /\ DoneInv(p, D) /\ Writer(t, p, n, X) /\ Reader(t, p, i, n, X, D)
  BY <1>1, <1>3 DEF ElementsInv, ActorsInv
<1>5. n \in Nat /\ \A k \in Int : X[k] \in Entries(p)
  BY <1>2, <1>4, IndexIs DEF Entries, Size
<1>6. CASE pc[t] = "gotblock"
  <2>1. Role(t) = "gets"
    BY <1>6 DEF Role, Getting
  <2>2. ql[t].entry = X[n - 1] /\ Val(p, X, n - 1) = 0
    BY <1>4, <2>1 DEF Writer
  <2>3. n - 1 \in Int
    BY <1>5
  <2> QED
    BY <1>1, <1>5, <1>6, <2>2, <2>3 DEF Opened, Val
<1>7. CASE pc[t] = "release"
  <2>1. Role(t) = "release"
    BY <1>7 DEF Role, Getting, AddLabels
  <2>2. ql[t].entry = X[Of(i)] /\ ql[t].block = Val(p, X, Of(i)) /\ ql[t].block # 0 /\ i \in D
    BY <1>4, <2>1 DEF Reader
  <2>3. i \in Int
    <3>1. i \in 0 .. headIndex[p] - 1
      BY <1>4, <2>2 DEF DoneInv
    <3> QED
      BY <1>2, <3>1
  <2>4. Of(i) \in Int
    BY <2>3, BlockIs
  <2> QED
    BY <1>1, <1>5, <1>7, <2>2, <2>4 DEF Closes, Val
<1> QED
  BY <1>6, <1>7

\* A producer has no blocks at first.
LEMMA ElementsStart ==
  ASSUME Init
  PROVE  ElementInv
<1> SUFFICES ASSUME NEW p \in Producers
             PROVE  \E n, X, D : ElementsInv(p, n, X, D)
  BY DEF ElementInv
<1>1. PICK m, s, x, h : /\ m = IMPLICIT_INITIAL_INDEX_SIZE
                        /\ s = [i \in 1 .. m |-> i]
                        /\ x = [key |-> INVALID_BLOCK_BASE, value |-> 0]
                        /\ h = [tail |-> m - 1, slots |-> s]
  OBVIOUS
<1>2. m \in Nat /\ m >= 2
  BY <1>1, ProducerAssumption
<1>3. entries[p] = [i \in 1 .. m |-> x] /\ Len(entries[p]) = m
        /\ \A i \in 1 .. m : entries[p][i] = x
  <2>1. entries[p] = [i \in 1 .. m |-> x]
    BY <1>1 DEF Init, ProducerInit, NewEntries
  <2> QED
    BY <1>2, <2>1
<1>4. Current(p) = h
  <2>1. blockIndex[p] = <<h>>
    BY <1>1 DEF Init, ProducerInit
  <2> QED
    BY <2>1 DEF Current
<1>5. /\ tailIndex[p] = 0 /\ headIndex[p] = 0
      /\ \A t \in Threads : Role(t) = "none"
  <2>1. tailIndex[p] = 0 /\ headIndex[p] = 0
    BY DEF Init, ProducerInit
  <2>2. \A t \in Threads : pc[t] = "idle"
    BY DEF Init
  <2> QED
    BY <2>1, <2>2 DEF Role, Getting, AddLabels, Filling, Reading, Untaken
<1>6. PICK X : X = [k \in Int |-> Slot(h, h.tail + (k - (0 - 1)))]
  OBVIOUS
<1>7. Size(p) = m /\ h.slots = s /\ Len(s) = m /\ \A i \in 1 .. m : s[i] = i
  BY <1>1, <1>2, <1>3 DEF Size
<1>8. IndexInv(p, 0, X)
  <2>1. \A k \in Int : X[k] = Slot(h, h.tail + (k - (0 - 1)))
    BY <1>6
  <2>2. \A e \in 1 .. m : \E i \in 1 .. m : s[i] = e
    BY <1>7
  <2>3. \A i, j \in 1 .. m : s[i] = s[j] => i = j
    BY <1>7
  <2> QED
    BY <1>2, <1>4, <1>7, <2>1, <2>2, <2>3 DEF IndexInv, Capacity
<1>9. \A k \in Window(p, 0) : Val(p, X, k) = 0
  <2> SUFFICES ASSUME NEW k \in Window(p, 0) PROVE Val(p, X, k) = 0
    OBVIOUS
  <2>1. IndexTypes
    BY BaseStarts DEF BaseInv, ProducerTypes
  <2>2. \A j \in Int : X[j] \in 1 .. Size(p)
    BY <1>8, <2>1, IndexIs
  <2>3. k \in Int
    BY <1>2, <1>7 DEF Window
  <2> QED
    BY <1>1, <1>3, <1>7, <2>2, <2>3 DEF Val
<1>10. /\ KeysInv(p, 0, X) /\ FilledInv(p, 0, X, {}) /\ LastInv(p, 0, X)
       /\ LiveInv(p, 0, X, {})
  <2>1. KeysInv(p, 0, X) /\ FilledInv(p, 0, X, {})
    BY <1>9 DEF KeysInv, FilledInv
  <2>2. LastInv(p, 0, X)
    BY DEF LastInv
  <2>3. LiveInv(p, 0, X, {})
    BY DEF LiveInv
  <2> QED
    BY <2>1, <2>2, <2>3
<1>11. DoneInv(p, {})
  BY <1>5 DEF DoneInv
<1>12. TailInv(p, 0)
  <2>1. 0 \in Int /\ 0 - 1 \in Int /\ (0 - 1) + 1 = 0
    OBVIOUS
  <2>2. Base(0) = 0
    BY Bases
  <2>3. Base(0 - 1) \in Int /\ Base(0) = Base(0 - 1) + BLOCK_SIZE
    <3>1. Base(0 - 1) \in Int /\ Base((0 - 1) + 1) = Base(0 - 1) + BLOCK_SIZE
      BY <2>1, Bases
    <3> QED
      BY <2>1, <3>1
  <2>4. Base(0 - 1) <= 0
    BY <2>2, <2>3, ProducerAssumption
  <2> QED
    BY <1>5, <2>2, <2>4 DEF TailInv
<1>13. ActorsInv(p, 0, X, {})
  BY <1>5 DEF ActorsInv, Writer, Reader, Filling, Reading, Untaken
<1> QED
  BY <1>8, <1>10, <1>11, <1>12, <1>13 DEF ElementsInv

-----------------------------------------------------------------------------
\* What no step depends on leaves the elements alone.
LEMMA ElementsSame ==
  ASSUME BaseInv, ElementInv, UNCHANGED <<pc, fl, ql, producerVars, producers>>
  PROVE  ElementInv'
<1>1. \A u \in Threads : Role(u)' = Role(u) /\ ql'[u] = ql[u]
  BY DEF Role
<1>2. ASSUME NEW p \in Producers, NEW n, NEW X, NEW D, ElementsInv(p, n, X, D)
      PROVE  ElementsInv(p, n, X, D)'
  <2>1. ActsKept(p)
    BY <1>1 DEF ActsKept
  <2>2. IndexTypes /\ producers \in Nat /\ producers' \in Nat /\ producers <= producers'
    BY DEF BaseInv, RangeInv, ProducerTypes
  <2>3. UNCHANGED <<elements, dequeuedIn, tailIndex, headIndex, tailBlock, entries, blockIndex>>
    BY DEF producerVars
  <2> QED
    BY <1>2, <2>1, <2>2, <2>3, ElementsKept
<1> QED
  BY <1>2 DEF ElementInv

\* What no step depends on leaves the blocks alone.
LEMMA PlacedSame ==
  ASSUME Placed, UNCHANGED <<pc, fl, entries, poolVars, poolSize>>
  PROVE  Placed'
<1>1. PICK K, W, P, E, L, n : PlacedAs(K, W, P, E, L, n)
  BY DEF Placed
<1>2. \A t : Ref(t)' = Ref(t) /\ Hand(t)' = Hand(t) /\ Knows(t)' = Knows(t)
  BY DEF Ref, Hand, Knows, Pooled, poolVars
<1>3. HandsInv(K, W)'
  BY <1>1, <1>2 DEF PlacedAs, HandsInv
<1>4. StoredInv(K, P, E)'
  BY <1>1 DEF PlacedAs, StoredInv, Entries
<1>5. CountsInv(K)'
  BY <1>1, <1>2 DEF PlacedAs, CountsInv, Counts, PooledCounts, HeapCounts, Referrers, poolVars
<1>6. ListInv(K, L, n)'
  BY <1>1 DEF PlacedAs, ListInv, poolVars
<1>7. PlacedAs(K, W, P, E, L, n)'
  BY <1>1, <1>2, <1>3, <1>4, <1>5, <1>6 DEF PlacedAs, KnowsInv
<1> QED
  BY <1>7 DEF Placed

\* The blocks and the elements in them, as long as there is a queue.
BlocksInv == (~ destroyed => Placed) /\ ElementInv

\* Every step keeps the blocks and the elements.
LEMMA BlocksNext ==
  ASSUME FewThreads, TicketsSafe, TicketsSafe', Published, Published', BlocksInv, [Next]_vars
  PROVE  BlocksInv'
<1>1. BaseInv /\ BaseInv' /\ AtTail /\ ElementInv /\ EntryInv /\ QueueInv
  BY EntriesKnown DEF TicketsSafe, BlocksInv, BaseInv
<1>3. CASE destroyed
  <2>1. UNCHANGED vars
    BY <1>1, <1>3, DestroyedRests
  <2>2. UNCHANGED <<pc, fl, ql, producerVars, producers, destroyed>>
    BY <2>1 DEF vars, outsidePool, outsideProducer, tableVars
  <2>3. ElementInv'
    BY <1>1, <2>2, ElementsSame
  <2> QED
    BY <1>3, <2>2, <2>3 DEF BlocksInv
<1>4. CASE ~ destroyed /\ Destroy
  <2>1. UNCHANGED <<pc, fl, ql, producerVars, producers>> /\ destroyed'
    BY <1>4 DEF Destroy
  <2>2. ElementInv'
    BY <1>1, <2>1, ElementsSame
  <2> QED
    BY <2>1, <2>2 DEF BlocksInv
<1>5. ASSUME ~ destroyed, NEW t \in Threads, Step(t) PROVE Placed' /\ ElementInv'
  <2>0. Placed
    BY <1>5 DEF BlocksInv
  <2>1. CASE Pool(t)
    <3>1. Placed'
      BY <1>1, <2>0, <2>1, PoolPlaced
    <3>2. ElementInv'
      BY <1>1, <2>1, PoolElements DEF ElementInv
    <3> QED
      BY <3>1, <3>2
  <2>2. CASE Table(t)
    <3>1. Placed'
      BY <1>1, <2>0, <2>2, TablePlaced
    <3>2. ElementInv'
      BY <1>1, <2>2, TableElements DEF ElementInv
    <3> QED
      BY <3>1, <3>2
  <2>3. CASE Producer(t)
    BY <1>1, <2>0, <2>3, ProducerPlaced, ProducerElements
  <2> QED
    BY <1>5, <2>1, <2>2, <2>3 DEF Step
<1>6. CASE ~ destroyed /\ UNCHANGED vars
  <2>2. UNCHANGED <<pc, fl, ql, producerVars, producers, destroyed>>
    BY <1>6 DEF vars, outsidePool, outsideProducer, tableVars
  <2>3. ElementInv'
    BY <1>1, <2>2, ElementsSame
  <2>4. UNCHANGED <<pc, fl, entries, poolVars, poolSize>> /\ Placed
    BY <1>6 DEF BlocksInv, vars, outsidePool, outsideProducer, producerVars, fixed
  <2>5. Placed'
    BY <2>4, PlacedSame
  <2> QED
    BY <2>3, <2>5 DEF BlocksInv
<1>7. ~ destroyed /\ ~ Destroy /\ ~ UNCHANGED vars => \E t \in Threads : Step(t)
  BY DEF Next
<1>8. (Placed' /\ ElementInv') => BlocksInv'
  BY DEF BlocksInv
<1> QED
  BY <1>3, <1>4, <1>5, <1>6, <1>7, <1>8

-----------------------------------------------------------------------------
\* The blocks and the elements in them are where they should be throughout.
LEMMA BlocksAreSafe ==
  ASSUME FewThreads
  PROVE  Spec => [](TicketsSafe /\ BlocksInv)
<1>1. Init => BlocksInv
  BY PlacedStarts, ElementsStart DEF BlocksInv
<1>2. /\ TicketsSafe /\ Published /\ (TicketsSafe /\ Published)' /\ BlocksInv /\ [Next]_vars
      => BlocksInv'
  BY BlocksNext
<1> QED
  BY <1>1, <1>2, TicketsAreSafe, PTL DEF Spec

\* A dequeue gets the element of the index it has claimed: its block has not been given
\* back or reused while an element of it was still wanted, whatever happened to the index
\* and the free list meanwhile (dequeue, set_empty, get_block_index_index_for_index,
\* try_get).
THEOREM ElementIsClaimed ==
  ASSUME FewThreads
  PROVE  Spec => []DequeuesItsElement
<1>1. TicketsSafe /\ BlocksInv => DequeuesItsElement
  <2> SUFFICES ASSUME TicketsSafe, BlocksInv, NEW t \in Threads, pc[t] = "setempty"
               PROVE  ql[t].element = <<ql[t].p, ql[t].index>>
    BY DEF DequeuesItsElement
  <2>1. PICK p, i : p = ql[t].p /\ i = ql[t].index
    OBVIOUS
  <2>2. Ranged(t) /\ producers \in Nat /\ producers <= MaxProducers /\ ElementInv
    BY DEF TicketsSafe, BlocksInv, BaseInv, RangeInv
  <2>3. p \in Producers
    <3>1. p \in 1 .. producers
      BY <2>1, <2>2 DEF Ranged, ProducerLabels
    <3> QED
      BY <2>2, <3>1, ProducerAssumption DEF Producers
  <2>4. PICK n, X, D : ElementsInv(p, n, X, D)
    BY <2>2, <2>3 DEF ElementInv
  <2>5. Reader(t, p, i, n, X, D)
    BY <2>1, <2>4 DEF ElementsInv, ActorsInv
  <2>6. Role(t) = "setempty"
    BY DEF Role, Getting, AddLabels, Filling, Reading, Untaken
  <2> QED
    BY <2>1, <2>5, <2>6 DEF Reader
<1> QED
  BY <1>1, BlocksAreSafe, PTL

-----------------------------------------------------------------------------
\* What OnList walks along.
Walks(f) == f = [k \in 0 .. MaxBlocks |-> IF k = 0 THEN freeListHead
                   ELSE IF f[k - 1] = 0 THEN 0 ELSE freeListNext[f[k - 1]]]

\* OnList is what the walk meets.
LEMMA OnListIs == OnList = {(CHOOSE f : Walks(f))[k] : k \in 0 .. MaxBlocks}
BY DEF OnList, Walks

\* The walk starts at the head and follows the links.
LEMMA WalkStarts ==
  ASSUME NEW f, Walks(f)
  PROVE  /\ f[0] = freeListHead
         /\ \A k \in 1 .. MaxBlocks : f[k] = IF f[k - 1] = 0 THEN 0 ELSE freeListNext[f[k - 1]]
<1>1. MaxBlocks \in Nat
  BY BlocksAssumption
<1>2. f = [k \in 0 .. MaxBlocks |-> IF k = 0 THEN freeListHead
                   ELSE IF f[k - 1] = 0 THEN 0 ELSE freeListNext[f[k - 1]]]
  BY DEF Walks
<1> QED
  BY <1>1, <1>2

\* There is one walk.
LEMMA WalksAgree ==
  ASSUME NEW f, NEW g, Walks(f), Walks(g)
  PROVE  \A k \in 0 .. MaxBlocks : f[k] = g[k]
<1>1. PICK T : T = {k \in 0 .. MaxBlocks : f[k] # g[k]}
  OBVIOUS
<1>2. SUFFICES ASSUME T # {} PROVE FALSE
  BY <1>1
<1>3. MaxBlocks \in Nat /\ T \subseteq Nat
  BY <1>1, BlocksAssumption
<1>4. PICK x \in T : \A y \in T : x <= y
  BY <1>2, <1>3, Least
<1>5. x # 0
  BY <1>1, <1>4, WalkStarts
<1>6. x \in 1 .. MaxBlocks /\ x - 1 \in 0 .. MaxBlocks /\ x - 1 \notin T
  BY <1>1, <1>3, <1>4, <1>5
<1>7. f[x - 1] = g[x - 1]
  BY <1>1, <1>6
<1>8. f[x] = g[x]
  BY <1>6, <1>7, WalkStarts
<1> QED
  BY <1>1, <1>4, <1>8

\* Every block of the list is a different one, so that the walk is long enough.
LEMMA ListIsShort ==
  ASSUME NEW K, NEW L, NEW n, ListInv(K, L, n)
  PROVE  n \in Nat /\ n <= MaxBlocks
<1>1. /\ n \in Nat /\ \A i \in 1 .. n : L[i] \in Blocks
      /\ \A i, j \in 1 .. n : L[i] = L[j] => i = j
  BY DEF ListInv
<1>2. PICK f : f = [i \in 1 .. n |-> L[i]]
  OBVIOUS
<1>3. f \in Injection(1 .. n, Blocks)
  BY <1>1, <1>2 DEF Injection, IsInjective
<1>4. IsFiniteSet(1 .. n) /\ Cardinality(1 .. n) = n
  BY <1>1, FS_Interval
<1>5. IsFiniteSet(Blocks) /\ Cardinality(Blocks) = MaxBlocks
  BY BlocksAssumption, FS_Interval DEF Blocks
<1>6. Cardinality(1 .. n) <= Cardinality(Blocks)
  BY <1>3, <1>5, FS_Injection
<1> QED
  BY <1>1, <1>4, <1>5, <1>6

\* The walk finds the blocks of the free list.
LEMMA ListedOnList ==
  ASSUME NEW K, NEW L, NEW n, ListInv(K, L, n)
  PROVE  \A b \in Blocks : b \in OnList <=> K[b] = "listed"
<1>1. /\ n \in Nat /\ \A i \in 1 .. n : L[i] \in Blocks
      /\ \A b \in Blocks : K[b] = "listed" <=> \E i \in 1 .. n : L[i] = b
      /\ freeListHead = IF n = 0 THEN 0 ELSE L[1]
      /\ \A i \in 1 .. n : freeListNext[L[i]] = IF i = n THEN 0 ELSE L[i + 1]
  BY DEF ListInv
<1>2. n <= MaxBlocks /\ MaxBlocks \in Nat /\ 0 \notin Blocks
  BY ListIsShort, BlocksAssumption DEF Blocks
<1>3. PICK g : g = [k \in 0 .. MaxBlocks |-> IF k < n THEN L[k + 1] ELSE 0]
  OBVIOUS
<1>4. \A k \in 0 .. MaxBlocks : g[k] = IF k < n THEN L[k + 1] ELSE 0
  BY <1>3
<1>5. Walks(g)
  <2>1. g[0] = freeListHead
    BY <1>1, <1>2, <1>4
  <2>2. ASSUME NEW k \in 1 .. MaxBlocks
        PROVE  g[k] = IF g[k - 1] = 0 THEN 0 ELSE freeListNext[g[k - 1]]
    <3>1. g[k - 1] = IF k <= n THEN L[k] ELSE 0
      BY <1>1, <1>2, <1>4
    <3>2. CASE k <= n
      <4>1. k \in 1 .. n
        BY <1>1, <1>2, <3>2
      <4>2. g[k - 1] # 0 /\ freeListNext[g[k - 1]] = IF k = n THEN 0 ELSE L[k + 1]
        BY <1>1, <1>2, <3>1, <3>2, <4>1
      <4>3. g[k] = IF k = n THEN 0 ELSE L[k + 1]
        BY <1>1, <1>2, <1>4, <3>2
      <4> QED
        BY <4>2, <4>3
    <3>3. CASE ~ (k <= n)
      <4>1. g[k] = 0
        BY <1>1, <1>2, <1>4, <3>3
      <4> QED
        BY <3>1, <3>3, <4>1
    <3> QED
      BY <3>2, <3>3
  <2>3. PICK m : m = MaxBlocks
    OBVIOUS
  <2>4. \A k \in 0 .. m : g[k] = IF k = 0 THEN freeListHead
                   ELSE IF g[k - 1] = 0 THEN 0 ELSE freeListNext[g[k - 1]]
    BY <1>2, <2>1, <2>2, <2>3
  <2>5. g = [k \in 0 .. m |-> g[k]]
    BY <1>3, <2>3
  <2> QED
    BY <2>3, <2>4, <2>5 DEF Walks
<1>6. PICK f : f = (CHOOSE h : Walks(h))
  OBVIOUS
<1>7. Walks(f)
  BY <1>5, <1>6
<1>8. OnList = {f[k] : k \in 0 .. MaxBlocks}
  BY <1>6, OnListIs
<1>9. OnList = {g[k] : k \in 0 .. MaxBlocks}
  BY <1>5, <1>7, <1>8, WalksAgree
<1>10. ASSUME NEW b \in Blocks, b \in OnList PROVE \E i \in 1 .. n : L[i] = b
  <2>1. PICK k \in 0 .. MaxBlocks : g[k] = b
    BY <1>9, <1>10
  <2>2. k < n /\ L[k + 1] = b
    BY <1>2, <1>4, <2>1
  <2>3. k + 1 \in 1 .. n
    BY <1>1, <2>2
  <2> QED
    BY <2>2, <2>3
<1>11. ASSUME NEW i \in 1 .. n PROVE L[i] \in OnList
  <2>1. i - 1 \in 0 .. MaxBlocks /\ i - 1 < n /\ (i - 1) + 1 = i
    BY <1>1, <1>2
  <2>2. g[i - 1] = L[i]
    BY <1>4, <2>1
  <2> QED
    BY <1>9, <2>1, <2>2
<1> QED
  BY <1>1, <1>10, <1>11

-----------------------------------------------------------------------------
\* The entries that a block is in.
LEMMA HoldersAre ==
  ASSUME NEW K, NEW P, NEW E, StoredInv(K, P, E), IndexTypes, NEW b \in Blocks
  PROVE  Cardinality(Holders(b)) = IF K[b] = "stored" THEN 1 ELSE 0
<1>1. \A p \in Producers : DOMAIN entries[p] = Entries(p)
  <2>1. \A p \in Producers : entries[p] \in Seq(IndexEntry)
    BY DEF IndexTypes
  <2> QED
    BY <2>1 DEF Entries
<1>2. b # 0
  BY BlocksAssumption DEF Blocks
<1>3. \A x : x \in Holders(b) <=>
        \E p \in Producers : \E e \in Entries(p) : x = <<p, e>> /\ entries[p][e].value = b
  <2> SUFFICES ASSUME NEW x
               PROVE x \in Holders(b) <=>
        \E p \in Producers : \E e \in Entries(p) : x = <<p, e>> /\ entries[p][e].value = b
    OBVIOUS
  <2>1. x \in Holders(b) <=>
          \E p \in Producers : x \in {p} \X {e \in DOMAIN entries[p] : entries[p][e].value = b}
    BY DEF Holders
  <2>2. \A p \in Producers : x \in {p} \X {e \in DOMAIN entries[p] : entries[p][e].value = b} <=>
          \E e \in Entries(p) : x = <<p, e>> /\ entries[p][e].value = b
    BY <1>1
  <2> QED
    BY <2>1, <2>2
<1>4. \A p \in Producers : \A e \in Entries(p) : entries[p][e].value = b =>
        K[b] = "stored" /\ P[b] = p /\ E[b] = e
  BY <1>2 DEF StoredInv
<1>5. K[b] = "stored" => /\ P[b] \in Producers /\ E[b] \in Entries(P[b])
                         /\ entries[P[b]][E[b]].value = b
  BY DEF StoredInv
<1>6. CASE K[b] = "stored"
  <2>1. Holders(b) = {<<P[b], E[b]>>}
    BY <1>3, <1>4, <1>5, <1>6
  <2> QED
    BY <1>6, <2>1, FS_Singleton
<1>7. CASE K[b] # "stored"
  <2>1. Holders(b) = {}
    BY <1>3, <1>4, <1>7
  <2> QED
    BY <1>7, <2>1, FS_EmptySet
<1> QED
  BY <1>6, <1>7

-----------------------------------------------------------------------------
(* The destructor: when nobody is inside a call.                           *)

\* Nobody has a role.
LEMMA QuietRoles ==
  ASSUME Quiet
  PROVE  \A t \in Threads : Role(t) = "none"
BY DEF Quiet, Role, Getting, AddLabels, Filling, Reading, Untaken

\* The blocks that still have elements, or that the next element goes to, are those
\* that are in the index.
Whole(p, n, k) == k \in 0 .. n - 1 /\ headIndex[p] < Base(k + 1)

\* They are those that have a block, when nobody is inside a call.
LEMMA WholeBlocks ==
  ASSUME IndexTypes, CountersInv, Quiet, NEW p \in Producers, headIndex[p] <= tailIndex[p],
         NEW n, NEW X, NEW D, ElementsInv(p, n, X, D)
  PROVE  /\ n \in Nat /\ (n > 0 => tailIndex[p] > Base(n - 1))
         /\ Base(n - 1) <= tailIndex[p] /\ tailIndex[p] <= Base(n)
         /\ \A k \in Int : Whole(p, n, k) <=> k \in Window(p, n) /\ Val(p, X, k) # 0
<1>0. /\ DoneInv(p, D) /\ TailInv(p, n) /\ LiveInv(p, n, X, D) /\ FilledInv(p, n, X, D)
      /\ KeysInv(p, n, X) /\ IndexInv(p, n, X)
  BY DEF ElementsInv
<1>1. /\ n \in Nat /\ Size(p) \in Nat /\ Size(p) >= 2 /\ n - 1 \in Int
      /\ headIndex[p] \in Nat /\ tailIndex[p] \in Nat
  <2>1. n \in Nat /\ Size(p) \in Nat /\ Size(p) >= 2
    BY <1>0, IndexIs
  <2>2. headIndex[p] \in Nat /\ tailIndex[p] \in Nat
    BY DEF CountersInv
  <2> QED
    BY <2>1, <2>2
<1>2. \A t \in Threads : Role(t) = "none"
  BY QuietRoles
<1>3. \A i \in 0 .. headIndex[p] - 1 : i \in D
  BY <1>0, <1>2 DEF DoneInv, Reads, Reading, Untaken
<1>4. /\ Base(n - 1) <= tailIndex[p] /\ tailIndex[p] <= Base(n)
      /\ n > 0 => tailIndex[p] # Base(n - 1)
  BY <1>0, <1>2 DEF TailInv, Fills, Filling
<1>5. Base(n - 1) \in Int /\ Base(n) \in Int
  BY <1>1, Bases
<1>6. n > 0 => tailIndex[p] > Base(n - 1)
  BY <1>1, <1>4, <1>5
<1>7. ASSUME NEW k \in Int, k >= 0 PROVE AllDone(D, k) <=> Base(k + 1) <= headIndex[p]
  <2>1. /\ Base(k) \in Int /\ Base(k + 1) \in Int /\ Base(k) >= 0
        /\ \A i \in Int : i \in Indices(k) <=> (Base(k) <= i /\ i < Base(k + 1))
        /\ Base(k + 1) - 1 \in Indices(k)
        /\ \A i \in Indices(k) : i \in Int
    <3>1. /\ Base(k) \in Int /\ Base(k + 1) \in Int
          /\ \A i \in Int : i \in Indices(k) <=> (Base(k) <= i /\ i < Base(k + 1))
          /\ Base(k + 1) - 1 \in Indices(k)
          /\ \A i \in Indices(k) : i \in Int
      BY IndicesAre
    <3>2. Base(0) = 0 /\ Base(0) <= Base(k)
      BY <1>7, Bases
    <3> QED
      BY <3>1, <3>2
  <2>2. CASE Base(k + 1) <= headIndex[p]
    <3>1. \A i \in Indices(k) : i \in 0 .. headIndex[p] - 1
      BY <1>1, <2>1, <2>2
    <3> QED
      BY <1>3, <2>2, <3>1 DEF AllDone
  <2>3. CASE ~ (Base(k + 1) <= headIndex[p])
    <3>1. Base(k + 1) - 1 \notin 0 .. headIndex[p] - 1
      BY <1>1, <2>1, <2>3
    <3>2. Base(k + 1) - 1 \notin D
      BY <1>0, <3>1 DEF DoneInv
    <3> QED
      BY <2>1, <2>3, <3>2 DEF AllDone
  <2> QED
    BY <2>2, <2>3
<1>8. ASSUME NEW k \in Int PROVE Whole(p, n, k) <=> k \in Window(p, n) /\ Val(p, X, k) # 0
  <2>1. CASE Whole(p, n, k)
    <3>1. k \in 0 .. n - 1 /\ headIndex[p] < Base(k + 1) /\ k >= 0
      BY <1>1, <2>1 DEF Whole
    <3>2. ~ AllDone(D, k)
      <4>1. Base(k + 1) \in Int
        BY Bases
      <4> QED
        BY <1>1, <1>7, <3>1, <4>1
    <3>3. ~ (k = n - 1 /\ tailIndex[p] = Base(k))
      BY <1>1, <1>4, <3>1
    <3>4. k >= n - Size(p) /\ Val(p, X, k) # 0
      BY <1>0, <3>1, <3>2, <3>3 DEF LiveInv
    <3>5. k \in Window(p, n)
      BY <1>1, <3>1, <3>4 DEF Window
    <3> QED
      BY <2>1, <3>4, <3>5
  <2>2. CASE k \in Window(p, n) /\ Val(p, X, k) # 0
    <3>1. k >= 0
      BY <1>0, <2>2 DEF KeysInv
    <3>2. ~ AllDone(D, k)
      <4>1. Filled(p, k, Val(p, X, k), D)
        BY <1>0, <2>2 DEF FilledInv
      <4> QED
        BY <1>2, <4>1 DEF Filled, Releases
    <3>3. Base(k + 1) \in Int
      BY Bases
    <3>4. headIndex[p] < Base(k + 1)
      BY <1>1, <1>7, <3>1, <3>2, <3>3
    <3>5. k \in 0 .. n - 1
      BY <1>1, <2>2, <3>1 DEF Window
    <3> QED
      BY <2>2, <3>4, <3>5 DEF Whole
  <2> QED
    BY <2>1, <2>2
<1> QED
  BY <1>1, <1>4, <1>6, <1>8

\* The block of index i, found from the tail of the index.
LEMMA BlockOfIs ==
  ASSUME IndexTypes, NEW p \in Producers, NEW n, NEW X, IndexInv(p, n, X), KeysInv(p, n, X), n > 0,
         NEW i \in Int
  PROVE  BlockOf(p, i) = Val(p, X, Of(i))
<1>1. PICK h, k, x : h = Current(p) /\ k = Of(i) /\ x = h.tail
  OBVIOUS
<1>2. n \in Nat /\ n - 1 \in Int /\ k \in Int /\ x \in Int
  <2>1. n \in Nat
    BY IndexIs
  <2>2. k \in Int
    BY <1>1, BlockIs
  <2>3. x \in Int
    BY <1>1, CurrentIs DEF Header
  <2> QED
    BY <2>1, <2>2, <2>3
<1>3. \A j \in Int : X[j] = Slot(h, x + (j - (n - 1)))
  BY <1>1 DEF IndexInv
<1>4. Slot(h, x) = X[n - 1]
  <2>1. x + ((n - 1) - (n - 1)) = x
    BY <1>2
  <2> QED
    BY <1>2, <1>3, <2>1
<1>5. entries[p][Slot(h, x)].key = Base(n - 1)
  BY <1>4 DEF KeysInv, Key
<1>6. i - (i % BLOCK_SIZE) = Base(k)
  <2>1. Base(k) \in Int /\ i % BLOCK_SIZE = i - Base(k)
    BY <1>1, <1>2, BlockIs, Bases
  <2> QED
    BY <2>1
<1>7. ((Base(k) - Base(n - 1)) \div BLOCK_SIZE) = k - (n - 1)
  <2>1. PICK m : m = n - 1
    OBVIOUS
  <2>2. m \in Int /\ k - m \in Int
    BY <1>2, <2>1
  <2>3. Base(k - m) = Base(k) - Base(m)
    BY <1>2, <2>2, Bases
  <2>4. (Base(k - m) \div BLOCK_SIZE) = k - m
    BY <2>2, BlockIs
  <2> QED
    BY <2>1, <2>3, <2>4
<1>8. EntryOf(p, h, x, i) = Slot(h, x + (k - (n - 1)))
  BY <1>5, <1>6, <1>7 DEF EntryOf
<1>9. EntryOf(p, h, x, i) = X[k]
  BY <1>2, <1>3, <1>8
<1> QED
  BY <1>1, <1>9 DEF BlockOf, Val

-----------------------------------------------------------------------------
\* The destructor of a producer gives back the blocks in its index, and no others.
LEMMA GivenBackIs ==
  ASSUME IndexTypes, CountersInv, Quiet, NEW p \in Producers, headIndex[p] <= tailIndex[p],
         NEW n, NEW X, NEW D, ElementsInv(p, n, X, D), NEW b, b # 0
  PROVE  b \in GivenBack(p) <=> \E k \in Window(p, n) : Val(p, X, k) = b
<1>1. PICK head, tail : head = headIndex[p] /\ tail = tailIndex[p]
  OBVIOUS
<1>2. /\ n \in Nat /\ (n > 0 => tail > Base(n - 1))
      /\ Base(n - 1) <= tail /\ tail <= Base(n)
      /\ \A k \in Int : Whole(p, n, k) <=> k \in Window(p, n) /\ Val(p, X, k) # 0
  BY <1>1, WholeBlocks
<1>3. head \in Nat /\ tail \in Nat /\ head <= tail
  BY <1>1 DEF CountersInv
<1>4. IndexInv(p, n, X) /\ KeysInv(p, n, X) /\ LastInv(p, n, X)
  BY DEF ElementsInv
<1>5. PICK left : left = head .. tail - 1
  OBVIOUS
<1>6. PICK crossed : crossed = {BlockOf(p, i - 1) : i \in {j \in left : j # head
             /\ j % BLOCK_SIZE = 0}}
  OBVIOUS
<1>7. b \in GivenBack(p) <=>
        \/ b \in crossed
        \/ b = tailBlock[p] /\ tailBlock[p] # 0 /\ (left # {} \/ tail % BLOCK_SIZE # 0)
  BY <1>1, <1>5, <1>6 DEF GivenBack
<1>8. \A i \in Int : i % BLOCK_SIZE = 0 <=> i = Base(Of(i))
  <2> SUFFICES ASSUME NEW i \in Int PROVE i % BLOCK_SIZE = 0 <=> i = Base(Of(i))
    OBVIOUS
  <2>1. Of(i) \in Int /\ i % BLOCK_SIZE = i - Base(Of(i))
    BY BlockIs
  <2>2. Base(Of(i)) \in Int
    BY <2>1, Bases
  <2> QED
    BY <2>1, <2>2
<1>9. BLOCK_SIZE \in Nat /\ BLOCK_SIZE >= 2
  BY ProducerAssumption
\* The blocks that have been crossed are those before the last.
<1>10. ASSUME NEW k \in Int, k < n - 1, Whole(p, n, k), Val(p, X, k) = b PROVE b \in crossed
  <2>1. k + 1 \in Int /\ k + 1 <= n - 1 /\ n - 1 \in Int /\ n > 0 /\ head < Base(k + 1)
    BY <1>1, <1>2, <1>10 DEF Whole
  <2>2. PICK i : i = Base(k + 1)
    OBVIOUS
  <2>3. i \in Int /\ Base(k) \in Int /\ i = Base(k) + BLOCK_SIZE /\ i <= Base(n - 1)
          /\ Base(n - 1) \in Int
    BY <1>10, <2>1, <2>2, Bases
  <2>4. i \in left /\ i # head
    BY <1>2, <1>3, <1>5, <2>1, <2>2, <2>3
  <2>5. i % BLOCK_SIZE = 0
    BY <1>8, <2>1, <2>2, <2>3, BlockIs
  <2>6. i - 1 \in Int /\ Of(i - 1) = k
    <3>1. i - 1 \in Int /\ Base(k) <= i - 1 /\ i - 1 < Base(k) + BLOCK_SIZE
      BY <1>9, <2>3
    <3> QED
      BY <1>10, <3>1, BlockIs
  <2>7. BlockOf(p, i - 1) = b
    BY <1>4, <1>10, <2>1, <2>6, BlockOfIs
  <2> QED
    BY <1>6, <2>4, <2>5, <2>7
<1>11. ASSUME b \in crossed PROVE \E k \in Window(p, n) : Val(p, X, k) = b
  <2>1. PICK i \in left : i # head /\ i % BLOCK_SIZE = 0 /\ BlockOf(p, i - 1) = b
    BY <1>6, <1>11
  <2>2. i \in Int /\ head < i /\ i < tail /\ i - 1 \in Int
    BY <1>3, <1>5, <2>1
  <2>3. PICK k : k = Of(i) - 1
    OBVIOUS
  <2>4. k \in Int /\ k + 1 = Of(i) /\ k + 1 \in Int
    <3>1. Of(i) \in Int
      BY <2>2, BlockIs
    <3> QED
      BY <2>3, <3>1
  <2>5. i = Base(k + 1)
    BY <1>8, <2>1, <2>2, <2>4
  <2>6. Base(k) \in Int /\ i = Base(k) + BLOCK_SIZE
    BY <2>4, <2>5, Bases
  <2>7. Of(i - 1) = k
    <3>1. Base(k) <= i - 1 /\ i - 1 < Base(k) + BLOCK_SIZE
      BY <1>9, <2>2, <2>6
    <3> QED
      BY <2>2, <2>4, <3>1, BlockIs
  <2>8. k \in 0 .. n - 1
    <3>1. ~ (n <= k + 1)
      <4>1. n <= k + 1 => Base(n) <= Base(k + 1)
        BY <1>2, <2>4, Bases
      <4>2. Base(n) \in Int
        BY <1>2, Bases
      <4> QED
        BY <1>2, <1>3, <2>2, <2>5, <4>1, <4>2
    <3>2. ~ (k + 1 <= 0)
      <4>1. k + 1 <= 0 => Base(k + 1) <= Base(0)
        BY <2>4, Bases
      <4>2. Base(0) = 0
        BY Bases
      <4> QED
        BY <1>3, <2>2, <2>5, <4>1, <4>2
    <3> QED
      BY <1>2, <2>4, <3>1, <3>2
  <2>9. Whole(p, n, k)
    BY <1>1, <2>2, <2>5, <2>8 DEF Whole
  <2>10. BlockOf(p, i - 1) = Val(p, X, k)
    <3>1. n > 0
      BY <1>2, <2>8
    <3> QED
      BY <1>4, <2>2, <2>7, <3>1, BlockOfIs
  <2> QED
    BY <1>2, <2>1, <2>4, <2>9, <2>10
\* The last one is the tail block.
<1>12. n > 0 => (head < Base(n) <=> left # {} \/ tail % BLOCK_SIZE # 0)
  <2> SUFFICES ASSUME n > 0 PROVE head < Base(n) <=> left # {} \/ tail % BLOCK_SIZE # 0
    OBVIOUS
  <2>1. n - 1 \in Int /\ (n - 1) + 1 = n
    BY <1>2
  <2>2. PICK m : m = n - 1
    OBVIOUS
  <2>3. Base(m) \in Int /\ Base(m + 1) = Base(m) + BLOCK_SIZE /\ Base(n) \in Int /\ m + 1 = n
    BY <1>2, <2>1, <2>2, Bases
  <2>4. left # {} <=> head < tail
    <3>1. head < tail => head \in left
      BY <1>3, <1>5
    <3>2. \A i \in left : head < tail
      BY <1>3, <1>5
    <3> QED
      BY <3>1, <3>2
  <2>5. tail % BLOCK_SIZE # 0 <=> tail < Base(n)
    <3>1. tail = Base(n) => tail % BLOCK_SIZE = 0
      <4>1. n \in Int /\ tail \in Int
        BY <1>2, <1>3
      <4>2. Of(Base(n)) = n
        BY <4>1, BlockIs
      <4> QED
        BY <1>8, <4>1, <4>2
    <3>2. tail < Base(n) => Of(tail) = m
      <4>1. Base(m) <= tail /\ tail \in Int
        BY <1>2, <1>3, <2>2
      <4> QED
        BY <2>1, <2>2, <2>3, <4>1, BlockIs
    <3>3. tail < Base(n) => tail % BLOCK_SIZE # 0
      BY <1>2, <1>3, <1>8, <2>2, <2>3, <3>2
    <3> QED
      BY <1>2, <1>3, <2>3, <3>1, <3>3
  <2> QED
    BY <1>2, <1>3, <2>3, <2>4, <2>5
<1>13. n = 0 => left = {} /\ tail % BLOCK_SIZE = 0
  <2> SUFFICES ASSUME n = 0 PROVE left = {} /\ tail % BLOCK_SIZE = 0
    OBVIOUS
  <2>1. Base(0) = 0
    BY Bases
  <2>2. tail = 0 /\ head = 0
    BY <1>2, <1>3, <2>1
  <2>3. Base(0) % BLOCK_SIZE = 0
    BY <2>1, <1>8, BlockIs
  <2> QED
    BY <1>5, <2>1, <2>2, <2>3
<1>14. n > 0 => (Whole(p, n, n - 1) <=> left # {} \/ tail % BLOCK_SIZE # 0)
  <2> SUFFICES ASSUME n > 0 PROVE Whole(p, n, n - 1) <=> left # {} \/ tail % BLOCK_SIZE # 0
    OBVIOUS
  <2>1. n - 1 \in 0 .. n - 1 /\ (n - 1) + 1 = n
    BY <1>2
  <2> QED
    BY <1>1, <1>12, <2>1 DEF Whole
<1>15. n > 0 /\ Whole(p, n, n - 1) => tailBlock[p] = Val(p, X, n - 1) /\ tailBlock[p] # 0
                                      /\ n - 1 \in Window(p, n)
  <2>1. n - 1 \in Int
    BY <1>2
  <2> QED
    BY <1>2, <1>4, <2>1 DEF LastInv
<1>16. ASSUME b \in GivenBack(p) PROVE \E k \in Window(p, n) : Val(p, X, k) = b
  <2>1. CASE b \in crossed
    BY <1>11, <2>1
  <2>2. CASE b = tailBlock[p] /\ (left # {} \/ tail % BLOCK_SIZE # 0)
    <3>1. n > 0
      BY <1>2, <1>13, <2>2
    <3> QED
      BY <1>14, <1>15, <2>2, <3>1
  <2> QED
    BY <1>7, <1>16, <2>1, <2>2
<1>17. ASSUME NEW k \in Window(p, n), Val(p, X, k) = b PROVE b \in GivenBack(p)
  <2>1. k \in Int /\ k <= n - 1
    <3>1. Size(p) \in Nat
      BY <1>4, IndexIs
    <3> QED
      BY <1>2, <3>1 DEF Window
  <2>2. Whole(p, n, k)
    BY <1>2, <1>17, <2>1
  <2>3. CASE k < n - 1
    BY <1>7, <1>10, <1>17, <2>1, <2>2, <2>3
  <2>4. CASE k = n - 1
    <3>1. n > 0
      BY <1>2, <2>2, <2>4 DEF Whole
    <3> QED
      BY <1>7, <1>14, <1>15, <1>17, <2>2, <2>4, <3>1
  <2> QED
    BY <1>2, <2>1, <2>3, <2>4
<1> QED
  BY <1>16, <1>17

-----------------------------------------------------------------------------
\* The one producer that gives back a block is the one that has it.
LEMMA GivenBackOnce ==
  ASSUME BaseInv, ElementInv, Published, Quiet, NEW K, NEW P, NEW E, StoredInv(K, P, E),
         NEW b \in Blocks
  PROVE  Cardinality({p \in 1 .. producers : b \in GivenBack(p)}) =
           IF K[b] = "stored" THEN 1 ELSE 0
<1>1. IndexTypes /\ CountersInv /\ b # 0 /\ producers \in Nat /\ producers <= MaxProducers
  BY BlocksAssumption DEF BaseInv, ProducerTypes, RangeInv, Blocks
<1>2. 1 .. producers \subseteq Producers
  BY <1>1, ProducerAssumption DEF Producers
<1>3. \A p \in Producers : \A e \in Entries(p) : entries[p][e].value = b =>
        K[b] = "stored" /\ P[b] = p
  BY <1>1 DEF StoredInv
<1>4. K[b] = "stored" => /\ P[b] \in Producers /\ E[b] \in Entries(P[b])
                         /\ entries[P[b]][E[b]].value = b
  BY DEF StoredInv
<1>5. ASSUME NEW p \in Producers
      PROVE  p \in 1 .. producers /\ b \in GivenBack(p) <=> K[b] = "stored" /\ P[b] = p
  <2>1. PICK n, X, D : ElementsInv(p, n, X, D)
    BY DEF ElementInv
  <2>2. IndexInv(p, n, X) /\ KeysInv(p, n, X) /\ (n > 0 => p <= producers)
    BY <2>1 DEF ElementsInv
  <2>3. /\ n \in Nat /\ Size(p) \in Nat
        /\ \A k \in Int : X[k] \in 1 .. Size(p)
        /\ \A e \in 1 .. Size(p) : \E k \in Window(p, n) : X[k] = e
    BY <1>1, <2>2, IndexIs
  <2>4. Entries(p) = 1 .. Size(p) /\ \A k \in Window(p, n) : k \in Int /\ k < n
    BY <2>3 DEF Entries, Size, Window
  <2>5. b \in GivenBack(p) <=> \E k \in Window(p, n) : Val(p, X, k) = b
    BY <1>1, <2>1, GivenBackIs DEF Published
  <2>6. ASSUME b \in GivenBack(p) PROVE K[b] = "stored" /\ P[b] = p
    <3>1. PICK k \in Window(p, n) : Val(p, X, k) = b
      BY <2>5, <2>6
    <3>2. X[k] \in Entries(p) /\ entries[p][X[k]].value = b
      BY <2>3, <2>4, <3>1 DEF Val
    <3> QED
      BY <1>3, <3>2
  <2>7. ASSUME K[b] = "stored", P[b] = p PROVE p \in 1 .. producers /\ b \in GivenBack(p)
    <3>1. E[b] \in Entries(p) /\ entries[p][E[b]].value = b
      BY <1>4, <2>7
    <3>2. PICK k \in Window(p, n) : X[k] = E[b]
      BY <2>3, <2>4, <3>1
    <3>3. Val(p, X, k) = b
      BY <3>1, <3>2 DEF Val
    <3>4. k >= 0
      BY <1>1, <2>2, <3>3 DEF KeysInv
    <3>5. n > 0
      BY <2>3, <2>4, <3>4
    <3>6. p \in 1 .. producers
      BY <1>1, <2>2, <3>5, ProducerAssumption DEF Producers
    <3> QED
      BY <2>5, <3>3, <3>6
  <2> QED
    BY <2>6, <2>7
<1>6. PICK S : S = {p \in 1 .. producers : b \in GivenBack(p)}
  OBVIOUS
<1>7. CASE K[b] = "stored"
  <2>1. S = {P[b]}
    BY <1>2, <1>4, <1>5, <1>6, <1>7
  <2> QED
    BY <1>6, <1>7, <2>1, FS_Singleton
<1>8. CASE K[b] # "stored"
  <2>1. S = {}
    BY <1>2, <1>5, <1>6, <1>8
  <2> QED
    BY <1>6, <1>8, <2>1, FS_EmptySet
<1> QED
  BY <1>7, <1>8

\* When nobody is inside a call, a block is unused, on the free list, or in an entry.
LEMMA QuietKinds ==
  ASSUME BaseInv, Quiet, NEW K, NEW W, NEW P, NEW E, NEW L, NEW n, PlacedAs(K, W, P, E, L, n),
         NEW b \in Blocks
  PROVE  /\ b <= poolSize => /\ heap[b] = 0
                             /\ K[b] = "unused" <=> b > poolIndex
                             /\ K[b] \in {"unused", "listed", "stored"}
         /\ ~ (b <= poolSize) => heap[b] = IF K[b] = "stored" THEN 1 ELSE 0
<1>1. /\ HandsInv(K, W) /\ CountsInv(K) /\ K[b] \in Kinds /\ b # 0
  BY BlocksAssumption DEF PlacedAs, Blocks
<1>2. \A t \in Threads : pc[t] = "idle"
  BY DEF Quiet
<1>3. \A t \in Threads : Kind(pc[t]) = "none" /\ Ref(t) = 0
  BY <1>2 DEF Kind, Ref
<1>4. K[b] \notin HandKinds
  BY <1>1, <1>3 DEF HandsInv, HandKinds
<1>5. Referrers(b) = {}
  BY <1>1, <1>3 DEF Referrers
<1>6. Counts(b, K[b])
  BY <1>1 DEF CountsInv
<1>7. CASE b <= poolSize
  BY <1>1, <1>4, <1>5, <1>6, <1>7 DEF Counts, PooledCounts, Kinds
<1>8. CASE ~ (b <= poolSize)
  BY <1>4, <1>6, <1>8 DEF Counts, HeapCounts, HandKinds
<1> QED
  BY <1>7, <1>8

\* A block is on the free list or in one entry, when nobody is inside a call.
LEMMA AccountedQuiet ==
  ASSUME BaseInv, Placed, Quiet, NEW b \in Blocks
  PROVE  Cardinality(Holders(b)) =
           IF b <= poolSize
           THEN IF b <= poolIndex /\ b \notin OnList THEN 1 ELSE 0
           ELSE heap[b]
<1>1. PICK K, W, P, E, L, n : PlacedAs(K, W, P, E, L, n)
  BY DEF Placed
<1>2. StoredInv(K, P, E) /\ ListInv(K, L, n) /\ IndexTypes
  BY <1>1 DEF PlacedAs, BaseInv, ProducerTypes
<1>3. Cardinality(Holders(b)) = IF K[b] = "stored" THEN 1 ELSE 0
  BY <1>2, HoldersAre
<1>4. b \in OnList <=> K[b] = "listed"
  BY <1>2, ListedOnList
<1>5. CASE b <= poolSize
  <2>1. (K[b] = "unused" <=> b > poolIndex) /\ K[b] \in {"unused", "listed", "stored"}
    BY <1>1, <1>5, QuietKinds
  <2>2. b <= poolIndex <=> ~ (b > poolIndex)
    BY DEF BaseInv, PoolTypes, Blocks
  <2>3. K[b] = "stored" <=> b <= poolIndex /\ b \notin OnList
    BY <1>4, <2>1, <2>2
  <2> QED
    BY <1>3, <1>5, <2>3
<1>6. CASE ~ (b <= poolSize)
  BY <1>1, <1>3, <1>6, QuietKinds
<1> QED
  BY <1>5, <1>6

\* The destructor gives back the blocks from the heap.
LEMMA AccountedLast ==
  ASSUME BaseInv, Placed, ElementInv, Published, Destroy, NEW b \in Blocks
  PROVE  heap'[b] = 0
<1>0. Quiet
  BY DEF Destroy
<1>1. PICK K, W, P, E, L, n : PlacedAs(K, W, P, E, L, n)
  BY DEF Placed
<1>2. StoredInv(K, P, E)
  BY <1>1 DEF PlacedAs
<1>3. heap'[b] = IF b <= poolSize THEN heap[b]
                 ELSE heap[b] - Cardinality({p \in 1 .. producers : b \in GivenBack(p)})
  BY DEF Destroy
<1>4. Cardinality({p \in 1 .. producers : b \in GivenBack(p)}) = IF K[b] = "stored" THEN 1 ELSE 0
  BY <1>0, <1>2, GivenBackOnce
<1>5. CASE b <= poolSize
  BY <1>0, <1>1, <1>3, <1>5, QuietKinds
<1>6. CASE ~ (b <= poolSize)
  <2>1. heap[b] = IF K[b] = "stored" THEN 1 ELSE 0
    BY <1>0, <1>1, <1>6, QuietKinds
  <2> QED
    BY <1>3, <1>4, <1>6, <2>1
<1> QED
  BY <1>5, <1>6

\* After the destructor no block is left.
NoneLeft == destroyed => \A b \in Blocks : heap[b] = 0

\* Between calls no block is lost or has two places: it is on the free list or in one
\* entry of one producer, and the destructor gives every block from the heap back once
\* (FreeList, requisition_block, ~ImplicitProducer).
THEOREM BlocksAreAccounted ==
  ASSUME FewThreads
  PROVE  Spec => []BlocksAccounted
<1>1. Init => NoneLeft
  BY DEF Init, NoneLeft
<1>2. TicketsSafe /\ Published /\ BlocksInv /\ NoneLeft /\ [Next]_vars => NoneLeft'
  <2> SUFFICES ASSUME TicketsSafe, Published, BlocksInv, NoneLeft, [Next]_vars PROVE NoneLeft'
    OBVIOUS
  <2>0. BaseInv /\ QueueInv /\ ElementInv
    BY DEF TicketsSafe, BlocksInv, BaseInv
  <2>1. CASE destroyed
    <3>1. UNCHANGED vars
      BY <2>0, <2>1, DestroyedRests
    <3>2. UNCHANGED heap
      BY <3>1 DEF vars, poolVars
    <3> QED
      BY <2>1, <3>2 DEF NoneLeft
  <2>2. CASE ~ destroyed /\ Destroy
    BY <2>0, <2>2, AccountedLast DEF NoneLeft, BlocksInv
  <2>3. ASSUME ~ destroyed, NEW t \in Threads, Step(t) PROVE ~ destroyed'
    <3>1. CASE Table(t)
      BY <2>0, <2>3, <3>1, TableCalm DEF BaseInv, CalmStep
    <3>2. CASE ~ Table(t)
      BY <2>0, <2>3, <3>2, PoolWorks, ProducerWorks, WorksWork
         DEF BaseInv, ProducerTypes, QueueInv, Step, WorkStep
    <3> QED
      BY <3>1, <3>2
  <2>4. CASE ~ destroyed /\ UNCHANGED vars
    BY <2>4 DEF NoneLeft, vars, outsidePool, outsideProducer
  <2> QED
    BY <2>1, <2>2, <2>3, <2>4 DEF Next, NoneLeft
<1>3. TicketsSafe /\ BlocksInv /\ NoneLeft => BlocksAccounted
  BY AccountedQuiet DEF TicketsSafe, BlocksInv, NoneLeft, BlocksAccounted
<1> QED
  BY <1>1, <1>2, <1>3, TicketsAreSafe, BlocksAreSafe, PTL DEF Spec
==============================================================================
