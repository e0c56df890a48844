------------------------ MODULE ConcurrentQueueProofs ------------------------
(***************************************************************************)
(* Proofs about ConcurrentQueue: the hash tables give each thread one       *)
(* producer of its own, for any number of threads, tables and producers,    *)
(* and so nothing that an enqueue writes to a producer has two writers.     *)
(* Then the types and ranges of what the threads keep, and the tickets that *)
(* the dequeues take: no index is claimed before it was published.         *)
(***************************************************************************)
EXTENDS ConcurrentQueue, FiniteSetTheorems, SequenceTheorems, WellFoundedInduction, TLAPS

-----------------------------------------------------------------------------
(* The invariant.                                                          *)

\* Where a thread is inside get_or_add_implicit_producer: it has no producer
\* yet, or looks for the slot of the one it has.  And where it leaves the tables.
Fresh == {"newcount", "resize", "grow", "room", "recycle", "subscribe"}
Placing == {"relink", "place"}
Inside == Fresh \cup Placing \cup {"leave"}

TableLocals == [main : Nat, count : Int, probe : Nat, p : Nat, ptr : Nat, best : {0}, size : {0},
            seen : {0}, pass : {1}]

Keys == Threads \cup {NoThread, Reusable}
HashTable ==
  UNION {[key : [0 .. n - 1 -> Keys], value : [0 .. n - 1 -> Nat], capacity : {n}] :
           n \in Nat \ {0}}

TableInv ==
  /\ DOMAIN pc = Threads /\ DOMAIN hl = Threads
  /\ listeners \in [Threads -> SUBSET Nat]
  /\ inactive \subseteq Nat
  /\ producers \in Nat
  /\ hashCount \in Int
  /\ hash \in Seq(HashTable) /\ Len(hash) > 0
  /\ \A t \in Threads : pc[t] \in Inside => hl[t] \in TableLocals

\* No producer has two users, and one that is listed to be recycled has none.
\* A thread that has taken a producer and is about to subscribe is its user.
Pending(t) == pc[t] = "subscribe"

OwnersInv ==
  /\ inactive \subseteq 1 .. producers
  /\ \A t \in Threads :
       /\ listeners[t] \subseteq 1 .. producers
       /\ listeners[t] \cap inactive = {}
       /\ \A p, q \in listeners[t] : p = q
       /\ \A u \in Threads : u # t => listeners[t] \cap listeners[u] = {}
       /\ Pending(t) => /\ hl[t].p \in 1 .. producers
                        /\ hl[t].p \notin inactive
                        /\ \A u \in Threads : hl[t].p \notin listeners[u]
                        /\ \A u \in Threads : Pending(u) /\ u # t => hl[u].p # hl[t].p
       /\ pc[t] \in Fresh => listeners[t] = {}
       /\ pc[t] = "place" => listeners[t] = {hl[t].p}
       /\ pc[t] = "relink" => hl[t].p \in listeners[t]

\* A search of table T for u, as Position and Found make it.
Pos(n, u, k) == (Hash[u] + k) % n
FoundIn(T, u) ==
  {k \in 0 .. T.capacity - 1 :
     /\ T.key[Pos(T.capacity, u, k)] = u
     /\ \A j \in 0 .. k - 1 : T.key[Pos(T.capacity, u, j)] # NoThread}

\* In the tables H a slot with the key of u has one of the producers L of u, and a
\* search finds it.
Linked(H, u, L) ==
  \A h \in 1 .. Len(H) : \A i \in 0 .. H[h].capacity - 1 :
    H[h].key[i] = u =>
      H[h].value[i] \in L /\ \E k \in FoundIn(H[h], u) : i = Pos(H[h].capacity, u, k)

\* u has left all tables after the m-th.
Unlinked(H, u, m) ==
  /\ m \in 0 .. Len(H)
  /\ \A h \in 1 .. Len(H) : \A i \in 0 .. H[h].capacity - 1 : h > m => H[h].key[i] # u

\* A search of the tables succeeds.
Reached(H, u) == \E h \in 1 .. Len(H) : FoundIn(H[h], u) # {}

\* The slots before the one that is probed are taken.
Probing(H, u, l) ==
  /\ l.main \in 1 .. Len(H)
  /\ l.probe \in 0 .. H[l.main].capacity - 1
  /\ \A j \in 0 .. l.probe - 1 : H[l.main].key[Pos(H[l.main].capacity, u, j)] # NoThread

\* The tables H as u sees them, with the producers L, at the label s and with the
\* local variables l.
Seen(H, u, L, s, l) ==
  /\ Linked(H, u, L)
  /\ s = "leave" => Unlinked(H, u, l.main)
  /\ L # {} /\ s \notin {"place", "leave"} => Reached(H, u)
  /\ s \in Fresh \cup Placing => Probing(H, u, l)
  /\ s \in Fresh => l.probe = 0

SlotsInv == \A t \in Threads : Seen(hash, t, listeners[t], pc[t], hl[t])

\* The destructor runs when nobody is inside, and leaves nobody subscribed.
DestroyedInv == destroyed => Quiet /\ \A t \in Threads : listeners[t] = {}

QueueInv == TableInv /\ OwnersInv /\ (~ destroyed => SlotsInv) /\ DestroyedInv

-----------------------------------------------------------------------------
(* Tables.                                                                 *)

\* What a table is made of.
LEMMA TableIs ==
  ASSUME NEW T \in HashTable
  PROVE  /\ T.capacity \in Nat \ {0}
         /\ T.key \in [0 .. T.capacity - 1 -> Keys]
         /\ T.value \in [0 .. T.capacity - 1 -> Nat]
BY DEF HashTable

\* A record of keys and values of one size is a table.
LEMMA TableOf ==
  ASSUME NEW n \in Nat \ {0}, NEW k \in [0 .. n - 1 -> Keys], NEW v \in [0 .. n - 1 -> Nat]
  PROVE  [key |-> k, value |-> v, capacity |-> n] \in HashTable
BY DEF HashTable

\* A probed position is a slot of the table.
LEMMA PosIs ==
  ASSUME NEW n \in Nat \ {0}, NEW u \in Threads, NEW k \in Nat
  PROVE  Pos(n, u, k) \in 0 .. n - 1
<1>1. PICK a \in Nat : a = Hash[u] + k
  BY HashAssumption
<1>2. a % n \in 0 .. n - 1
  OBVIOUS
<1> QED
  BY <1>1, <1>2 DEF Pos

\* What a search of the model finds.
LEMMA FoundIs ==
  ASSUME NEW h, NEW u
  PROVE  /\ Found(h, u) = FoundIn(hash[h], u)
         /\ \A k : Position(h, u, k) = Pos(hash[h].capacity, u, k)
BY DEF Found, FoundIn, Position, Pos

\* What the steps of others may do to a table as far as u sees it: no slot becomes
\* empty, and the slots of u stay as they are.
Evolves(T, T1, u) ==
  /\ T1.capacity = T.capacity
  /\ \A i \in 0 .. T.capacity - 1 : /\ T.key[i] # NoThread => T1.key[i] # NoThread
                                    /\ T.key[i] = u => T1.key[i] = u

NoNewKey(T, T1, u) ==
  \A i \in 0 .. T.capacity - 1 : T1.key[i] = u => T.key[i] = u /\ T1.value[i] = T.value[i]

EvolvesFor(H, H1, u) == Len(H) <= Len(H1) /\ \A h \in 1 .. Len(H) : Evolves(H[h], H1[h], u)

NoNewFor(H, H1, u) ==
  \A h \in 1 .. Len(H1) :
    IF h <= Len(H) THEN NoNewKey(H[h], H1[h], u)
    ELSE \A i \in 0 .. H1[h].capacity - 1 : H1[h].key[i] # u

\* What a search finds it goes on finding.
LEMMA FoundKept ==
  ASSUME NEW T \in HashTable, NEW T1, NEW u \in Threads, Evolves(T, T1, u)
  PROVE  FoundIn(T, u) \subseteq FoundIn(T1, u)
<1>1. T.capacity \in Nat \ {0} /\ T1.capacity = T.capacity
  BY TableIs DEF Evolves
<1>2. \A k \in Nat : Pos(T.capacity, u, k) \in 0 .. T.capacity - 1
  BY <1>1, PosIs
<1> SUFFICES ASSUME NEW k \in FoundIn(T, u) PROVE k \in FoundIn(T1, u)
  OBVIOUS
<1>3. k \in 0 .. T.capacity - 1 /\ k \in Nat
  BY <1>1 DEF FoundIn
<1>4. T1.key[Pos(T.capacity, u, k)] = u
  BY <1>2, <1>3 DEF FoundIn, Evolves
<1>5. ASSUME NEW j \in 0 .. k - 1 PROVE T1.key[Pos(T.capacity, u, j)] # NoThread
  <2>1. j \in Nat
    BY <1>3
  <2> QED
    BY <1>2, <2>1 DEF FoundIn, Evolves
<1> QED
  BY <1>1, <1>3, <1>4, <1>5 DEF FoundIn

\* The steps of others keep what is known of the slots of u.
LEMMA SlotsKept ==
  ASSUME NEW H \in Seq(HashTable), NEW H1 \in Seq(HashTable), NEW u \in Threads,
         EvolvesFor(H, H1, u), NoNewFor(H, H1, u)
  PROVE  /\ \A L : Linked(H, u, L) => Linked(H1, u, L)
         /\ \A m : Unlinked(H, u, m) => Unlinked(H1, u, m)
         /\ Reached(H, u) => Reached(H1, u)
         /\ \A l \in TableLocals : Probing(H, u, l) => Probing(H1, u, l)
<1>0. Len(H) \in Nat /\ Len(H1) \in Nat /\ Len(H) <= Len(H1)
  BY DEF EvolvesFor
<1>1. \A h \in 1 .. Len(H) : H[h] \in HashTable /\ h \in 1 .. Len(H1)
  BY <1>0
<1>2. \A h \in 1 .. Len(H) :
        FoundIn(H[h], u) \subseteq FoundIn(H1[h], u) /\ H1[h].capacity = H[h].capacity
  <2> SUFFICES ASSUME NEW h \in 1 .. Len(H)
               PROVE  FoundIn(H[h], u) \subseteq FoundIn(H1[h], u) /\ H1[h].capacity = H[h].capacity
    OBVIOUS
  <2>1. Evolves(H[h], H1[h], u)
    BY DEF EvolvesFor
  <2> QED
    BY <1>1, <2>1, FoundKept DEF Evolves
<1>3. ASSUME NEW L, Linked(H, u, L) PROVE Linked(H1, u, L)
  <2> SUFFICES ASSUME NEW h \in 1 .. Len(H1), NEW i \in 0 .. H1[h].capacity - 1, H1[h].key[i] = u
               PROVE  /\ H1[h].value[i] \in L
                      /\ \E k \in FoundIn(H1[h], u) : i = Pos(H1[h].capacity, u, k)
    BY DEF Linked
  <2>1. h \in 1 .. Len(H) /\ NoNewKey(H[h], H1[h], u)
    BY <1>0 DEF NoNewFor
  <2>2. i \in 0 .. H[h].capacity - 1 /\ H[h].key[i] = u /\ H1[h].value[i] = H[h].value[i]
    BY <1>2, <2>1 DEF NoNewKey
  <2> QED
    BY <1>2, <1>3, <2>1, <2>2 DEF Linked
<1>4. ASSUME NEW m, Unlinked(H, u, m) PROVE Unlinked(H1, u, m)
  <2>1. m \in 0 .. Len(H) /\ m \in 0 .. Len(H1)
    BY <1>0, <1>4 DEF Unlinked
  <2>2. ASSUME NEW h \in 1 .. Len(H1), NEW i \in 0 .. H1[h].capacity - 1, h > m, H1[h].key[i] = u
        PROVE  FALSE
    <3>1. h \in 1 .. Len(H) /\ NoNewKey(H[h], H1[h], u)
      BY <1>0, <2>2 DEF NoNewFor
    <3>2. i \in 0 .. H[h].capacity - 1 /\ H[h].key[i] = u
      BY <1>2, <2>2, <3>1 DEF NoNewKey
    <3> QED
      BY <1>4, <2>2, <3>1, <3>2 DEF Unlinked
  <2> QED
    BY <2>1, <2>2 DEF Unlinked
<1>5. Reached(H, u) => Reached(H1, u)
  BY <1>1, <1>2 DEF Reached
<1>6. ASSUME NEW l \in TableLocals, Probing(H, u, l) PROVE Probing(H1, u, l)
  <2>1. PICK h \in 1 .. Len(H) : h = l.main
    BY <1>6 DEF Probing
  <2>2. PICK n \in Nat \ {0} : n = H[h].capacity /\ n = H1[h].capacity
    BY <1>1, <1>2, TableIs
  <2>3. l.probe \in 0 .. n - 1
    BY <1>6, <2>1, <2>2 DEF Probing
  <2>4. ASSUME NEW j \in 0 .. l.probe - 1 PROVE H1[h].key[Pos(n, u, j)] # NoThread
    <3>1. j \in Nat /\ H[h].key[Pos(n, u, j)] # NoThread
      BY <1>6, <2>1, <2>2, <2>3 DEF Probing
    <3>2. Pos(n, u, j) \in 0 .. n - 1 /\ Evolves(H[h], H1[h], u)
      BY <3>1, PosIs DEF EvolvesFor
    <3> QED
      BY <2>2, <3>1, <3>2 DEF Evolves
  <2> QED
    BY <1>1, <2>1, <2>2, <2>3, <2>4 DEF Probing
<1> QED
  BY <1>3, <1>4, <1>5, <1>6

-----------------------------------------------------------------------------
(* What the steps do to the tables.                                        *)

\* Nothing happens.
LEMMA TablesSame ==
  ASSUME NEW H \in Seq(HashTable), NEW u \in Threads
  PROVE  EvolvesFor(H, H, u) /\ NoNewFor(H, H, u)
BY DEF EvolvesFor, NoNewFor, Evolves, NoNewKey

\* A new table is empty.
LEMMA TablesGrow ==
  ASSUME NEW H \in Seq(HashTable), NEW n \in Nat \ {0}, NEW u \in Threads
  PROVE  /\ Append(H, NewHash(n)) \in Seq(HashTable)
         /\ Len(Append(H, NewHash(n))) = Len(H) + 1
         /\ EvolvesFor(H, Append(H, NewHash(n)), u) /\ NoNewFor(H, Append(H, NewHash(n)), u)
         /\ Append(H, NewHash(n))[Len(H) + 1].capacity = n
<1> DEFINE T == NewHash(n)
           H1 == Append(H, T)
<1>1. T \in HashTable /\ T.capacity = n /\ \A i \in 0 .. n - 1 : T.key[i] = NoThread
  <2>1. /\ [i \in 0 .. n - 1 |-> NoThread] \in [0 .. n - 1 -> Keys]
        /\ [i \in 0 .. n - 1 |-> 0] \in [0 .. n - 1 -> Nat]
    BY DEF Keys
  <2>2. T = [key |-> [i \in 0 .. n - 1 |-> NoThread], value |-> [i \in 0 .. n - 1 |-> 0],
             capacity |-> n]
    BY DEF NewHash
  <2> DEFINE k == [i \in 0 .. n - 1 |-> NoThread]
             v == [i \in 0 .. n - 1 |-> 0]
  <2>3. k \in [0 .. n - 1 -> Keys] /\ v \in [0 .. n - 1 -> Nat]
        /\ \A i \in 0 .. n - 1 : k[i] = NoThread
    BY <2>1
  <2>4. T = [key |-> k, value |-> v, capacity |-> n]
    BY <2>2
  <2> HIDE DEF k, v, T
  <2>5. T \in HashTable
    BY <2>3, <2>4, TableOf
  <2> QED
    BY <2>3, <2>4, <2>5
<1> HIDE DEF T
<1>2. /\ H1 \in Seq(HashTable) /\ Len(H) \in Nat /\ Len(H1) = Len(H) + 1 /\ H1[Len(H) + 1] = T
      /\ \A h \in 1 .. Len(H) : H1[h] = H[h]
  BY <1>1, AppendProperties
<1> HIDE DEF H1
<1>3. \A h \in 1 .. Len(H1) : h \in 1 .. Len(H) \/ (h = Len(H) + 1 /\ H1[h] = T)
  BY <1>2
<1>4. EvolvesFor(H, H1, u)
  BY <1>2 DEF EvolvesFor, Evolves
<1>5. NoThread # u
  BY HashAssumption
<1>6. NoNewFor(H, H1, u)
  <2> SUFFICES ASSUME NEW h \in 1 .. Len(H1)
               PROVE  IF h <= Len(H) THEN NoNewKey(H[h], H1[h], u)
                      ELSE \A i \in 0 .. H1[h].capacity - 1 : H1[h].key[i] # u
    BY DEF NoNewFor
  <2>1. CASE h \in 1 .. Len(H)
    BY <1>2, <2>1 DEF NoNewKey
  <2>2. CASE h = Len(H) + 1 /\ H1[h] = T
    BY <1>1, <1>2, <1>5, <2>2
  <2> QED
    BY <1>3, <2>1, <2>2
<1> QED
  BY <1>1, <1>2, <1>4, <1>6 DEF H1, T

\* A table in which one slot is occupied by t, or all slots of t are given up.
Replaced(H, h, T, H1) ==
  /\ H1 \in Seq(HashTable) /\ Len(H1) = Len(H)
  /\ H1[h] = T
  /\ \A g \in 1 .. Len(H) : g # h => H1[g] = H[g]

\* The assignment of one table.
LEMMA ReplacedIs ==
  ASSUME NEW H \in Seq(HashTable), NEW h \in 1 .. Len(H), NEW T \in HashTable
  PROVE  Replaced(H, h, T, [H EXCEPT ![h] = T])
BY DEF Replaced

\* The other tables are as before.
LEMMA ReplacedEvolves ==
  ASSUME NEW H \in Seq(HashTable), NEW h \in 1 .. Len(H), NEW T, NEW H1, Replaced(H, h, T, H1),
         NEW u
  PROVE  /\ Evolves(H[h], T, u) => EvolvesFor(H, H1, u)
         /\ NoNewKey(H[h], T, u) => NoNewFor(H, H1, u)
<1>1. \A g \in 1 .. Len(H) : Evolves(H[g], H[g], u) /\ NoNewKey(H[g], H[g], u)
  BY DEF Evolves, NoNewKey
<1>2. Len(H) \in Nat /\ Len(H1) = Len(H)
      /\ \A g \in 1 .. Len(H) : (H1[g] = T /\ g = h) \/ H1[g] = H[g]
  BY DEF Replaced
<1>3. Evolves(H[h], T, u) => EvolvesFor(H, H1, u)
  BY <1>1, <1>2 DEF EvolvesFor
<1>4. NoNewKey(H[h], T, u) => NoNewFor(H, H1, u)
  BY <1>1, <1>2 DEF NoNewFor
<1> QED
  BY <1>3, <1>4

\* The slot i of T is occupied by t with the producer p.
Occupied(T, i, t, p) == [key |-> [T.key EXCEPT ![i] = t], value |-> [T.value EXCEPT ![i] = p],
                         capacity |-> T.capacity]

\* The slot is the only one that changes, and it was nobody's.
LEMMA OccupiedIs ==
  ASSUME NEW T \in HashTable, NEW i \in 0 .. T.capacity - 1, NEW t \in Threads, NEW p \in Nat,
         T.key[i] \in {NoThread, Reusable}
  PROVE  /\ Occupied(T, i, t, p) \in HashTable
         /\ Occupied(T, i, t, p).capacity = T.capacity
         /\ \A j \in 0 .. T.capacity - 1 :
              /\ Occupied(T, i, t, p).key[j] = IF j = i THEN t ELSE T.key[j]
              /\ Occupied(T, i, t, p).value[j] = IF j = i THEN p ELSE T.value[j]
         /\ \A u \in Threads : Evolves(T, Occupied(T, i, t, p), u)
         /\ \A u \in Threads : u # t => NoNewKey(T, Occupied(T, i, t, p), u)
<1> DEFINE n == T.capacity
           k == [T.key EXCEPT ![i] = t]
           v == [T.value EXCEPT ![i] = p]
           T1 == Occupied(T, i, t, p)
<1>1. n \in Nat \ {0} /\ T.key \in [0 .. n - 1 -> Keys] /\ T.value \in [0 .. n - 1 -> Nat]
  BY TableIs
<1>2. k \in [0 .. n - 1 -> Keys] /\ v \in [0 .. n - 1 -> Nat]
  BY <1>1 DEF Keys
<1>3. T1 \in HashTable /\ T1.capacity = n /\ T1.key = k /\ T1.value = v
  BY <1>1, <1>2, TableOf DEF Occupied
<1>4. \A j \in 0 .. n - 1 : k[j] = (IF j = i THEN t ELSE T.key[j])
                            /\ v[j] = (IF j = i THEN p ELSE T.value[j])
  BY <1>1
<1> HIDE DEF T1, k, v
<1>5. NoThread \notin Threads /\ Reusable \notin Threads
  BY HashAssumption
<1>6. ASSUME NEW u \in Threads PROVE Evolves(T, T1, u)
  BY <1>3, <1>4, <1>5 DEF Evolves
<1>7. ASSUME NEW u \in Threads, u # t PROVE NoNewKey(T, T1, u)
  BY <1>3, <1>4, <1>7 DEF NoNewKey
<1> QED
  BY <1>3, <1>4, <1>6, <1>7 DEF T1

\* The slots of t in T that a search finds are given up.
Vacated(T, t) ==
  [key |-> [i \in 0 .. T.capacity - 1 |->
              IF \E k \in FoundIn(T, t) : i = Pos(T.capacity, t, k) THEN Reusable ELSE T.key[i]],
   value |-> T.value, capacity |-> T.capacity]

\* No other thread's slot changes.
LEMMA VacatedIs ==
  ASSUME NEW T \in HashTable, NEW t \in Threads
  PROVE  /\ Vacated(T, t) \in HashTable
         /\ Vacated(T, t).capacity = T.capacity
         /\ \A u \in Threads : NoNewKey(T, Vacated(T, t), u)
         /\ \A u \in Threads : u # t => Evolves(T, Vacated(T, t), u)
         /\ \A i \in 0 .. T.capacity - 1 :
              Vacated(T, t).key[i] = t => ~ \E k \in FoundIn(T, t) : i = Pos(T.capacity, t, k)
<1> DEFINE n == T.capacity
           Gone(i) == \E k \in FoundIn(T, t) : i = Pos(T.capacity, t, k)
           k == [i \in 0 .. n - 1 |-> IF Gone(i) THEN Reusable ELSE T.key[i]]
           T1 == Vacated(T, t)
<1>1. n \in Nat \ {0} /\ T.key \in [0 .. n - 1 -> Keys] /\ T.value \in [0 .. n - 1 -> Nat]
  BY TableIs
<1>2. \A i \in 0 .. n - 1 : Gone(i) => T.key[i] = t
  BY DEF FoundIn
<1> HIDE DEF Gone
<1>3. k \in [0 .. n - 1 -> Keys]
      /\ \A i \in 0 .. n - 1 : k[i] = IF Gone(i) THEN Reusable ELSE T.key[i]
  BY <1>1 DEF Keys
<1>4. T1 \in HashTable /\ T1.capacity = n /\ T1.key = k /\ T1.value = T.value
  BY <1>1, <1>3, TableOf DEF Vacated, Gone
<1> HIDE DEF T1, k
<1>5. NoThread # Reusable /\ Reusable \notin Threads
  BY HashAssumption
<1>6. ASSUME NEW u \in Threads PROVE NoNewKey(T, T1, u)
  BY <1>3, <1>4, <1>5 DEF NoNewKey
<1>7. ASSUME NEW u \in Threads, u # t PROVE Evolves(T, T1, u)
  BY <1>2, <1>3, <1>4, <1>5, <1>7 DEF Evolves
<1>8. \A i \in 0 .. n - 1 : T1.key[i] = t => ~ Gone(i)
  BY <1>3, <1>4, <1>5
<1> QED
  BY <1>4, <1>6, <1>7, <1>8 DEF T1, Gone

-----------------------------------------------------------------------------
(* Steps outside the tables.                                               *)

\* t moves and nobody else does.
Moves(t) ==
  /\ DOMAIN pc' = Threads /\ DOMAIN hl' = Threads
  /\ \A u \in Threads : u # t => pc'[u] = pc[u] /\ hl'[u] = hl[u]

\* The steps of BlockPool and ImplicitProducer, and those of dequeue and of the ends
\* of the calls: they do not touch the tables.
OutsideStep(t) ==
  /\ pc[t] \notin Inside /\ pc'[t] \notin Inside
  /\ pc[t] = "idle" => ~ destroyed
  /\ UNCHANGED <<tableVars, destroyed>>
  /\ Moves(t)

\* A step to a label outside.
LEMMA GoOutside ==
  ASSUME TableInv, NEW t \in Threads, NEW l, l \notin Inside,
         pc[t] \notin Inside, pc[t] # "idle", Go(t, l) \/ pc' = pc, UNCHANGED outsideProducer
  PROVE  OutsideStep(t)
<1>1. UNCHANGED <<tableVars, destroyed>> /\ hl' = hl
  BY DEF outsideProducer
<1>2. DOMAIN pc' = Threads /\ pc'[t] \notin Inside /\ \A u \in Threads : u # t => pc'[u] = pc[u]
  BY DEF Go, TableInv
<1>3. DOMAIN hl' = Threads /\ \A u \in Threads : u # t => hl'[u] = hl[u]
  BY <1>1 DEF TableInv
<1> QED
  BY <1>1, <1>2, <1>3 DEF OutsideStep, Moves

\* The labels of BlockPool and ImplicitProducer.
OutsideLabels == {"requisition", "poolinc", "getload", "getrefs", "getinc", "getnext", "getcas",
  "getsub", "getdec", "create", "gotblock", "addblock", "addhead", "addnext", "addrefs", "addcas",
  "addretry", "enqueue", "insert", "settail", "construct", "publish", "enqueued", "failed",
  "dequeue", "count", "recheck", "overcommit", "missed", "claim", "lookup", "entry", "take",
  "setempty", "release", "dequeued"}

\* None of them is inside.
LEMMA LabelsOutside == (\A l \in OutsideLabels : l \notin Inside) /\ "idle" \notin OutsideLabels
<1>1. ASSUME NEW l \in Inside PROVE l \notin OutsideLabels
  BY DEF OutsideLabels, Inside, Fresh, Placing
<1>2. "idle" \notin OutsideLabels
  BY DEF OutsideLabels
<1> QED
  BY <1>1, <1>2

\* Every step of BlockPool.
LEMMA PoolOutside ==
  ASSUME TableInv, NEW t \in Threads, Pool(t)
  PROVE  OutsideStep(t)
<1> DEFINE Out == pc[t] \in OutsideLabels /\ UNCHANGED outsideProducer
                  /\ \E l \in OutsideLabels : Go(t, l)
<1>1. PoolTest(t) => Out
  BY DEF PoolTest, outsidePool, OutsideLabels
<1>2. PoolIncrement(t) => Out
  BY DEF PoolIncrement, outsidePool, OutsideLabels
<1>3. GetLoad(t) => Out
  BY DEF GetLoad, TryHead, outsidePool, OutsideLabels
<1>4. GetRefs(t) => Out
  BY DEF GetRefs, outsidePool, OutsideLabels
<1>5. GetIncrement(t) => Out
  BY DEF GetIncrement, outsidePool, OutsideLabels
<1>6. GetNext(t) => Out
  BY DEF GetNext, outsidePool, OutsideLabels
<1>7. GetCas(t) => Out
  BY DEF GetCas, outsidePool, OutsideLabels
<1>8. GetDone(t) => Out
  BY DEF GetDone, outsidePool, OutsideLabels
<1>9. GetDecrement(t) => Out
  BY DEF GetDecrement, TryHead, outsidePool, OutsideLabels
<1>10. Create(t) => Out
  BY DEF Create, outsidePool, OutsideLabels
<1>11. AddBlock(t) => Out
  BY DEF AddBlock, Add, Added, TryHead, outsidePool, OutsideLabels
<1>12. AddHead(t) => Out
  BY DEF AddHead, outsidePool, OutsideLabels
<1>13. AddNext(t) => Out
  BY DEF AddNext, outsidePool, OutsideLabels
<1>14. AddRefs(t) => Out
  BY DEF AddRefs, outsidePool, OutsideLabels
<1>15. AddCas(t) => Out
  BY DEF AddCas, Added, TryHead, outsidePool, OutsideLabels
<1>16. AddRetry(t) => Out
  BY DEF AddRetry, Added, TryHead, outsidePool, OutsideLabels
<1>17. Out
  BY <1>1, <1>2, <1>3, <1>4, <1>5, <1>6, <1>7, <1>8, <1>9, <1>10, <1>11, <1>12, <1>13, <1>14,
     <1>15, <1>16 DEF Pool
<1> QED
  BY <1>17, LabelsOutside, GoOutside

\* Every step of ImplicitProducer.
LEMMA ProducerOutside ==
  ASSUME TableInv, NEW t \in Threads, Producer(t)
  PROVE  OutsideStep(t)
<1> DEFINE Out == pc[t] \in OutsideLabels /\ UNCHANGED outsideProducer
                  /\ \E l \in OutsideLabels : Go(t, l) \/ pc' = pc
<1>1. Enqueue(t) => Out
  BY DEF Enqueue, OutsideLabels
<1>2. Insert(t) => Out
  <2> SUFFICES ASSUME Insert(t) PROVE Out
    OBVIOUS
  <2>1. pc[t] = "insert" /\ UNCHANGED outsideProducer
    BY DEF Insert
  <2>2. Go(t, "settail") \/ pc' = pc
    BY DEF Insert
  <2>3. "insert" \in OutsideLabels /\ "settail" \in OutsideLabels
    BY DEF OutsideLabels
  <2> QED
    BY <2>1, <2>2, <2>3
<1>3. InsertTail(t) => Out
  BY DEF InsertTail, OutsideLabels
<1>4. GotNoBlock(t) => Out
  BY DEF GotNoBlock, OutsideLabels
<1>5. GotBlock(t) => Out
  BY DEF GotBlock, OutsideLabels
<1>6. Construct(t) => Out
  BY DEF Construct, OutsideLabels
<1>7. Publish(t) => Out
  BY DEF Publish, OutsideLabels
<1>8. Dequeue(t) => Out
  BY DEF Dequeue, OutsideLabels
<1>9. CountIn(t) => Out
  BY DEF CountIn, OutsideLabels
<1>10. Recheck(t) => Out
  BY DEF Recheck, OutsideLabels
<1>11. OverCommit(t) => Out
  BY DEF OverCommit, OutsideLabels
<1>12. Claim(t) => Out
  BY DEF Claim, OutsideLabels
<1>13. Lookup(t) => Out
  BY DEF Lookup, OutsideLabels
<1>14. Entry(t) => Out
  BY DEF Entry, OutsideLabels
<1>15. Take(t) => Out
  <2> SUFFICES ASSUME Take(t) PROVE Out
    OBVIOUS
  <2>1. pc[t] = "take" /\ UNCHANGED outsideProducer /\ Go(t, "setempty")
    BY DEF Take
  <2>2. "take" \in OutsideLabels /\ "setempty" \in OutsideLabels
    BY DEF OutsideLabels
  <2> QED
    BY <2>1, <2>2
<1>16. SetEmpty(t) => Out
  BY DEF SetEmpty, OutsideLabels
<1>17. Release(t) => Out
  BY DEF Release, OutsideLabels
<1>18. Out
  BY <1>1, <1>2, <1>3, <1>4, <1>5, <1>6, <1>7, <1>8, <1>9, <1>10, <1>11, <1>12, <1>13, <1>14,
     <1>15, <1>16, <1>17 DEF Producer
<1> QED
  BY <1>18, LabelsOutside, GoOutside

\* The steps of enqueue, wait_dequeue and try_dequeue around them.
LEMMA CallOutside ==
  ASSUME TableInv, NEW t \in Threads,
         \/ EnqueueReturns(t) \/ WaitDequeue(t) \/ Scan(t) \/ Scanned(t) \/ Missed(t)
         \/ DequeueReturns(t)
  PROVE  OutsideStep(t)
<1> DEFINE Labels == {"idle", "enqueued", "failed", "scan", "missed", "dequeue", "dequeued"}
           Out == /\ pc[t] \in Labels /\ (pc[t] = "idle" => ~ destroyed)
                  /\ UNCHANGED <<tableVars, destroyed>>
                  /\ \E l \in Labels : Go(t, l) \/ pc' = pc
                  /\ \E l : Store(t, l)
<1>1. EnqueueReturns(t) => Out
  BY DEF EnqueueReturns, Returns, Frame
<1>2. WaitDequeue(t) => Out
  BY DEF WaitDequeue, Calls, ScanFrom, Frame
<1>3. Scan(t) => Out
  <2> SUFFICES ASSUME Scan(t) PROVE Out
    OBVIOUS
  <2>1. pc[t] = "scan" /\ pc' = pc /\ UNCHANGED <<tableVars, destroyed>>
    BY DEF Scan, Frame
  <2>2. \E l : Store(t, l)
    BY DEF Scan
  <2> QED
    BY <2>1, <2>2
<1>4. Scanned(t) => Out
  BY DEF Scanned, ScanFrom, Frame
<1>5. Missed(t) => Out
  <2> SUFFICES ASSUME Missed(t) PROVE Out
    OBVIOUS
  <2>1. pc[t] = "missed" /\ UNCHANGED <<tableVars, destroyed>>
    BY DEF Missed, Frame
  <2>2. (Go(t, "scan") \/ Go(t, "dequeue")) /\ \E l : Store(t, l)
    BY DEF Missed, ScanFrom
  <2> QED
    BY <2>1, <2>2
<1>6. DequeueReturns(t) => Out
  BY DEF DequeueReturns, Returns, Frame
<1>7. Out
  BY <1>1, <1>2, <1>3, <1>4, <1>5, <1>6
<1>8. \A l \in Labels : l \notin Inside
  BY DEF Inside, Fresh, Placing
<1> HIDE DEF Labels
<1>9. /\ DOMAIN pc' = Threads /\ pc[t] \notin Inside /\ pc'[t] \notin Inside
      /\ \A u \in Threads : u # t => pc'[u] = pc[u]
  BY <1>7, <1>8 DEF Go, TableInv
<1>10. DOMAIN hl' = Threads /\ \A u \in Threads : u # t => hl'[u] = hl[u]
  BY <1>7 DEF Store, TableInv
<1> QED
  BY <1>7, <1>9, <1>10 DEF OutsideStep, Moves

\* They keep the invariant.
LEMMA OutsideKeeps ==
  ASSUME QueueInv, NEW t \in Threads, OutsideStep(t)
  PROVE  QueueInv'
<1>1. /\ UNCHANGED <<producers, inactive, hash, hashCount, listeners, destroyed>>
      /\ pc[t] \notin Inside /\ pc'[t] \notin Inside /\ Moves(t)
      /\ \A u \in Threads : pc'[u] \in Inside => u # t /\ pc'[u] = pc[u] /\ hl'[u] = hl[u]
  BY DEF OutsideStep, tableVars, Moves
<1>2. Fresh \subseteq Inside /\ Placing \subseteq Inside
      /\ {"subscribe", "place", "relink", "leave"} \subseteq Inside
  BY DEF Inside, Fresh, Placing
<1>3. ~ destroyed
  BY DEF QueueInv, DestroyedInv, Quiet, OutsideStep
<1>4. TableInv'
  BY <1>1 DEF QueueInv, TableInv, Moves
<1>5. OwnersInv'
  BY <1>1, <1>2 DEF QueueInv, OwnersInv, Pending
<1>6. SlotsInv'
  <2> SUFFICES ASSUME NEW u \in Threads PROVE Seen(hash, u, listeners[u], pc'[u], hl'[u])
    BY <1>1 DEF SlotsInv
  <2>1. Seen(hash, u, listeners[u], pc[u], hl[u])
    BY <1>3 DEF QueueInv, SlotsInv
  <2>2. CASE u = t
    BY <1>1, <1>2, <2>1, <2>2 DEF Seen
  <2>3. CASE u # t
    BY <1>1, <2>1, <2>3 DEF Moves
  <2> QED
    BY <2>2, <2>3
<1> QED
  BY <1>1, <1>3, <1>4, <1>5, <1>6 DEF QueueInv, DestroyedInv

-----------------------------------------------------------------------------
(* Steps inside the tables.                                                *)

\* The local variables of get_or_add_implicit_producer when one of them is set.
LEMMA LocalsAre ==
  /\ NoTable \in TableLocals /\ NoTable.probe = 0
  /\ \A l \in TableLocals :
       l.main \in Nat /\ l.count \in Int /\ l.probe \in Nat /\ l.p \in Nat /\ l.ptr \in Nat
BY DEF NoTable, TableLocals

\* main is set.
LEMMA SetMain ==
  ASSUME NEW l \in TableLocals, NEW n \in Nat
  PROVE  LET v == [l EXCEPT !.main = n]
         IN  v \in TableLocals /\ v.main = n /\ v.probe = l.probe /\ v.p = l.p
BY DEF TableLocals

\* probe is set.
LEMMA SetProbe ==
  ASSUME NEW l \in TableLocals, NEW n \in Nat
  PROVE  LET v == [l EXCEPT !.probe = n]
         IN  v \in TableLocals /\ v.main = l.main /\ v.probe = n /\ v.p = l.p
BY DEF TableLocals

\* ptr is set.
LEMMA SetPtr ==
  ASSUME NEW l \in TableLocals, NEW n \in Nat
  PROVE  LET v == [l EXCEPT !.ptr = n]
         IN  v \in TableLocals /\ v.main = l.main /\ v.probe = l.probe /\ v.p = l.p
BY DEF TableLocals

\* The producer is set, and the walk over the list ended.
LEMMA SetProducer ==
  ASSUME NEW l \in TableLocals, NEW n \in Nat
  PROVE  /\ LET v == [l EXCEPT !.p = n]
            IN  v \in TableLocals /\ v.main = l.main /\ v.probe = l.probe /\ v.p = n
         /\ LET v == [l EXCEPT !.p = n, !.ptr = 0]
            IN  v \in TableLocals /\ v.main = l.main /\ v.probe = l.probe /\ v.p = n
BY DEF TableLocals

\* count is set.
LEMMA SetCount ==
  ASSUME NEW l \in TableLocals, NEW n \in Int
  PROVE  LET v == [l EXCEPT !.count = n]
         IN  v \in TableLocals /\ v.main = l.main /\ v.probe = l.probe /\ v.p = l.p
BY DEF TableLocals

\* A step of t from s to the label l.
LEMMA MovesTo ==
  ASSUME TableInv, NEW t \in Threads, NEW l, Go(t, l), NEW v, Store(t, v)
  PROVE  Moves(t) /\ pc'[t] = l /\ hl'[t] = v
BY DEF TableInv, Go, Store, Moves

\* A step of t that sets no local variable.
LEMMA MovesGo ==
  ASSUME TableInv, NEW t \in Threads, NEW l, Go(t, l), UNCHANGED hl
  PROVE  Moves(t) /\ pc'[t] = l /\ hl'[t] = hl[t]
BY DEF TableInv, Go, Moves

\* A step of t that stays at its label.
LEMMA MovesStore ==
  ASSUME TableInv, NEW t \in Threads, UNCHANGED pc, NEW v, Store(t, v)
  PROVE  Moves(t) /\ pc'[t] = pc[t] /\ hl'[t] = v
BY DEF TableInv, Store, Moves

\* A step keeps the types.
LEMMA TypesKept ==
  ASSUME TableInv, NEW t \in Threads, Moves(t), pc'[t] \in Inside => hl'[t] \in TableLocals,
         listeners' \in [Threads -> SUBSET Nat], inactive' \subseteq Nat, producers' \in Nat,
         hashCount' \in Int, hash' \in Seq(HashTable), Len(hash') > 0
  PROVE  TableInv'
BY DEF TableInv, Moves

\* A step that leaves the producers alone keeps their owners.
LEMMA OwnersKept ==
  ASSUME TableInv, OwnersInv, NEW t \in Threads, Moves(t),
         UNCHANGED <<producers, inactive, listeners>>,
         pc'[t] # "subscribe",
         pc'[t] \in Fresh => listeners[t] = {},
         pc'[t] = "place" => listeners[t] = {hl'[t].p},
         pc'[t] = "relink" => hl'[t].p \in listeners[t]
  PROVE  OwnersInv'
BY DEF OwnersInv, Moves, Pending

\* A step keeps what the others see of the tables.
LEMMA OthersKept ==
  ASSUME TableInv, SlotsInv, NEW t \in Threads, Moves(t), hash' \in Seq(HashTable),
         \A u \in Threads : u # t => listeners'[u] = listeners[u],
         \A u \in Threads : u # t => EvolvesFor(hash, hash', u) /\ NoNewFor(hash, hash', u),
         Seen(hash', t, listeners'[t], pc'[t], hl'[t])
  PROVE  SlotsInv'
<1> SUFFICES ASSUME NEW u \in Threads PROVE Seen(hash', u, listeners'[u], pc'[u], hl'[u])
  BY DEF SlotsInv
<1>1. CASE u = t
  BY <1>1
<1>2. CASE u # t
  <2>1. /\ listeners'[u] = listeners[u] /\ pc'[u] = pc[u] /\ hl'[u] = hl[u]
        /\ EvolvesFor(hash, hash', u) /\ NoNewFor(hash, hash', u) /\ hash \in Seq(HashTable)
    BY <1>2 DEF Moves, TableInv
  <2>2. /\ \A L : Linked(hash, u, L) => Linked(hash', u, L)
        /\ \A m : Unlinked(hash, u, m) => Unlinked(hash', u, m)
        /\ Reached(hash, u) => Reached(hash', u)
        /\ \A l \in TableLocals : Probing(hash, u, l) => Probing(hash', u, l)
    BY <2>1, SlotsKept
  <2>3. Seen(hash, u, listeners[u], pc[u], hl[u])
    BY DEF SlotsInv
  <2>4. pc[u] \in Fresh \cup Placing => hl[u] \in TableLocals
    BY DEF TableInv, Inside
  <2> QED
    BY <2>1, <2>2, <2>3, <2>4 DEF Seen
<1> QED
  BY <1>1, <1>2

\* The same when the tables do not change.
LEMMA OthersSame ==
  ASSUME TableInv, SlotsInv, NEW t \in Threads, Moves(t), UNCHANGED <<hash, listeners>>,
         Seen(hash, t, listeners[t], pc'[t], hl'[t])
  PROVE  SlotsInv'
<1>1. hash \in Seq(HashTable)
  BY DEF TableInv
<1>2. \A u \in Threads : EvolvesFor(hash, hash, u) /\ NoNewFor(hash, hash, u)
  BY <1>1, TablesSame
<1> QED
  BY <1>1, <1>2, OthersKept

\* The first slot of the last table is probed first.
LEMMA ProbesFirst ==
  ASSUME TableInv, NEW u, NEW l, l.main \in 1 .. Len(hash), l.probe = 0
  PROVE  Probing(hash, u, l)
<1>1. hash[l.main] \in HashTable
  BY DEF TableInv
<1>2. hash[l.main].capacity \in Nat \ {0}
  BY <1>1, TableIs
<1> QED
  BY <1>2 DEF Probing

\* Find: a thread that no table knows has no producer, and what a table knows is
\* its producer.
LEMMA FindFinds ==
  ASSUME QueueInv, NEW t \in Threads, Find(t)
  PROVE  \/ /\ Go(t, "enqueue") /\ UNCHANGED hl
            /\ \E p \in listeners[t] : Remember(t, [NoElement EXCEPT !.p = p])
         \/ \E p \in listeners[t] :
              /\ Go(t, "relink") /\ UNCHANGED ql
              /\ Store(t, [NoTable EXCEPT !.main = Len(hash), !.p = p])
         \/ /\ listeners[t] = {} /\ Go(t, "newcount")
            /\ Store(t, [NoTable EXCEPT !.main = Len(hash)]) /\ UNCHANGED ql
<1>0. /\ ~ destroyed /\ pc[t] = "idle" /\ UNCHANGED <<tableVars, destroyed>>
      /\ TableInv /\ OwnersInv /\ SlotsInv
  <2>1. ~ destroyed /\ pc[t] = "idle"
    BY DEF Find, Calls
  <2>2. UNCHANGED tableVars /\ UNCHANGED destroyed
    BY DEF Find, Frame
  <2> QED
    BY <2>1, <2>2 DEF QueueInv
<1>2. Seen(hash, t, listeners[t], "idle", hl[t])
  BY <1>0 DEF SlotsInv
<1>3. (\A h \in 1 .. Len(hash) : Found(h, t) = {}) => listeners[t] = {}
  BY <1>2, FoundIs DEF Seen, Reached
<1>4. \A h \in 1 .. Len(hash) : \A k \in Found(h, t) :
        hash[h].value[Position(h, t, k)] \in listeners[t]
  <2> SUFFICES ASSUME NEW h \in 1 .. Len(hash), NEW k \in Found(h, t)
               PROVE  hash[h].value[Position(h, t, k)] \in listeners[t]
    OBVIOUS
  <2>1. PICK n \in Nat \ {0} : n = hash[h].capacity
    BY <1>0, TableIs DEF TableInv
  <2>2. k \in FoundIn(hash[h], t) /\ k \in 0 .. n - 1 /\ Position(h, t, k) = Pos(n, t, k)
    BY <2>1, FoundIs DEF FoundIn
  <2>3. hash[h].key[Pos(n, t, k)] = t
    BY <2>1, <2>2 DEF FoundIn
  <2>4. k \in Nat
    BY <2>2
  <2>5. Pos(n, t, k) \in 0 .. n - 1
    BY <2>4, PosIs
  <2> QED
    BY <1>2, <2>1, <2>2, <2>3, <2>5 DEF Seen, Linked
<1>5. \/ \E h \in 1 .. Len(hash) : \E k \in Found(h, t) :
           LET p == hash[h].value[Position(h, t, k)] IN
           \/ Go(t, "enqueue") /\ UNCHANGED hl /\ Remember(t, [NoElement EXCEPT !.p = p])
           \/ /\ Go(t, "relink") /\ Store(t, [NoTable EXCEPT !.main = Len(hash), !.p = p])
              /\ UNCHANGED ql
      \/ /\ {h \in 1 .. Len(hash) : Found(h, t) # {}} = {}
         /\ Go(t, "newcount") /\ Store(t, [NoTable EXCEPT !.main = Len(hash)]) /\ UNCHANGED ql
  BY DEF Find
<1>6. {h \in 1 .. Len(hash) : Found(h, t) # {}} = {} => listeners[t] = {}
  BY <1>3
<1> QED
  BY <1>4, <1>5, <1>6

\* It keeps the invariant.
LEMMA FindKeeps ==
  ASSUME QueueInv, NEW t \in Threads, Find(t)
  PROVE  QueueInv'
<1>0. /\ ~ destroyed /\ pc[t] = "idle" /\ UNCHANGED <<tableVars, destroyed>>
      /\ TableInv /\ OwnersInv /\ SlotsInv
  <2>1. ~ destroyed /\ pc[t] = "idle"
    BY DEF Find, Calls
  <2>2. UNCHANGED tableVars /\ UNCHANGED destroyed
    BY DEF Find, Frame
  <2> QED
    BY <2>1, <2>2 DEF QueueInv
<1>1. PICK m \in Nat : m = Len(hash) /\ m \in 1 .. Len(hash)
  BY <1>0 DEF TableInv
<1>2. Seen(hash, t, listeners[t], "idle", hl[t])
  BY <1>0 DEF SlotsInv
<1>5. \/ Go(t, "enqueue") /\ UNCHANGED hl
      \/ \E p \in listeners[t] : Go(t, "relink") /\ Store(t, [NoTable EXCEPT !.main = m, !.p = p])
      \/ listeners[t] = {} /\ Go(t, "newcount") /\ Store(t, [NoTable EXCEPT !.main = m])
  BY <1>1, FindFinds
<1>6. CASE Go(t, "enqueue") /\ UNCHANGED hl
  <2>1. Moves(t) /\ pc'[t] = "enqueue"
    BY <1>0, <1>6, MovesGo
  <2>2. OutsideStep(t)
    BY <1>0, <2>1 DEF OutsideStep, Inside, Fresh, Placing
  <2> QED
    BY <2>2, OutsideKeeps
<1>7. ASSUME NEW p \in listeners[t], Go(t, "relink"),
             Store(t, [NoTable EXCEPT !.main = m, !.p = p])
      PROVE  QueueInv'
  <2>1. p \in Nat
    BY <1>0 DEF TableInv
  <2>2. PICK v : v = [NoTable EXCEPT !.main = m, !.p = p]
    OBVIOUS
  <2>3. v \in TableLocals /\ v.main = m /\ v.probe = 0 /\ v.p = p
    <3>1. PICK w : w = [NoTable EXCEPT !.main = m]
      OBVIOUS
    <3>2. w \in TableLocals /\ w.main = m /\ w.probe = 0
      BY <1>1, <3>1, LocalsAre, SetMain
    <3>3. v = [w EXCEPT !.p = p]
      BY <2>2, <3>1
    <3> QED
      BY <2>1, <3>2, <3>3, SetProducer
  <2>4. Moves(t) /\ pc'[t] = "relink" /\ hl'[t] = v
    BY <1>0, <1>7, <2>2, MovesTo
  <2>5. TableInv'
    BY <1>0, <2>3, <2>4, TypesKept DEF TableInv, tableVars
  <2>6. OwnersInv'
    BY <1>0, <2>3, <2>4, OwnersKept DEF tableVars, Fresh
  <2>7. Probing(hash, t, v)
    BY <1>0, <1>1, <2>3, ProbesFirst
  <2>8. Seen(hash, t, listeners[t], "relink", v)
    BY <1>2, <2>7 DEF Seen, Fresh
  <2>9. SlotsInv'
    BY <1>0, <2>4, <2>8, OthersSame DEF tableVars
  <2> QED
    BY <1>0, <2>5, <2>6, <2>9 DEF QueueInv, DestroyedInv
<1>8. CASE listeners[t] = {} /\ Go(t, "newcount") /\ Store(t, [NoTable EXCEPT !.main = m])
  <2>1. PICK v : v = [NoTable EXCEPT !.main = m]
    OBVIOUS
  <2>2. v \in TableLocals /\ v.main = m /\ v.probe = 0
    BY <1>1, <2>1, LocalsAre, SetMain
  <2>3. Moves(t) /\ pc'[t] = "newcount" /\ hl'[t] = v
    BY <1>0, <1>8, <2>1, MovesTo
  <2>4. TableInv'
    BY <1>0, <2>2, <2>3, TypesKept DEF TableInv, tableVars
  <2>5. OwnersInv'
    BY <1>0, <1>8, <2>3, OwnersKept DEF tableVars
  <2>6. Probing(hash, t, v)
    BY <1>0, <1>1, <2>2, ProbesFirst
  <2>7. Seen(hash, t, listeners[t], "newcount", v)
    BY <1>2, <1>8, <2>2, <2>6 DEF Seen
  <2>8. SlotsInv'
    BY <1>0, <2>3, <2>7, OthersSame DEF tableVars
  <2> QED
    BY <1>0, <2>4, <2>5, <2>8 DEF QueueInv, DestroyedInv
<1> QED
  BY <1>5, <1>6, <1>7, <1>8

\* A thread inside is not in a destroyed queue.
LEMMA InsideFacts ==
  ASSUME QueueInv, NEW t \in Threads, pc[t] \in Inside
  PROVE  /\ TableInv /\ OwnersInv /\ SlotsInv /\ ~ destroyed
         /\ hl[t] \in TableLocals /\ Seen(hash, t, listeners[t], pc[t], hl[t])
<1>1. "idle" \notin Inside
  BY DEF Inside, Fresh, Placing
<1>2. ~ destroyed
  BY <1>1 DEF QueueInv, DestroyedInv, Quiet
<1> QED
  BY <1>2 DEF QueueInv, TableInv, SlotsInv

\* A thread without a producer goes on with the same table or with the last one.
LEMMA FreshKeeps ==
  ASSUME QueueInv, NEW t \in Threads, pc[t] \in Fresh, Moves(t),
         pc'[t] \in Fresh, pc'[t] # "subscribe", hl'[t] \in TableLocals,
         hl'[t].probe = hl[t].probe, hl'[t].main = hl[t].main \/ hl'[t].main = Len(hash),
         UNCHANGED <<producers, inactive, hash, listeners, destroyed>>, hashCount' \in Int
  PROVE  QueueInv'
<1>0. /\ TableInv /\ OwnersInv /\ SlotsInv /\ ~ destroyed
      /\ hl[t] \in TableLocals /\ Seen(hash, t, listeners[t], pc[t], hl[t])
  BY InsideFacts DEF Inside
<1>1. TableInv'
  BY <1>0, TypesKept DEF TableInv
<1>2. pc'[t] # "place" /\ pc'[t] # "relink" /\ pc'[t] # "leave"
      /\ pc[t] # "place" /\ pc[t] # "leave"
  BY DEF Fresh
<1>3. listeners[t] = {}
  BY <1>0 DEF OwnersInv
<1>4. OwnersInv'
  BY <1>0, <1>2, <1>3, OwnersKept
<1>5. Probing(hash, t, hl'[t])
  <2>1. hl[t].main \in 1 .. Len(hash) /\ hl[t].probe = 0 /\ Len(hash) \in Nat \ {0}
    BY <1>0 DEF Seen, Probing, TableInv
  <2>2. hl'[t].main \in 1 .. Len(hash) /\ hl'[t].probe = 0
    BY <2>1
  <2> QED
    BY <1>0, <2>2, ProbesFirst
<1>6. Seen(hash, t, listeners[t], pc'[t], hl'[t])
  BY <1>0, <1>2, <1>5 DEF Seen
<1>7. SlotsInv'
  BY <1>0, <1>6, OthersSame
<1> QED
  BY <1>0, <1>1, <1>4, <1>7 DEF QueueInv, DestroyedInv

\* NewCount, Resize and Room.
LEMMA CountingKeeps ==
  ASSUME QueueInv, NEW t \in Threads, NewCount(t) \/ Resize(t) \/ Room(t)
  PROVE  QueueInv'
<1>0. pc[t] \in Fresh /\ UNCHANGED <<producers, inactive, hash, listeners, destroyed>>
  <2>1. NewCount(t) =>
          pc[t] = "newcount" /\ UNCHANGED <<producers, inactive, hash, listeners, destroyed>>
    BY DEF NewCount, Frame
  <2>2. Resize(t) =>
          pc[t] = "resize" /\ UNCHANGED <<producers, inactive, hash, listeners, destroyed>>
    BY DEF Resize, Frame
  <2>3. Room(t) =>
          pc[t] = "room" /\ UNCHANGED <<producers, inactive, hash, listeners, destroyed>>
    BY DEF Room, Frame, tableVars
  <2> QED
    BY <2>1, <2>2, <2>3 DEF Fresh
<1>1. TableInv /\ hl[t] \in TableLocals
  BY <1>0, InsideFacts DEF Inside
<1>2. hashCount \in Int /\ Len(hash) \in Nat /\ producers \in Nat
  BY <1>1 DEF TableInv
<1>3. {"newcount", "resize", "grow", "room", "recycle"} \subseteq Fresh
  BY DEF Fresh
<1>4. CASE NewCount(t)
  <2>1. Go(t, "resize") /\ Store(t, [hl[t] EXCEPT !.count = hashCount + 1])
        /\ hashCount' = hashCount + 1
    BY <1>4 DEF NewCount
  <2>2. PICK v : v = [hl[t] EXCEPT !.count = hashCount + 1]
    OBVIOUS
  <2>3. v \in TableLocals /\ v.main = hl[t].main /\ v.probe = hl[t].probe
    <3>1. PICK n \in Int : n = hashCount + 1
      BY <1>2
    <3>2. PICK l \in TableLocals : l = hl[t]
      BY <1>1
    <3>3. v = [l EXCEPT !.count = n]
      BY <2>2, <3>1, <3>2
    <3> QED
      BY <3>2, <3>3, SetCount
  <2>4. Moves(t) /\ pc'[t] = "resize" /\ hl'[t] = v
    BY <1>1, <2>1, <2>2, MovesTo
  <2> QED
    BY <1>0, <1>2, <1>3, <2>1, <2>3, <2>4, FreshKeeps
<1>5. CASE Resize(t)
  <2>1. UNCHANGED <<hl, hashCount>> /\ (Go(t, "grow") \/ Go(t, "room"))
    BY <1>5 DEF Resize
  <2>2. Moves(t) /\ (pc'[t] = "grow" \/ pc'[t] = "room") /\ hl'[t] = hl[t]
    BY <1>1, <2>1, MovesGo
  <2> QED
    BY <1>0, <1>1, <1>2, <1>3, <2>1, <2>2, FreshKeeps
<1>6. CASE Room(t)
  <2>1. /\ hashCount' = hashCount
        /\ \/ Store(t, [hl[t] EXCEPT !.ptr = producers]) /\ Go(t, "recycle")
           \/ Store(t, [hl[t] EXCEPT !.main = Len(hash)]) /\ Go(t, "resize")
    BY <1>6 DEF Room, AwaitTable, tableVars
  <2>2. CASE Store(t, [hl[t] EXCEPT !.ptr = producers]) /\ Go(t, "recycle")
    <3>1. PICK v : v = [hl[t] EXCEPT !.ptr = producers]
      OBVIOUS
    <3>2. v \in TableLocals /\ v.main = hl[t].main /\ v.probe = hl[t].probe
      BY <1>1, <1>2, <3>1, SetPtr
    <3>3. Moves(t) /\ pc'[t] = "recycle" /\ hl'[t] = v
      BY <1>1, <2>2, <3>1, MovesTo
    <3> QED
      BY <1>0, <1>2, <1>3, <2>1, <3>2, <3>3, FreshKeeps
  <2>3. CASE Store(t, [hl[t] EXCEPT !.main = Len(hash)]) /\ Go(t, "resize")
    <3>1. PICK v : v = [hl[t] EXCEPT !.main = Len(hash)]
      OBVIOUS
    <3>2. v \in TableLocals /\ v.main = Len(hash) /\ v.probe = hl[t].probe
      BY <1>1, <1>2, <3>1, SetMain
    <3>3. Moves(t) /\ pc'[t] = "resize" /\ hl'[t] = v
      BY <1>1, <2>3, <3>1, MovesTo
    <3> QED
      BY <1>0, <1>2, <1>3, <2>1, <3>2, <3>3, FreshKeeps
  <2> QED
    BY <2>1, <2>2, <2>3
<1> QED
  BY <1>4, <1>5, <1>6

\* Grow: a new table that nobody is in, the last table, or no memory.
LEMMA GrowKeeps ==
  ASSUME QueueInv, NEW t \in Threads, Grow(t)
  PROVE  QueueInv'
<1>0. /\ pc[t] = "grow" /\ UNCHANGED <<producers, inactive, listeners, destroyed>>
      /\ \/ /\ \E n \in NewCapacity(hash[Len(hash)].capacity, hl[t].count) :
                 hash' = Append(hash, NewHash(n))
            /\ Store(t, [hl[t] EXCEPT !.main = Len(hash) + 1]) /\ Go(t, "room")
            /\ hashCount' = hashCount
         \/ /\ Store(t, [hl[t] EXCEPT !.main = Len(hash)]) /\ Go(t, "room")
            /\ UNCHANGED <<hash, hashCount>>
         \/ /\ hashCount' = hashCount - 1 /\ Go(t, "idle") /\ Store(t, NoTable) /\ UNCHANGED hash
  BY DEF Grow, Returns, Frame
<1>1. /\ TableInv /\ OwnersInv /\ SlotsInv /\ ~ destroyed
      /\ hl[t] \in TableLocals /\ Seen(hash, t, listeners[t], "grow", hl[t])
  BY <1>0, InsideFacts DEF Inside, Fresh
<1>2. /\ hashCount \in Int /\ Len(hash) \in Nat \ {0} /\ hash \in Seq(HashTable)
      /\ {"grow", "room"} \subseteq Fresh
  BY <1>1 DEF TableInv, Fresh
<1>3. listeners[t] = {}
  BY <1>0, <1>1, <1>2 DEF OwnersInv
<1>4. ASSUME NEW n \in NewCapacity(hash[Len(hash)].capacity, hl[t].count),
             hash' = Append(hash, NewHash(n)),
             Store(t, [hl[t] EXCEPT !.main = Len(hash) + 1]), Go(t, "room"), hashCount' = hashCount
      PROVE  QueueInv'
  <2>1. n \in Nat \ {0}
    BY DEF NewCapacity
  <2>2. PICK v : v = [hl[t] EXCEPT !.main = Len(hash) + 1]
    OBVIOUS
  <2>3. v \in TableLocals /\ v.main = Len(hash) + 1 /\ v.probe = hl[t].probe
    <3>1. PICK m \in Nat : m = Len(hash) + 1
      BY <1>2
    <3>2. PICK l \in TableLocals : l = hl[t]
      BY <1>1
    <3>3. v = [l EXCEPT !.main = m]
      BY <2>2, <3>1, <3>2
    <3>4. v \in TableLocals /\ v.main = m /\ v.probe = l.probe
      BY ONLY <3>3, SetMain
    <3> QED
      BY <3>1, <3>2, <3>4
  <2>4. Moves(t) /\ pc'[t] = "room" /\ hl'[t] = v
    BY <1>1, <1>4, <2>2, MovesTo
  <2>5. /\ hash' \in Seq(HashTable) /\ Len(hash') = Len(hash) + 1
        /\ \A u \in Threads : EvolvesFor(hash, hash', u) /\ NoNewFor(hash, hash', u)
    BY <1>2, <1>4, <2>1, TablesGrow
  <2>6. TableInv'
    BY <1>0, <1>1, <1>2, <1>4, <2>3, <2>4, <2>5, TypesKept DEF TableInv
  <2>7. OwnersInv'
    BY <1>0, <1>1, <1>3, <2>4, OwnersKept
  <2>8. Linked(hash', t, listeners[t])
    BY <1>1, <1>2, <2>5, SlotsKept DEF Seen
  <2>9. v.probe = 0 /\ v.main \in 1 .. Len(hash')
    BY <1>1, <1>2, <2>3, <2>5 DEF Seen
  <2>10. Probing(hash', t, v)
    <3>1. hash'[v.main] \in HashTable
      BY <2>5, <2>9
    <3>2. hash'[v.main].capacity \in Nat \ {0}
      BY <3>1, TableIs
    <3> QED
      BY <2>9, <3>2 DEF Probing
  <2>11. Seen(hash', t, listeners[t], "room", v)
    BY <1>3, <2>8, <2>9, <2>10 DEF Seen
  <2>12. SlotsInv'
    BY <1>0, <1>1, <2>4, <2>5, <2>11, OthersKept
  <2> QED
    BY <1>0, <1>1, <2>6, <2>7, <2>12 DEF QueueInv, DestroyedInv
<1>5. CASE /\ Store(t, [hl[t] EXCEPT !.main = Len(hash)]) /\ Go(t, "room")
           /\ UNCHANGED <<hash, hashCount>>
  <2>1. PICK v : v = [hl[t] EXCEPT !.main = Len(hash)]
    OBVIOUS
  <2>2. v \in TableLocals /\ v.main = Len(hash) /\ v.probe = hl[t].probe
    BY <1>1, <1>2, <2>1, SetMain
  <2>3. Moves(t) /\ pc'[t] = "room" /\ hl'[t] = v
    BY <1>1, <1>5, <2>1, MovesTo
  <2> QED
    BY <1>0, <1>2, <1>5, <2>2, <2>3, FreshKeeps
<1>6. CASE /\ hashCount' = hashCount - 1 /\ Go(t, "idle") /\ Store(t, NoTable) /\ UNCHANGED hash
  <2>1. Moves(t) /\ pc'[t] = "idle" /\ hl'[t] = NoTable
    BY <1>1, <1>6, MovesTo
  <2>2. "idle" \notin Inside /\ "idle" \notin Fresh \cup Placing
    BY DEF Inside, Fresh, Placing
  <2>3. TableInv'
    BY <1>0, <1>1, <1>2, <1>6, <2>1, <2>2, TypesKept DEF TableInv
  <2>4. OwnersInv'
    BY <1>0, <1>1, <2>1, <2>2, OwnersKept
  <2>5. Seen(hash, t, listeners[t], "idle", NoTable)
    BY <1>1, <1>3, <2>2 DEF Seen
  <2>6. SlotsInv'
    BY <1>0, <1>1, <1>6, <2>1, <2>5, OthersSame
  <2> QED
    BY <1>0, <1>1, <2>3, <2>4, <2>6 DEF QueueInv, DestroyedInv
<1> QED
  BY <1>0, <1>4, <1>5, <1>6

\* A slot that is occupied where t probes is found from then on.
LEMMA OccupiedFound ==
  ASSUME NEW T \in HashTable, NEW t \in Threads, NEW k \in 0 .. T.capacity - 1, NEW p \in Nat,
         T.key[Pos(T.capacity, t, k)] \in {NoThread, Reusable},
         \A j \in 0 .. k - 1 : T.key[Pos(T.capacity, t, j)] # NoThread
  PROVE  k \in FoundIn(Occupied(T, Pos(T.capacity, t, k), t, p), t)
<1>1. PICK n \in Nat \ {0} : n = T.capacity
  BY TableIs
<1>2. k \in 0 .. n - 1 /\ k \in Nat
  BY <1>1
<1>3. PICK i \in 0 .. n - 1 : i = Pos(n, t, k)
  BY <1>2, PosIs
<1>4. PICK T1 : T1 = Occupied(T, i, t, p)
  OBVIOUS
<1>5. /\ T1.capacity = n /\ T1.key[i] = t
      /\ \A j \in 0 .. n - 1 : T.key[j] # NoThread => T1.key[j] # NoThread
  BY <1>1, <1>3, <1>4, OccupiedIs DEF Evolves
<1>6. ASSUME NEW j \in 0 .. k - 1 PROVE T1.key[Pos(n, t, j)] # NoThread
  <2>1. j \in Nat
    BY <1>2
  <2>2. Pos(n, t, j) \in 0 .. n - 1
    BY <2>1, PosIs
  <2> QED
    BY <1>1, <1>5, <2>2
<1>7. k \in FoundIn(T1, t)
  BY <1>2, <1>3, <1>5, <1>6 DEF FoundIn
<1> QED
  BY <1>1, <1>3, <1>4, <1>7

\* With it the tables still know t with its producers.
LEMMA OccupiedLinks ==
  ASSUME NEW H \in Seq(HashTable), NEW h \in 1 .. Len(H), NEW t \in Threads, NEW L \in SUBSET Nat,
         NEW p \in L, NEW k \in 0 .. H[h].capacity - 1,
         H[h].key[Pos(H[h].capacity, t, k)] \in {NoThread, Reusable},
         \A j \in 0 .. k - 1 : H[h].key[Pos(H[h].capacity, t, j)] # NoThread,
         Linked(H, t, L), NEW H1,
         Replaced(H, h, Occupied(H[h], Pos(H[h].capacity, t, k), t, p), H1)
  PROVE  Linked(H1, t, L) /\ Reached(H1, t)
<1>1. PICK T \in HashTable : T = H[h]
  OBVIOUS
<1>2. PICK n \in Nat \ {0} : n = T.capacity
  BY TableIs
<1>3. k \in 0 .. n - 1 /\ k \in Nat
  BY <1>1, <1>2
<1>4. PICK i \in 0 .. n - 1 : i = Pos(n, t, k)
  BY <1>3, PosIs
<1>5. PICK T1 : T1 = Occupied(T, i, t, p)
  OBVIOUS
<1>6. p \in Nat /\ T.key[i] \in {NoThread, Reusable}
  BY <1>1, <1>2, <1>4
<1>7. /\ T1.capacity = n /\ Evolves(T, T1, t)
      /\ \A j \in 0 .. n - 1 : /\ T1.key[j] = IF j = i THEN t ELSE T.key[j]
                               /\ T1.value[j] = IF j = i THEN p ELSE T.value[j]
  BY <1>2, <1>5, <1>6, OccupiedIs
<1>8. k \in FoundIn(T1, t)
  BY <1>1, <1>2, <1>4, <1>5, <1>6, OccupiedFound
<1>9. /\ Len(H1) = Len(H) /\ H1[h] = T1 /\ \A g \in 1 .. Len(H) : g # h => H1[g] = H[g]
  BY <1>1, <1>2, <1>4, <1>5 DEF Replaced
<1>10. ASSUME NEW j \in 0 .. n - 1, T1.key[j] = t
       PROVE  T1.value[j] \in L /\ \E m \in FoundIn(T1, t) : j = Pos(n, t, m)
  <2>1. CASE j = i
    BY <1>4, <1>7, <1>8, <2>1
  <2>2. CASE j # i
    <3>1. T.key[j] = t /\ T1.value[j] = T.value[j]
      BY <1>7, <1>10, <2>2
    <3>2. T.value[j] \in L /\ \E m \in FoundIn(T, t) : j = Pos(n, t, m)
      BY <1>1, <1>2, <3>1 DEF Linked
    <3> QED
      BY <1>7, <3>1, <3>2, FoundKept
  <2> QED
    BY <2>1, <2>2
<1>11. Linked(H1, t, L)
  <2> SUFFICES ASSUME NEW g \in 1 .. Len(H1), NEW j \in 0 .. H1[g].capacity - 1, H1[g].key[j] = t
               PROVE  /\ H1[g].value[j] \in L
                      /\ \E m \in FoundIn(H1[g], t) : j = Pos(H1[g].capacity, t, m)
    BY DEF Linked
  <2>1. CASE g = h
    BY <1>7, <1>9, <1>10, <2>1
  <2>2. CASE g # h
    BY <1>9, <2>2 DEF Linked
  <2> QED
    BY <2>1, <2>2
<1>12. Reached(H1, t)
  BY <1>8, <1>9 DEF Reached
<1> QED
  BY <1>11, <1>12

\* The assignments of Occupy replace the main table by the one with the slot occupied.
LEMMA OccupyReplaces ==
  ASSUME NEW H \in Seq(HashTable), NEW h \in 1 .. Len(H), NEW i \in 0 .. H[h].capacity - 1,
         NEW t \in Threads, NEW p \in Nat, H[h].key[i] \in {NoThread, Reusable}
  PROVE  Replaced(H, h, Occupied(H[h], i, t, p), [H EXCEPT ![h].key[i] = t, ![h].value[i] = p])
<1>1. PICK T \in HashTable : T = H[h]
  OBVIOUS
<1>2. PICK n \in Nat \ {0} :
        T \in [key : [0 .. n - 1 -> Keys], value : [0 .. n - 1 -> Nat], capacity : {n}]
  BY DEF HashTable
<1>3. [[T EXCEPT !.key[i] = t] EXCEPT !.value[i] = p] = Occupied(T, i, t, p)
  <2>1. PICK K : K = [T.key EXCEPT ![i] = t]
    OBVIOUS
  <2>2. PICK V : V = [T.value EXCEPT ![i] = p]
    OBVIOUS
  <2>3. Occupied(T, i, t, p) = [key |-> K, value |-> V, capacity |-> T.capacity]
    BY <2>1, <2>2 DEF Occupied
  <2>4. [T EXCEPT !.key = K] = [key |-> K, value |-> T.value, capacity |-> T.capacity]
    BY ONLY <1>2
  <2>5. /\ [T EXCEPT !.key = K].value = T.value
        /\ [[T EXCEPT !.key = K] EXCEPT !.value = V]
           = [key |-> K, value |-> V, capacity |-> T.capacity]
    <3>1. PICK c : c = T.capacity
      OBVIOUS
    <3>2. PICK v : v = T.value
      OBVIOUS
    <3>3. PICK R : R = [key |-> K, value |-> v, capacity |-> c]
      OBVIOUS
    <3>4. R.value = v
      BY <3>3
    <3>5. [R EXCEPT !.value = V] = [key |-> K, value |-> V, capacity |-> c]
      BY ONLY <3>3
    <3> QED
      BY <2>4, <3>1, <3>2, <3>3, <3>4, <3>5
  <2>6. [[T EXCEPT !.key[i] = t] EXCEPT !.value[i] = p] = [[T EXCEPT !.key = K] EXCEPT !.value = V]
    BY <2>1, <2>2, <2>5
  <2> QED
    BY <2>3, <2>5, <2>6
<1>4. [H EXCEPT ![h].key[i] = t, ![h].value[i] = p] = [H EXCEPT ![h] = Occupied(T, i, t, p)]
  BY <1>1, <1>3
<1>5. Occupied(T, i, t, p) \in HashTable
  BY <1>1, OccupiedIs
<1> QED
  BY <1>1, <1>4, <1>5, ReplacedIs

\* A thread that looks for a slot has one producer, and probes a slot of a table.
LEMMA PlacingFacts ==
  ASSUME QueueInv, NEW t \in Threads, pc[t] \in Placing
  PROVE  \E h \in 1 .. Len(hash) : \E k \in 0 .. hash[h].capacity - 1 :
           /\ h = hl[t].main /\ k = hl[t].probe
           /\ Position(h, t, k) = Pos(hash[h].capacity, t, k)
           /\ Pos(hash[h].capacity, t, k) \in 0 .. hash[h].capacity - 1
           /\ \A j \in 0 .. k - 1 : hash[h].key[Pos(hash[h].capacity, t, j)] # NoThread
           /\ hl[t].p \in listeners[t] /\ listeners[t] \in SUBSET Nat
<1>1. /\ TableInv /\ OwnersInv /\ hl[t] \in TableLocals
      /\ Seen(hash, t, listeners[t], pc[t], hl[t])
  BY InsideFacts DEF Inside
<1>2. hl[t].p \in listeners[t] /\ listeners[t] \in SUBSET Nat
  BY <1>1 DEF OwnersInv, TableInv, Placing
<1>3. Probing(hash, t, hl[t])
  BY <1>1 DEF Seen
<1>4. PICK h \in 1 .. Len(hash) : h = hl[t].main
  BY <1>3 DEF Probing
<1>5. PICK n \in Nat \ {0} : n = hash[h].capacity
  BY <1>1, TableIs DEF TableInv
<1>6. PICK k \in 0 .. n - 1 : k = hl[t].probe
  BY <1>3, <1>4, <1>5 DEF Probing
<1>7. k \in Nat
  OBVIOUS
<1>8. Position(h, t, k) = Pos(n, t, k) /\ Pos(n, t, k) \in 0 .. n - 1
  BY <1>5, <1>7, PosIs, FoundIs
<1>9. \A j \in 0 .. k - 1 : hash[h].key[Pos(n, t, j)] # NoThread
  BY <1>3, <1>4, <1>5, <1>6 DEF Probing
<1> QED
  BY <1>2, <1>4, <1>5, <1>6, <1>8, <1>9

\* Occupy: the slot that is taken is one that a search of t finds, and no other
\* thread's.
LEMMA OccupyKeeps ==
  ASSUME QueueInv, NEW t \in Threads, pc[t] \in Placing, Probed(t) \in {NoThread, Reusable},
         Occupy(t), UNCHANGED <<producers, inactive, listeners, destroyed>>, hashCount' \in Int
  PROVE  QueueInv'
<1>1. TableInv /\ OwnersInv /\ SlotsInv /\ ~ destroyed
  BY InsideFacts DEF Inside
<1>2. PICK h \in 1 .. Len(hash), k \in Nat :
        /\ k \in 0 .. hash[h].capacity - 1
        /\ h = hl[t].main /\ k = hl[t].probe
        /\ Position(h, t, k) = Pos(hash[h].capacity, t, k)
        /\ Pos(hash[h].capacity, t, k) \in 0 .. hash[h].capacity - 1
        /\ \A j \in 0 .. k - 1 : hash[h].key[Pos(hash[h].capacity, t, j)] # NoThread
        /\ hl[t].p \in listeners[t] /\ listeners[t] \in SUBSET Nat
  BY PlacingFacts
<1>3. PICK i \in 0 .. hash[h].capacity - 1 : i = Pos(hash[h].capacity, t, k)
  BY <1>2
<1>4. PICK p \in listeners[t] : p = hl[t].p
  BY <1>2
<1>5. hash \in Seq(HashTable) /\ p \in Nat /\ hash[h].key[i] \in {NoThread, Reusable}
  BY <1>1, <1>2, <1>3, <1>4 DEF TableInv, Probed
<1>6. PICK T : T = Occupied(hash[h], i, t, p)
  OBVIOUS
<1>7. hash' = [hash EXCEPT ![h].key[i] = t, ![h].value[i] = p]
  BY <1>2, <1>3, <1>4 DEF Occupy
<1>8. Replaced(hash, h, T, hash')
  BY <1>5, <1>6, <1>7, OccupyReplaces
<1>9. hash[h] \in HashTable
  BY <1>5
<1>10. \A u \in Threads : u # t => Evolves(hash[h], T, u) /\ NoNewKey(hash[h], T, u)
  BY <1>5, <1>6, <1>9, OccupiedIs
<1>11. \A u \in Threads : u # t => EvolvesFor(hash, hash', u) /\ NoNewFor(hash, hash', u)
  BY <1>5, <1>8, <1>10, ReplacedEvolves
<1>12. Moves(t) /\ pc'[t] = "enqueue" /\ hl'[t] = NoTable
  <2>1. Go(t, "enqueue") /\ Store(t, NoTable)
    BY DEF Occupy
  <2> QED
    BY <1>1, <2>1, MovesTo
<1>13. "enqueue" \notin Inside /\ "enqueue" \notin Fresh \cup Placing
  BY DEF Inside, Fresh, Placing
<1>14. hash' \in Seq(HashTable) /\ Len(hash') = Len(hash)
  BY <1>8 DEF Replaced
<1>15. TableInv'
  BY <1>1, <1>12, <1>13, <1>14, TypesKept DEF TableInv
<1>16. OwnersInv'
  BY <1>1, <1>12, <1>13, OwnersKept
<1>17. Linked(hash', t, listeners[t]) /\ Reached(hash', t)
  <2>1. Linked(hash, t, listeners[t])
    BY <1>1 DEF SlotsInv, Seen
  <2> QED
    BY <1>2, <1>3, <1>5, <1>6, <1>8, <2>1, OccupiedLinks
<1>18. Seen(hash', t, listeners[t], "enqueue", NoTable)
  BY <1>13, <1>17 DEF Seen
<1>19. SlotsInv'
  BY <1>1, <1>11, <1>12, <1>14, <1>18, OthersKept
<1> QED
  BY <1>1, <1>15, <1>16, <1>19 DEF QueueInv, DestroyedInv

\* ProbeNext: the slot that was probed is taken.
LEMMA ProbeKeeps ==
  ASSUME QueueInv, NEW t \in Threads, pc[t] \in Placing, Probed(t) # NoThread,
         ProbeNext(t), UNCHANGED <<producers, inactive, listeners, destroyed>>, hashCount' \in Int
  PROVE  QueueInv'
<1>1. /\ TableInv /\ OwnersInv /\ SlotsInv /\ ~ destroyed /\ hl[t] \in TableLocals
      /\ Seen(hash, t, listeners[t], pc[t], hl[t])
  BY InsideFacts DEF Inside
<1>2. PICK h \in 1 .. Len(hash), k \in Nat :
        /\ k \in 0 .. hash[h].capacity - 1
        /\ h = hl[t].main /\ k = hl[t].probe
        /\ Position(h, t, k) = Pos(hash[h].capacity, t, k)
        /\ \A j \in 0 .. k - 1 : hash[h].key[Pos(hash[h].capacity, t, j)] # NoThread
  BY PlacingFacts
<1>3. PICK n \in Nat \ {0} : n = hash[h].capacity
  BY <1>1, TableIs DEF TableInv
<1>4. PICK q \in 0 .. n - 1 : q = IF k + 1 = n THEN 0 ELSE k + 1
  BY <1>2, <1>3
<1>5. \A j \in 0 .. q - 1 : j \in 0 .. k - 1 \/ j = k
  BY <1>4
<1>6. \A j \in 0 .. q - 1 : hash[h].key[Pos(n, t, j)] # NoThread
  <2>1. hash[h].key[Pos(n, t, k)] # NoThread
    BY <1>2, <1>3 DEF Probed
  <2> QED
    BY <1>2, <1>3, <1>5, <2>1
<1>7. PICK v : v = [hl[t] EXCEPT !.probe = q]
  OBVIOUS
<1>8. v \in TableLocals /\ v.main = h /\ v.probe = q /\ v.p = hl[t].p
  BY <1>1, <1>2, <1>7, SetProbe
<1>9. Store(t, v) /\ UNCHANGED <<pc, hash>>
  <2>1. /\ Store(t, [hl[t] EXCEPT !.probe = IF hl[t].probe + 1 = hash[hl[t].main].capacity
                                             THEN 0 ELSE hl[t].probe + 1])
        /\ UNCHANGED <<pc, hash>>
    BY DEF ProbeNext
  <2>2. q = IF hl[t].probe + 1 = hash[hl[t].main].capacity THEN 0 ELSE hl[t].probe + 1
    BY <1>2, <1>3, <1>4
  <2> QED
    BY <1>7, <2>1, <2>2
<1>10. Moves(t) /\ pc'[t] = pc[t] /\ hl'[t] = v
  BY <1>1, <1>9, MovesStore
<1>11. TableInv'
  BY <1>1, <1>8, <1>9, <1>10, TypesKept DEF TableInv
<1>12. OwnersInv'
  <2>1. /\ pc[t] # "subscribe" /\ pc[t] \notin Fresh
        /\ pc[t] = "place" => listeners[t] = {hl[t].p}
        /\ pc[t] = "relink" => hl[t].p \in listeners[t]
    BY <1>1 DEF OwnersInv, Placing, Fresh
  <2> QED
    BY <1>1, <1>8, <1>10, <2>1, OwnersKept
<1>13. Probing(hash, t, v)
  BY <1>3, <1>6, <1>8 DEF Probing
<1>14. Seen(hash, t, listeners[t], pc[t], v)
  <2>1. pc[t] \notin Fresh /\ pc[t] # "leave"
    BY DEF Placing, Fresh
  <2> QED
    BY <1>1, <1>13, <2>1 DEF Seen
<1>15. SlotsInv'
  BY <1>1, <1>9, <1>10, <1>14, OthersSame
<1> QED
  BY <1>1, <1>11, <1>12, <1>15 DEF QueueInv, DestroyedInv

\* Relink and Place.
LEMMA PlaceKeeps ==
  ASSUME QueueInv, NEW t \in Threads, Relink(t) \/ Place(t)
  PROVE  QueueInv'
<1>1. pc[t] \in Placing /\ UNCHANGED <<producers, inactive, listeners, destroyed>>
  <2>1. Relink(t) => pc[t] = "relink" /\ UNCHANGED <<producers, inactive, listeners, destroyed>>
    BY DEF Relink, Frame
  <2>2. Place(t) => pc[t] = "place" /\ UNCHANGED <<producers, inactive, listeners, destroyed>>
    BY DEF Place, Frame
  <2> QED
    BY <2>1, <2>2 DEF Placing
<1>2. hashCount \in Int
  BY <1>1, InsideFacts DEF Inside, TableInv
<1>3. NoThread \notin Threads
  BY HashAssumption
<1>4. \/ Probed(t) \in {NoThread, Reusable} /\ Occupy(t)
      \/ Probed(t) # NoThread /\ ProbeNext(t)
  BY <1>3 DEF Relink, Place
<1>5. hashCount' = hashCount \/ hashCount' = hashCount - 1
  BY DEF Relink, Place
<1> QED
  BY <1>1, <1>2, <1>4, <1>5, OccupyKeeps, ProbeKeeps

\* A thread without a producer takes p, which nobody has and nobody else takes.
LEMMA TakeKeeps ==
  ASSUME QueueInv, NEW t \in Threads, pc[t] = "recycle", Moves(t), pc'[t] = "subscribe",
         hl'[t] \in TableLocals, hl'[t].probe = hl[t].probe, hl'[t].main = hl[t].main,
         producers' \in Nat, producers <= producers', inactive' \subseteq inactive,
         hl'[t].p \in 1 .. producers', hl'[t].p \notin inactive',
         \A u \in Threads : hl'[t].p \notin listeners[u],
         \A u \in Threads : Pending(u) => hl[u].p # hl'[t].p,
         UNCHANGED <<hash, hashCount, listeners, destroyed>>
  PROVE  QueueInv'
<1>1. /\ TableInv /\ OwnersInv /\ SlotsInv /\ ~ destroyed /\ hl[t] \in TableLocals
      /\ Seen(hash, t, listeners[t], "recycle", hl[t])
  BY InsideFacts DEF Inside, Fresh
<1>2. TableInv'
  BY <1>1, TypesKept DEF TableInv
<1>3. "recycle" \in Fresh /\ "subscribe" \in Fresh /\ "subscribe" \notin Placing
  BY DEF Fresh, Placing
<1>4. listeners[t] = {}
  BY <1>1, <1>3 DEF OwnersInv
<1>5. \A q : q \in 1 .. producers => q \in 1 .. producers'
  BY <1>1 DEF TableInv
<1>6. inactive' \subseteq 1 .. producers'
  BY <1>1, <1>5 DEF OwnersInv
<1>7. ASSUME NEW u \in Threads
      PROVE  /\ listeners'[u] \subseteq 1 .. producers' /\ listeners'[u] \cap inactive' = {}
             /\ \A p, q \in listeners'[u] : p = q
             /\ \A w \in Threads : w # u => listeners'[u] \cap listeners'[w] = {}
             /\ pc'[u] \in Fresh => listeners'[u] = {}
             /\ pc'[u] = "place" => listeners'[u] = {hl'[u].p}
             /\ pc'[u] = "relink" => hl'[u].p \in listeners'[u]
  <2>1. /\ listeners[u] \subseteq 1 .. producers /\ listeners[u] \cap inactive = {}
        /\ \A p, q \in listeners[u] : p = q
        /\ \A w \in Threads : w # u => listeners[u] \cap listeners[w] = {}
        /\ pc[u] \in Fresh => listeners[u] = {}
        /\ pc[u] = "place" => listeners[u] = {hl[u].p}
        /\ pc[u] = "relink" => hl[u].p \in listeners[u]
    BY <1>1 DEF OwnersInv
  <2>2. u # t => pc'[u] = pc[u] /\ hl'[u] = hl[u]
    BY DEF Moves
  <2>3. listeners' = listeners
    OBVIOUS
  <2> QED
    BY <1>4, <1>5, <2>1, <2>2, <2>3
<1>8. ASSUME NEW u \in Threads, pc'[u] = "subscribe"
      PROVE  /\ hl'[u].p \in 1 .. producers' /\ hl'[u].p \notin inactive'
             /\ \A w \in Threads : hl'[u].p \notin listeners'[w]
             /\ \A w \in Threads : pc'[w] = "subscribe" /\ w # u => hl'[w].p # hl'[u].p
  <2>1. CASE u = t
    BY <2>1 DEF Moves, Pending
  <2>2. CASE u # t
    <3>1. Pending(u) /\ hl'[u] = hl[u]
      BY <1>8, <2>2 DEF Moves, Pending
    <3>2. /\ hl[u].p \in 1 .. producers /\ hl[u].p \notin inactive
          /\ \A w \in Threads : hl[u].p \notin listeners[w]
          /\ \A w \in Threads : Pending(w) /\ w # u => hl[w].p # hl[u].p
      BY <1>1, <3>1 DEF OwnersInv
    <3>3. \A w \in Threads : w # t /\ pc'[w] = "subscribe" => Pending(w) /\ hl'[w] = hl[w]
      BY DEF Moves, Pending
    <3> QED
      BY <1>5, <3>1, <3>2, <3>3
  <2> QED
    BY <2>1, <2>2
<1>9. OwnersInv'
  BY <1>6, <1>7, <1>8 DEF OwnersInv, Pending
<1>10. Probing(hash, t, hl'[t])
  <2>1. Probing(hash, t, hl[t])
    BY <1>1, <1>3 DEF Seen
  <2> QED
    BY <2>1 DEF Probing
<1>11. Seen(hash, t, listeners[t], "subscribe", hl'[t])
  BY <1>1, <1>3, <1>4, <1>10 DEF Seen
<1>12. SlotsInv'
  BY <1>1, <1>11, OthersSame
<1> QED
  BY <1>1, <1>2, <1>9, <1>12 DEF QueueInv, DestroyedInv

\* Recycle: an inactive producer is taken by one thread.
LEMMA RecycleKeeps ==
  ASSUME QueueInv, NEW t \in Threads, Recycle(t)
  PROVE  QueueInv'
<1>0. /\ pc[t] = "recycle" /\ hl[t].ptr # 0
      /\ UNCHANGED <<producers, hash, hashCount, listeners, destroyed>>
      /\ \/ /\ hl[t].ptr \in inactive /\ inactive' = inactive \ {hl[t].ptr}
            /\ Store(t, [hl[t] EXCEPT !.p = hl[t].ptr, !.ptr = 0]) /\ Go(t, "subscribe")
         \/ Store(t, [hl[t] EXCEPT !.ptr = hl[t].ptr - 1]) /\ UNCHANGED <<inactive, pc>>
  BY DEF Recycle, Frame
<1>1. /\ TableInv /\ OwnersInv /\ hl[t] \in TableLocals
  BY <1>0, InsideFacts DEF Inside, Fresh
<1>2. PICK p \in Nat \ {0} : p = hl[t].ptr
  BY <1>0, <1>1, LocalsAre
<1>3. CASE /\ hl[t].ptr \in inactive /\ inactive' = inactive \ {hl[t].ptr}
           /\ Store(t, [hl[t] EXCEPT !.p = hl[t].ptr, !.ptr = 0]) /\ Go(t, "subscribe")
  <2>1. PICK v : v = [hl[t] EXCEPT !.p = p, !.ptr = 0]
    OBVIOUS
  <2>2. v \in TableLocals /\ v.main = hl[t].main /\ v.probe = hl[t].probe /\ v.p = p
    BY <1>1, <2>1, SetProducer
  <2>3. Moves(t) /\ pc'[t] = "subscribe" /\ hl'[t] = v
    BY <1>1, <1>2, <1>3, <2>1, MovesTo
  <2>4. p \in inactive /\ inactive' = inactive \ {p}
    BY <1>2, <1>3
  <2>5. /\ p \in 1 .. producers
        /\ \A u \in Threads : p \notin listeners[u]
        /\ \A u \in Threads : Pending(u) => hl[u].p # p
    BY <1>1, <2>4 DEF OwnersInv
  <2>6. producers \in Nat /\ producers <= producers
    BY <1>1 DEF TableInv
  <2> QED
    BY <1>0, <2>2, <2>3, <2>4, <2>5, <2>6, TakeKeeps
<1>4. CASE Store(t, [hl[t] EXCEPT !.ptr = hl[t].ptr - 1]) /\ UNCHANGED <<inactive, pc>>
  <2>1. PICK v : v = [hl[t] EXCEPT !.ptr = p - 1]
    OBVIOUS
  <2>2. p - 1 \in Nat
    OBVIOUS
  <2>3. v \in TableLocals /\ v.main = hl[t].main /\ v.probe = hl[t].probe
    BY <1>1, <2>1, <2>2, SetPtr
  <2>4. Moves(t) /\ pc'[t] = "recycle" /\ hl'[t] = v
    BY <1>0, <1>1, <1>2, <1>4, <2>1, MovesStore
  <2>5. "recycle" \in Fresh /\ hashCount' \in Int
    BY <1>0, <1>1 DEF Fresh, TableInv
  <2> QED
    BY <1>0, <1>4, <2>3, <2>4, <2>5, FreshKeeps
<1> QED
  BY <1>0, <1>3, <1>4

\* AddProducer: a new producer has nobody yet.
LEMMA AddProducerKeeps ==
  ASSUME QueueInv, NEW t \in Threads, AddProducer(t)
  PROVE  QueueInv'
<1>0. /\ pc[t] = "recycle" /\ producers' = producers + 1
      /\ UNCHANGED <<inactive, hash, hashCount, listeners, destroyed>>
      /\ Store(t, [hl[t] EXCEPT !.p = producers + 1]) /\ Go(t, "subscribe")
  BY DEF AddProducer, Frame
<1>1. /\ TableInv /\ OwnersInv /\ hl[t] \in TableLocals
  BY <1>0, InsideFacts DEF Inside, Fresh
<1>2. PICK p \in Nat : p = producers + 1
  BY <1>1 DEF TableInv
<1>3. PICK v : v = [hl[t] EXCEPT !.p = p]
  OBVIOUS
<1>4. v \in TableLocals /\ v.main = hl[t].main /\ v.probe = hl[t].probe /\ v.p = p
  BY <1>1, <1>3, SetProducer
<1>5. Moves(t) /\ pc'[t] = "subscribe" /\ hl'[t] = v
  BY <1>0, <1>1, <1>2, <1>3, MovesTo
<1>6. p \notin 1 .. producers /\ p \in 1 .. p /\ producers \in Nat /\ producers <= p
  BY <1>1, <1>2 DEF TableInv
<1>7. /\ p \notin inactive
      /\ \A u \in Threads : p \notin listeners[u]
      /\ \A u \in Threads : Pending(u) => hl[u].p # p
  BY <1>1, <1>6 DEF OwnersInv
<1> QED
  BY <1>0, <1>2, <1>4, <1>5, <1>6, <1>7, TakeKeeps

\* Subscribe: the producer that was taken is the only one of the thread.
LEMMA SubscribeKeeps ==
  ASSUME QueueInv, NEW t \in Threads, Subscribe(t)
  PROVE  QueueInv'
<1>0. /\ pc[t] = "subscribe" /\ UNCHANGED <<producers, inactive, hash, hashCount, destroyed, hl>>
      /\ listeners' = [listeners EXCEPT ![t] = listeners[t] \cup {hl[t].p}] /\ Go(t, "place")
  BY DEF Subscribe, NotifierSubscribe, Frame
<1>1. /\ TableInv /\ OwnersInv /\ SlotsInv /\ ~ destroyed /\ hl[t] \in TableLocals
      /\ Seen(hash, t, listeners[t], "subscribe", hl[t])
  BY <1>0, InsideFacts DEF Inside, Fresh
<1>2. PICK p \in Nat : p = hl[t].p
  BY <1>1, LocalsAre
<1>3. "subscribe" \in Fresh /\ "place" \notin Fresh /\ "place" \in Placing
  BY DEF Fresh, Placing
<1>4. /\ listeners[t] = {} /\ p \in 1 .. producers /\ p \notin inactive
      /\ \A u \in Threads : p \notin listeners[u]
      /\ \A u \in Threads : Pending(u) /\ u # t => hl[u].p # p
  BY <1>0, <1>1, <1>2, <1>3 DEF OwnersInv, Pending
<1>5. /\ listeners' \in [Threads -> SUBSET Nat] /\ listeners'[t] = {p}
      /\ \A u \in Threads : u # t => listeners'[u] = listeners[u]
  BY <1>0, <1>1, <1>2, <1>4 DEF TableInv
<1>6. Moves(t) /\ pc'[t] = "place" /\ hl'[t] = hl[t]
  BY <1>0, <1>1, MovesGo
<1>7. TableInv'
  BY <1>0, <1>1, <1>5, <1>6, TypesKept DEF TableInv
<1>8. ASSUME NEW u \in Threads
      PROVE  /\ listeners'[u] \subseteq 1 .. producers /\ listeners'[u] \cap inactive = {}
             /\ \A q, r \in listeners'[u] : q = r
             /\ \A w \in Threads : w # u => listeners'[u] \cap listeners'[w] = {}
             /\ pc'[u] \in Fresh => listeners'[u] = {}
             /\ pc'[u] = "place" => listeners'[u] = {hl'[u].p}
             /\ pc'[u] = "relink" => hl'[u].p \in listeners'[u]
  <2>1. CASE u = t
    BY <1>2, <1>3, <1>4, <1>5, <1>6, <2>1
  <2>2. CASE u # t
    <3>1. /\ listeners[u] \subseteq 1 .. producers /\ listeners[u] \cap inactive = {}
          /\ \A q, r \in listeners[u] : q = r
          /\ \A w \in Threads : w # u => listeners[u] \cap listeners[w] = {}
          /\ pc[u] \in Fresh => listeners[u] = {}
          /\ pc[u] = "place" => listeners[u] = {hl[u].p}
          /\ pc[u] = "relink" => hl[u].p \in listeners[u]
      BY <1>1 DEF OwnersInv
    <3>2. pc'[u] = pc[u] /\ hl'[u] = hl[u]
      BY <1>6, <2>2 DEF Moves
    <3> QED
      BY <1>4, <1>5, <2>2, <3>1, <3>2
  <2> QED
    BY <2>1, <2>2
<1>9. ASSUME NEW u \in Threads, pc'[u] = "subscribe"
      PROVE  /\ hl'[u].p \in 1 .. producers /\ hl'[u].p \notin inactive
             /\ \A w \in Threads : hl'[u].p \notin listeners'[w]
             /\ \A w \in Threads : pc'[w] = "subscribe" /\ w # u => hl'[w].p # hl'[u].p
  <2>1. u # t
    BY <1>6, <1>9
  <2>2. \A w \in Threads : pc'[w] = "subscribe" => w # t /\ Pending(w) /\ hl'[w] = hl[w]
    BY <1>6 DEF Moves, Pending
  <2>3. /\ hl[u].p \in 1 .. producers /\ hl[u].p \notin inactive
        /\ \A w \in Threads : hl[u].p \notin listeners[w]
        /\ \A w \in Threads : Pending(w) /\ w # u => hl[w].p # hl[u].p
    BY <1>1, <1>9, <2>2 DEF OwnersInv
  <2>4. hl[u].p # p
    BY <1>4, <1>9, <2>1, <2>2
  <2> QED
    BY <1>5, <1>9, <2>2, <2>3, <2>4
<1>10. OwnersInv'
  BY <1>0, <1>1, <1>8, <1>9 DEF OwnersInv, Pending
<1>11. Seen(hash, t, {p}, "place", hl[t])
  <2>1. Linked(hash, t, {}) /\ Probing(hash, t, hl[t])
    BY <1>1, <1>3, <1>4 DEF Seen
  <2>2. Linked(hash, t, {p})
    BY <2>1 DEF Linked
  <2> QED
    BY <1>3, <2>1, <2>2 DEF Seen
<1>12. SlotsInv'
  <2>1. hash \in Seq(HashTable)
    BY <1>1 DEF TableInv
  <2>2. \A u \in Threads : EvolvesFor(hash, hash, u) /\ NoNewFor(hash, hash, u)
    BY <2>1, TablesSame
  <2>3. \A u \in Threads : u # t => EvolvesFor(hash, hash', u) /\ NoNewFor(hash, hash', u)
    BY <1>0, <2>2
  <2>4. Seen(hash', t, listeners'[t], pc'[t], hl'[t]) /\ hash' \in Seq(HashTable)
    BY <1>0, <1>5, <1>6, <1>11, <2>1
  <2> QED
    BY <1>1, <1>5, <1>6, <2>3, <2>4, OthersKept
<1> QED
  BY <1>0, <1>1, <1>7, <1>10, <1>12 DEF QueueInv, DestroyedInv

\* Exit: no table has been left yet.
LEMMA ExitKeeps ==
  ASSUME QueueInv, NEW t \in Threads, Exit(t)
  PROVE  QueueInv'
<1>0. /\ pc[t] = "idle" /\ ~ destroyed
      /\ UNCHANGED <<producers, inactive, hash, hashCount, listeners, destroyed>>
      /\ Store(t, [NoTable EXCEPT !.main = Len(hash)]) /\ Go(t, "leave")
  BY DEF Exit, Calls, Frame
<1>1. TableInv /\ OwnersInv /\ SlotsInv /\ Seen(hash, t, listeners[t], "idle", hl[t])
  BY <1>0 DEF QueueInv, SlotsInv
<1>2. PICK m \in Nat : m = Len(hash)
  BY <1>1 DEF TableInv
<1>3. PICK v : v = [NoTable EXCEPT !.main = m]
  OBVIOUS
<1>4. v \in TableLocals /\ v.main = m
  BY <1>3, LocalsAre, SetMain
<1>5. Moves(t) /\ pc'[t] = "leave" /\ hl'[t] = v
  BY <1>0, <1>1, <1>2, <1>3, MovesTo
<1>6. TableInv'
  BY <1>0, <1>1, <1>4, <1>5, TypesKept DEF TableInv
<1>7. "leave" \notin Fresh /\ "leave" \notin Placing
  BY DEF Fresh, Placing
<1>8. OwnersInv'
  BY <1>0, <1>1, <1>5, <1>7, OwnersKept
<1>9. Unlinked(hash, t, m)
  BY <1>2 DEF Unlinked
<1>10. Seen(hash, t, listeners[t], "leave", v)
  BY <1>1, <1>4, <1>7, <1>9 DEF Seen
<1>11. SlotsInv'
  BY <1>0, <1>1, <1>5, <1>10, OthersSame
<1> QED
  BY <1>0, <1>6, <1>8, <1>11 DEF QueueInv, DestroyedInv

\* The assignment of Leave replaces a table by the one whose slots of t are given up.
LEMMA LeaveReplaces ==
  ASSUME NEW h \in 1 .. Len(hash), NEW t \in Threads, hash \in Seq(HashTable)
  PROVE  Replaced(hash, h, Vacated(hash[h], t),
           [hash EXCEPT ![h].key =
              [i \in DOMAIN @ |-> IF \E k \in Found(h, t) : i = Position(h, t, k)
                                  THEN Reusable ELSE @[i]]])
<1>1. PICK T \in HashTable : T = hash[h]
  OBVIOUS
<1>2. PICK n \in Nat \ {0} :
        /\ n = T.capacity
        /\ T \in [key : [0 .. n - 1 -> Keys], value : [0 .. n - 1 -> Nat], capacity : {n}]
  BY DEF HashTable
<1>3. \A i : (\E k \in Found(h, t) : i = Position(h, t, k))
             <=> (\E k \in FoundIn(T, t) : i = Pos(n, t, k))
  <2>1. Found(h, t) = FoundIn(T, t) /\ \A k : Position(h, t, k) = Pos(n, t, k)
    BY <1>1, <1>2, FoundIs
  <2> QED
    BY ONLY <2>1
<1>4. PICK K : K = [i \in 0 .. n - 1 |-> IF \E k \in FoundIn(T, t) : i = Pos(n, t, k)
                                         THEN Reusable ELSE T.key[i]]
  OBVIOUS
<1>5. [i \in DOMAIN T.key |-> IF \E k \in Found(h, t) : i = Position(h, t, k)
                              THEN Reusable ELSE T.key[i]] = K
  BY <1>2, <1>3, <1>4
<1>6. [T EXCEPT !.key = K] = Vacated(T, t)
  <2>1. Vacated(T, t) = [key |-> K, value |-> T.value, capacity |-> n]
    BY <1>2, <1>4 DEF Vacated
  <2>2. [T EXCEPT !.key = K] = [key |-> K, value |-> T.value, capacity |-> n]
    BY ONLY <1>2
  <2> QED
    BY <2>1, <2>2
<1>7. [hash EXCEPT ![h].key =
         [i \in DOMAIN @ |-> IF \E k \in Found(h, t) : i = Position(h, t, k)
                             THEN Reusable ELSE @[i]]] = [hash EXCEPT ![h] = Vacated(T, t)]
  BY <1>1, <1>5, <1>6
<1>8. Vacated(T, t) \in HashTable
  BY VacatedIs
<1> QED
  BY <1>1, <1>7, <1>8, ReplacedIs

\* A table that t has left has no key of t, since a search finds all of them.
LEMMA VacatedLinks ==
  ASSUME NEW H \in Seq(HashTable), NEW h \in 1 .. Len(H), NEW t \in Threads, NEW L,
         Linked(H, t, L), Unlinked(H, t, h), NEW H1, Replaced(H, h, Vacated(H[h], t), H1)
  PROVE  Linked(H1, t, L) /\ Unlinked(H1, t, h - 1)
<1>1. PICK T \in HashTable : T = H[h]
  OBVIOUS
<1>2. PICK T1 : T1 = Vacated(T, t)
  OBVIOUS
<1>3. PICK n \in Nat \ {0} : n = T.capacity
  BY TableIs
<1>4. /\ T1.capacity = n /\ NoNewKey(T, T1, t)
      /\ \A i \in 0 .. n - 1 : T1.key[i] = t => ~ \E k \in FoundIn(T, t) : i = Pos(n, t, k)
  BY <1>2, <1>3, VacatedIs
<1>5. \A i \in 0 .. n - 1 : T1.key[i] # t
  <2>1. \A i \in 0 .. n - 1 : T.key[i] = t => \E k \in FoundIn(T, t) : i = Pos(n, t, k)
    BY <1>1, <1>3 DEF Linked
  <2>2. \A i \in 0 .. n - 1 : T1.key[i] = t => T.key[i] = t
    BY <1>3, <1>4 DEF NoNewKey
  <2> QED
    BY <1>4, <2>1, <2>2
<1>6. /\ Len(H1) = Len(H) /\ H1[h] = T1 /\ \A g \in 1 .. Len(H) : g # h => H1[g] = H[g]
  BY <1>1, <1>2 DEF Replaced
<1>7. \A i \in 0 .. H1[h].capacity - 1 : H1[h].key[i] # t
  BY <1>4, <1>5, <1>6
<1>8. Linked(H1, t, L)
  <2> SUFFICES ASSUME NEW g \in 1 .. Len(H1), NEW j \in 0 .. H1[g].capacity - 1, H1[g].key[j] = t
               PROVE  /\ H1[g].value[j] \in L
                      /\ \E m \in FoundIn(H1[g], t) : j = Pos(H1[g].capacity, t, m)
    BY DEF Linked
  <2>1. g # h
    BY <1>7
  <2> QED
    BY <1>6, <2>1 DEF Linked
<1>9. Unlinked(H1, t, h - 1)
  <2>1. Len(H) \in Nat /\ h - 1 \in 0 .. Len(H1)
    BY <1>6
  <2>2. ASSUME NEW g \in 1 .. Len(H1), NEW i \in 0 .. H1[g].capacity - 1, g > h - 1
        PROVE  H1[g].key[i] # t
    <3>1. CASE g = h
      BY <1>7, <3>1
    <3>2. CASE g # h
      <4>1. g > h /\ H1[g] = H[g] /\ g \in 1 .. Len(H)
        BY <1>6, <2>2, <3>2
      <4> QED
        BY <4>1 DEF Unlinked
    <3> QED
      BY <3>1, <3>2
  <2> QED
    BY <2>1, <2>2 DEF Unlinked
<1> QED
  BY <1>8, <1>9

\* Leave.
LEMMA LeaveKeeps ==
  ASSUME QueueInv, NEW t \in Threads, Leave(t)
  PROVE  QueueInv'
<1>0. /\ pc[t] = "leave" /\ hl[t].main # 0
      /\ UNCHANGED <<pc, producers, inactive, hashCount, listeners, destroyed>>
      /\ Store(t, [hl[t] EXCEPT !.main = hl[t].main - 1])
  BY DEF Leave, Frame
<1>1. /\ TableInv /\ OwnersInv /\ SlotsInv /\ ~ destroyed /\ hl[t] \in TableLocals
      /\ Seen(hash, t, listeners[t], "leave", hl[t])
  BY <1>0, InsideFacts DEF Inside
<1>2. hash \in Seq(HashTable) /\ hashCount \in Int
  BY <1>1 DEF TableInv
<1>3. Linked(hash, t, listeners[t]) /\ Unlinked(hash, t, hl[t].main)
  BY <1>1 DEF Seen
<1>4. PICK h \in 1 .. Len(hash) : h = hl[t].main /\ h - 1 \in Nat
  BY <1>0, <1>2, <1>3 DEF Unlinked
<1>5. PICK T : T = Vacated(hash[h], t)
  OBVIOUS
<1>6. Replaced(hash, h, T, hash')
  <2>1. hash' = [hash EXCEPT ![h].key =
          [i \in DOMAIN @ |-> IF \E k \in Found(h, t) : i = Position(h, t, k)
                              THEN Reusable ELSE @[i]]]
    BY <1>4 DEF Leave
  <2> QED
    BY <1>2, <1>5, <2>1, LeaveReplaces
<1>7. hash' \in Seq(HashTable) /\ Len(hash') = Len(hash)
  BY <1>6 DEF Replaced
<1>8. \A u \in Threads : u # t => EvolvesFor(hash, hash', u) /\ NoNewFor(hash, hash', u)
  <2>1. hash[h] \in HashTable
    BY <1>2
  <2>2. \A u \in Threads : u # t => Evolves(hash[h], T, u) /\ NoNewKey(hash[h], T, u)
    BY <1>5, <2>1, VacatedIs
  <2> QED
    BY <1>2, <1>6, <2>2, ReplacedEvolves
<1>9. Linked(hash', t, listeners[t]) /\ Unlinked(hash', t, h - 1)
  BY <1>2, <1>3, <1>4, <1>5, <1>6, VacatedLinks
<1>10. PICK v : v = [hl[t] EXCEPT !.main = h - 1]
  OBVIOUS
<1>11. v \in TableLocals /\ v.main = h - 1
  BY <1>1, <1>4, <1>10, SetMain
<1>12. Moves(t) /\ pc'[t] = "leave" /\ hl'[t] = v
  BY <1>0, <1>1, <1>4, <1>10, MovesStore
<1>13. TableInv'
  BY <1>0, <1>1, <1>2, <1>7, <1>11, <1>12, TypesKept DEF TableInv
<1>14. "leave" \notin Fresh /\ "leave" \notin Placing
  BY DEF Fresh, Placing
<1>15. OwnersInv'
  BY <1>0, <1>1, <1>12, <1>14, OwnersKept
<1>16. Seen(hash', t, listeners[t], "leave", v)
  BY <1>9, <1>11, <1>14 DEF Seen
<1>17. SlotsInv'
  BY <1>0, <1>1, <1>7, <1>8, <1>12, <1>16, OthersKept
<1> QED
  BY <1>0, <1>1, <1>13, <1>15, <1>17 DEF QueueInv, DestroyedInv

\* ExitReturns: no table knows t any more, and its producer has no user.
LEMMA ExitReturnsKeeps ==
  ASSUME QueueInv, NEW t \in Threads, ExitReturns(t)
  PROVE  QueueInv'
<1>0. /\ pc[t] = "leave" /\ hl[t].main = 0
      /\ UNCHANGED <<producers, hash, hashCount, destroyed>>
      /\ inactive' = inactive \cup listeners[t]
      /\ listeners' = [listeners EXCEPT ![t] = {}]
      /\ Store(t, NoTable) /\ Go(t, "idle")
  BY DEF ExitReturns, Returns, Frame
<1>1. /\ TableInv /\ OwnersInv /\ SlotsInv /\ ~ destroyed
      /\ Seen(hash, t, listeners[t], "leave", hl[t])
  BY <1>0, InsideFacts DEF Inside
<1>2. Moves(t) /\ pc'[t] = "idle"
  BY <1>0, <1>1, MovesTo
<1>3. "idle" \notin Inside /\ "idle" \notin Fresh /\ "idle" \notin Placing
  BY DEF Inside, Fresh, Placing
<1>4. /\ listeners' \in [Threads -> SUBSET Nat] /\ listeners'[t] = {}
      /\ \A u \in Threads : u # t => listeners'[u] = listeners[u]
      /\ inactive' \subseteq Nat
  BY <1>0, <1>1 DEF TableInv
<1>5. TableInv'
  BY <1>0, <1>1, <1>2, <1>3, <1>4, TypesKept DEF TableInv
<1>6. ASSUME NEW u \in Threads
      PROVE  /\ listeners'[u] \subseteq 1 .. producers /\ listeners'[u] \cap inactive' = {}
             /\ \A q, r \in listeners'[u] : q = r
             /\ \A w \in Threads : w # u => listeners'[u] \cap listeners'[w] = {}
             /\ pc'[u] \in Fresh => listeners'[u] = {}
             /\ pc'[u] = "place" => listeners'[u] = {hl'[u].p}
             /\ pc'[u] = "relink" => hl'[u].p \in listeners'[u]
  <2>1. CASE u = t
    BY <1>2, <1>4, <2>1
  <2>2. CASE u # t
    <3>1. /\ listeners[u] \subseteq 1 .. producers /\ listeners[u] \cap inactive = {}
          /\ \A q, r \in listeners[u] : q = r
          /\ \A w \in Threads : w # u => listeners[u] \cap listeners[w] = {}
          /\ pc[u] \in Fresh => listeners[u] = {}
          /\ pc[u] = "place" => listeners[u] = {hl[u].p}
          /\ pc[u] = "relink" => hl[u].p \in listeners[u]
      BY <1>1 DEF OwnersInv
    <3>2. pc'[u] = pc[u] /\ hl'[u] = hl[u]
      BY <1>2, <2>2 DEF Moves
    <3> QED
      BY <1>0, <1>4, <2>2, <3>1, <3>2
  <2> QED
    BY <2>1, <2>2
<1>7. ASSUME NEW u \in Threads, pc'[u] = "subscribe"
      PROVE  /\ hl'[u].p \in 1 .. producers /\ hl'[u].p \notin inactive'
             /\ \A w \in Threads : hl'[u].p \notin listeners'[w]
             /\ \A w \in Threads : pc'[w] = "subscribe" /\ w # u => hl'[w].p # hl'[u].p
  <2>1. \A w \in Threads : pc'[w] = "subscribe" => w # t /\ Pending(w) /\ hl'[w] = hl[w]
    BY <1>2 DEF Moves, Pending
  <2>2. /\ hl[u].p \in 1 .. producers /\ hl[u].p \notin inactive
        /\ \A w \in Threads : hl[u].p \notin listeners[w]
        /\ \A w \in Threads : Pending(w) /\ w # u => hl[w].p # hl[u].p
    BY <1>1, <1>7, <2>1 DEF OwnersInv
  <2> QED
    BY <1>0, <1>4, <1>7, <2>1, <2>2
<1>8. inactive' \subseteq 1 .. producers
  BY <1>0, <1>1 DEF OwnersInv
<1>9. OwnersInv'
  BY <1>0, <1>6, <1>7, <1>8 DEF OwnersInv, Pending
<1>10. \A h \in 1 .. Len(hash) : \A i \in 0 .. hash[h].capacity - 1 : hash[h].key[i] # t
  BY <1>0, <1>1 DEF Seen, Unlinked
<1>11. Linked(hash, t, {})
  BY <1>10 DEF Linked
<1>12. Seen(hash, t, {}, "idle", hl'[t])
  BY <1>3, <1>11 DEF Seen
<1>13. SlotsInv'
  <2>1. hash \in Seq(HashTable)
    BY <1>1 DEF TableInv
  <2>2. \A u \in Threads : EvolvesFor(hash, hash, u) /\ NoNewFor(hash, hash, u)
    BY <2>1, TablesSame
  <2>3. \A u \in Threads : u # t => EvolvesFor(hash, hash', u) /\ NoNewFor(hash, hash', u)
    BY <1>0, <2>2
  <2>4. Seen(hash', t, listeners'[t], pc'[t], hl'[t]) /\ hash' \in Seq(HashTable)
    BY <1>0, <1>2, <1>4, <1>12, <2>1
  <2> QED
    BY <1>1, <1>2, <1>4, <2>3, <2>4, OthersKept
<1> QED
  BY <1>0, <1>1, <1>5, <1>9, <1>13 DEF QueueInv, DestroyedInv

\* Destroy: nobody is inside.
LEMMA DestroyKeeps ==
  ASSUME QueueInv, Destroy
  PROVE  QueueInv'
<1>1. /\ Quiet /\ ~ destroyed /\ destroyed' = TRUE /\ listeners' = [t \in Threads |-> {}]
      /\ UNCHANGED <<pc, hl, producers, inactive, hash, hashCount>>
  BY DEF Destroy, Unsubscribe
<1>2. TableInv /\ OwnersInv
  BY DEF QueueInv
<1>3. "idle" \notin Inside /\ "idle" \notin Fresh
      /\ {"subscribe", "place", "relink"} \subseteq Inside
  BY DEF Inside, Fresh, Placing
<1>4. \A t \in Threads : pc'[t] = "idle" /\ listeners'[t] = {}
  BY <1>1 DEF Quiet
<1>5. TableInv'
  BY <1>1, <1>2, <1>3, <1>4 DEF TableInv
<1>6. OwnersInv'
  BY <1>1, <1>2, <1>3, <1>4 DEF OwnersInv, Pending
<1>7. DestroyedInv'
  BY <1>1, <1>4 DEF DestroyedInv, Quiet
<1> QED
  BY <1>1, <1>5, <1>6, <1>7 DEF QueueInv

-----------------------------------------------------------------------------
(* The theorem.                                                            *)

\* The invariant holds at the start: one empty table, no producer and no subscriber.
LEMMA QueueStarts ==
  ASSUME Init
  PROVE  QueueInv
<1>1. /\ pc = [t \in Threads |-> "idle"] /\ hl = [t \in Threads |-> NoTable]
      /\ listeners = [t \in Threads |-> {}] /\ inactive = {} /\ producers = 0 /\ ~ destroyed
      /\ hash = <<NewHash(HASH_SIZE)>> /\ hashCount = 0
  BY DEF Init, InitialHash
<1>2. PICK T : T = NewHash(HASH_SIZE)
  OBVIOUS
<1>3. PICK H : H = <<T>>
  OBVIOUS
<1>4. H = hash /\ Len(H) = 1 /\ H[1] = T
  BY <1>1, <1>2, <1>3
<1>5. /\ T \in HashTable /\ T.capacity \in Nat \ {0}
      /\ \A i \in 0 .. T.capacity - 1 : T.key[i] = NoThread
  <2>1. PICK n \in Nat \ {0} : n = HASH_SIZE
    BY HashAssumption
  <2>2. PICK k : k = [i \in 0 .. n - 1 |-> NoThread]
    OBVIOUS
  <2>3. PICK v : v = [i \in 0 .. n - 1 |-> 0]
    OBVIOUS
  <2>4. k \in [0 .. n - 1 -> Keys] /\ v \in [0 .. n - 1 -> Nat]
        /\ \A i \in 0 .. n - 1 : k[i] = NoThread
    BY <2>2, <2>3 DEF Keys
  <2>5. T = [key |-> k, value |-> v, capacity |-> n]
    BY <1>2, <2>1, <2>2, <2>3 DEF NewHash
  <2>6. T \in HashTable
    BY <2>4, <2>5, TableOf
  <2> QED
    BY <2>4, <2>5, <2>6
<1>6. hash \in Seq(HashTable) /\ Len(hash) = 1
  <2>1. <<T>> \in Seq(HashTable)
    BY ONLY <1>5
  <2> QED
    BY <1>3, <1>4, <2>1
<1>7. "idle" \notin Inside /\ "idle" \notin Fresh
      /\ {"subscribe", "place", "relink", "leave"} \subseteq Inside
      /\ "idle" \notin Fresh \cup Placing
  BY DEF Inside, Fresh, Placing
<1>8. TableInv
  BY <1>1, <1>6, <1>7 DEF TableInv
<1>9. OwnersInv
  BY <1>1, <1>7 DEF OwnersInv, Pending
<1>10. ASSUME NEW u \in Threads PROVE Seen(hash, u, listeners[u], pc[u], hl[u])
  <2>1. \A h \in 1 .. Len(H) : \A i \in 0 .. H[h].capacity - 1 : H[h].key[i] # u
    BY <1>4, <1>5, HashAssumption
  <2>2. Linked(hash, u, {})
    BY <1>4, <2>1 DEF Linked
  <2> QED
    BY <1>1, <1>7, <2>2 DEF Seen
<1> QED
  BY <1>1, <1>8, <1>9, <1>10 DEF QueueInv, SlotsInv, DestroyedInv

\* Every step keeps it.
LEMMA QueueNext ==
  ASSUME QueueInv, [Next]_vars
  PROVE  QueueInv'
<1>1. CASE Destroy
  BY <1>1, DestroyKeeps
<1>2. ASSUME NEW t \in Threads, Step(t) PROVE QueueInv'
  <2>1. CASE Pool(t) \/ Producer(t)
    BY <2>1, PoolOutside, ProducerOutside, OutsideKeeps DEF QueueInv
  <2>2. CASE \/ EnqueueReturns(t) \/ WaitDequeue(t) \/ Scan(t) \/ Scanned(t) \/ Missed(t)
             \/ DequeueReturns(t)
    BY <2>2, CallOutside, OutsideKeeps DEF QueueInv
  <2>3. CASE Find(t)
    BY <2>3, FindKeeps
  <2>4. CASE NewCount(t) \/ Resize(t) \/ Room(t)
    BY <2>4, CountingKeeps
  <2>5. CASE Grow(t)
    BY <2>5, GrowKeeps
  <2>6. CASE Recycle(t)
    BY <2>6, RecycleKeeps
  <2>7. CASE AddProducer(t)
    BY <2>7, AddProducerKeeps
  <2>8. CASE Subscribe(t)
    BY <2>8, SubscribeKeeps
  <2>9. CASE Relink(t) \/ Place(t)
    BY <2>9, PlaceKeeps
  <2>10. CASE Exit(t)
    BY <2>10, ExitKeeps
  <2>11. CASE Leave(t)
    BY <2>11, LeaveKeeps
  <2>12. CASE ExitReturns(t)
    BY <2>12, ExitReturnsKeeps
  <2> QED
    BY <1>2, <2>1, <2>2, <2>3, <2>4, <2>5, <2>6, <2>7, <2>8, <2>9, <2>10, <2>11, <2>12
       DEF Step, Table
<1>3. CASE UNCHANGED vars
  <2>1. UNCHANGED <<pc, hl, producers, inactive, hash, hashCount, listeners, destroyed>>
    BY <1>3 DEF vars, outsidePool, outsideProducer, tableVars
  <2>2. TableInv' = TableInv /\ OwnersInv' = OwnersInv /\ SlotsInv' = SlotsInv
        /\ DestroyedInv' = DestroyedInv
    BY <2>1 DEF TableInv, OwnersInv, Pending, SlotsInv, DestroyedInv, Quiet
  <2> QED
    BY <2>1, <2>2 DEF QueueInv
<1> QED
  BY <1>1, <1>2, <1>3 DEF Next

\* One producer at most.
LEMMA AtMostOne ==
  ASSUME NEW S, \A p, q \in S : p = q
  PROVE  Cardinality(S) <= 1
<1>1. CASE S = {}
  BY <1>1, FS_EmptySet
<1>2. CASE S # {}
  <2>1. PICK p : p \in S
    BY <1>2
  <2>2. S = {p}
    BY <2>1
  <2>3. Cardinality({p}) = 1
    BY FS_Singleton
  <2> QED
    BY <2>2, <2>3
<1> QED
  BY <1>1, <1>2

\* A thread has one producer as long as it lives, and shares it with nobody, for any
\* number of threads that come and go, hash functions, tables and producers
\* (get_or_add_implicit_producer, implicit_producer_thread_exited).
THEOREM OneProducer == Spec => []OneProducerPerThread
<1>1. Init => QueueInv
  BY QueueStarts
<1>2. QueueInv /\ [Next]_vars => QueueInv'
  BY QueueNext
<1>3. QueueInv => OneProducerPerThread
  BY AtMostOne DEF QueueInv, OwnersInv, OneProducerPerThread
<1> QED
  BY <1>1, <1>2, <1>3, PTL DEF Spec

-----------------------------------------------------------------------------
(* One writer for each producer.                                           *)

\* The labels between the start of an enqueue and its last write to the producer,
\* where FreeList::add may be called by try_get.
EnqueueLabels == {"enqueue", "insert", "settail", "requisition", "poolinc", "getload", "getrefs",
  "getinc", "getnext", "getcas", "getsub", "getdec", "create", "gotblock", "construct", "publish"}
AddLabels == {"addblock", "addhead", "addnext", "addrefs", "addcas", "addretry"}

Enqueuing(t) == pc[t] \in EnqueueLabels \/ (pc[t] \in AddLabels /\ fl[t].getting)

\* The records of the local variables have the members the invariant speaks of.
PoolRecord(f) == "getting" \in DOMAIN f
ElementRecord(e) == "p" \in DOMAIN e

\* An enqueue of a thread goes to its own producer.
WriterInv ==
  /\ DOMAIN fl = Threads /\ DOMAIN ql = Threads
  /\ \A t \in Threads : /\ PoolRecord(fl[t]) /\ ElementRecord(ql[t])
                        /\ Enqueuing(t) => ql[t].p \in listeners[t]

\* No two threads are inside enqueue with one producer: its tail index, tail block
\* and block index have one writer at a time, which is what lets enqueue update
\* them without a lock (concurrentqueue.h, ImplicitProducer::enqueue).
OneWriter ==
  \A t, u \in Threads : t # u /\ Enqueuing(t) /\ Enqueuing(u) => ql[t].p # ql[u].p

\* What the assignments to the local variables of BlockPool keep.
LEMMA PoolRecords ==
  /\ \A x : PoolRecord([NoBlock EXCEPT !.block = x]) /\ ~ [NoBlock EXCEPT !.block = x].getting
  /\ \A x : PoolRecord([NoBlock EXCEPT !.head = x]) /\ ~ [NoBlock EXCEPT !.head = x].getting
  /\ \A x, y : PoolRecord([NoBlock EXCEPT !.head = x, !.prev = y])
  /\ PoolRecord(NoBlock) /\ ~ NoBlock.getting
BY DEF NoBlock, PoolRecord

\* Assigning members of a record of the free list's variables leaves such a record
\* (the local variables of FreeList::add, try_get and requisition_block).
LEMMA PoolRecordsKept ==
  ASSUME NEW f, PoolRecord(f)
  PROVE  /\ \A x : PoolRecord([f EXCEPT !.refs = x])
         /\ \A x, y : PoolRecord([f EXCEPT !.next = x, !.refs = y])
         /\ \A x : PoolRecord([f EXCEPT !.to = x]) /\ [f EXCEPT !.to = x].getting = f.getting
         /\ \A x : PoolRecord([f EXCEPT !.block = x, !.getting = TRUE])
BY DEF PoolRecord

\* And those to the local variables of ImplicitProducer.
LEMMA ElementRecords ==
  /\ ElementRecord(NoElement)
  /\ \A x : ElementRecord([NoElement EXCEPT !.p = x]) /\ [NoElement EXCEPT !.p = x].p = x
  /\ \A x, y : ElementRecord([NoElement EXCEPT !.p = x, !.index = y])
BY DEF NoElement, ElementRecord

\* The same for the local variables of enqueue and dequeue: only a change of the
\* producer itself changes whose producer the thread is inside.
LEMMA ElementRecordsKept ==
  ASSUME NEW e, ElementRecord(e)
  PROVE  /\ \A x : ElementRecord([e EXCEPT !.index = x]) /\ [e EXCEPT !.index = x].p = e.p
         /\ \A x : ElementRecord([e EXCEPT !.entry = x]) /\ [e EXCEPT !.entry = x].p = e.p
         /\ \A x : ElementRecord([e EXCEPT !.over = x])
         /\ \A x : ElementRecord([e EXCEPT !.mine = x])
         /\ \A x, y : ElementRecord([e EXCEPT !.header = x, !.tail = y])
         /\ \A x, y, z : ElementRecord([e EXCEPT !.header = x, !.tail = y, !.entry = z])
         /\ \A x, y : ElementRecord([e EXCEPT !.block = x, !.element = y])
BY DEF ElementRecord

\* A step of t as far as the invariant is concerned.
WriterStep(t) ==
  /\ DOMAIN fl' = Threads /\ DOMAIN ql' = Threads
  /\ \A u \in Threads : u # t => /\ pc'[u] = pc[u] /\ fl'[u] = fl[u] /\ ql'[u] = ql[u]
                                 /\ listeners'[u] = listeners[u]
  /\ PoolRecord(fl'[t]) /\ ElementRecord(ql'[t])
  /\ pc'[t] \in EnqueueLabels \/ (pc'[t] \in AddLabels /\ fl'[t].getting) =>
       ql'[t].p \in listeners'[t]

\* A step after which its own thread still is as WriterInv wants it, which changes
\* nothing of the others, preserves it.
LEMMA WriterKept ==
  ASSUME WriterInv, NEW t \in Threads, WriterStep(t)
  PROVE  WriterInv'
BY DEF WriterInv, WriterStep, Enqueuing

\* t goes to a label, and sets its local variables or not.
Goes(t) == \E l : Go(t, l) \/ pc' = pc
Pools(t) == UNCHANGED fl \/ \E v : PoolRecord(v) /\ Locals(t, v)
Elements(t) == UNCHANGED ql \/ \E w : ElementRecord(w) /\ Remember(t, w)
SameElement(t) == UNCHANGED ql \/ \E w : ElementRecord(w) /\ w.p = ql[t].p /\ Remember(t, w)

\* A step from a label of enqueue.
EnqueueStep(t) ==
  pc[t] \in EnqueueLabels /\ Goes(t) /\ Pools(t) /\ SameElement(t) /\ UNCHANGED listeners

\* A step of FreeList::add, which goes back to try_get only where that called it.
AddStep(t) ==
  /\ pc[t] \in AddLabels /\ UNCHANGED <<ql, listeners>>
  /\ \/ (\E l \in AddLabels : Go(t, l)) /\ UNCHANGED fl
     \/ \E l \in AddLabels : \E x : Go(t, l) /\ Locals(t, [fl[t] EXCEPT !.to = x])
     \/ Added(t)

\* A step to a label outside, or to FreeList::add as dequeue calls it.
OtherStep(t) ==
  /\ Goes(t) /\ Elements(t)
  /\ \A u \in Threads : u # t => listeners'[u] = listeners[u]
  /\ \/ pc'[t] \notin EnqueueLabels \cup AddLabels /\ UNCHANGED fl
     \/ \E x : Locals(t, [NoBlock EXCEPT !.block = x]) /\ pc'[t] \notin EnqueueLabels

\* A step into enqueue, with a producer of t.
EnterStep(t) ==
  /\ Go(t, "enqueue") /\ UNCHANGED <<fl, listeners>>
  /\ \E p \in listeners[t] : Remember(t, [NoElement EXCEPT !.p = p])

\* What they set.
LEMMA MovesAre ==
  ASSUME WriterInv, TableInv, NEW t \in Threads
  PROVE  /\ Goes(t) => \A u \in Threads : u # t => pc'[u] = pc[u]
         /\ \A l : Go(t, l) => pc'[t] = l
         /\ Pools(t) => /\ DOMAIN fl' = Threads /\ PoolRecord(fl'[t])
                        /\ \A u \in Threads : u # t => fl'[u] = fl[u]
         /\ \A v : Locals(t, v) => fl'[t] = v
         /\ Elements(t) => /\ DOMAIN ql' = Threads /\ ElementRecord(ql'[t])
                           /\ \A u \in Threads : u # t => ql'[u] = ql[u]
         /\ \A w : Remember(t, w) => ql'[t] = w
         /\ SameElement(t) => Elements(t) /\ ql'[t].p = ql[t].p
<1>1. DOMAIN pc = Threads /\ DOMAIN fl = Threads /\ DOMAIN ql = Threads /\ PoolRecord(fl[t])
      /\ ElementRecord(ql[t])
  BY DEF WriterInv, TableInv
<1>2. Goes(t) => \A u \in Threads : u # t => pc'[u] = pc[u]
  BY <1>1 DEF Goes, Go
<1>3. \A l : Go(t, l) => pc'[t] = l
  BY <1>1 DEF Go
<1>4. Pools(t) => /\ DOMAIN fl' = Threads /\ PoolRecord(fl'[t])
                  /\ \A u \in Threads : u # t => fl'[u] = fl[u]
  BY <1>1 DEF Pools, Locals
<1>5. \A v : Locals(t, v) => fl'[t] = v
  BY <1>1 DEF Locals
<1>6. Elements(t) => /\ DOMAIN ql' = Threads /\ ElementRecord(ql'[t])
                     /\ \A u \in Threads : u # t => ql'[u] = ql[u]
  BY <1>1 DEF Elements, Remember
<1>7. \A w : Remember(t, w) => ql'[t] = w
  BY <1>1 DEF Remember
<1>8. SameElement(t) => Elements(t) /\ ql'[t].p = ql[t].p
  BY <1>7 DEF SameElement, Elements
<1> QED
  BY <1>2, <1>3, <1>4, <1>5, <1>6, <1>7, <1>8

\* Each of them keeps the invariant.
LEMMA EnqueueStepKeeps ==
  ASSUME WriterInv, TableInv, NEW t \in Threads, EnqueueStep(t)
  PROVE  WriterInv'
<1>1. ql[t].p \in listeners[t]
  BY DEF WriterInv, EnqueueStep, Enqueuing
<1>2. WriterStep(t)
  BY <1>1, MovesAre DEF EnqueueStep, WriterStep
<1> QED
  BY <1>2, WriterKept

\* A step inside FreeList::add preserves WriterInv: a thread that add takes back to
\* try_get came from there.
LEMMA AddStepKeeps ==
  ASSUME WriterInv, TableInv, NEW t \in Threads, AddStep(t)
  PROVE  WriterInv'
<1>1. PoolRecord(fl[t]) /\ (fl[t].getting => ql[t].p \in listeners[t])
  BY DEF WriterInv, AddStep, Enqueuing
<1>2. AddLabels \cap EnqueueLabels = {} /\ "dequeued" \notin AddLabels \cup EnqueueLabels
  BY DEF AddLabels, EnqueueLabels
<1>3. SameElement(t) /\ UNCHANGED <<ql, listeners>>
  BY DEF AddStep, SameElement
<1>4. Goes(t) /\ Pools(t) /\ (pc'[t] \in EnqueueLabels \/ (pc'[t] \in AddLabels /\ fl'[t].getting)
                              => fl[t].getting)
  <2>1. CASE (\E l \in AddLabels : Go(t, l)) /\ UNCHANGED fl
    BY <1>2, <2>1, MovesAre DEF Goes, Pools
  <2>2. CASE \E l \in AddLabels : \E x : Go(t, l) /\ Locals(t, [fl[t] EXCEPT !.to = x])
    <3>0. PICK l \in AddLabels : \E x : Go(t, l) /\ Locals(t, [fl[t] EXCEPT !.to = x])
      BY <2>2
    <3>1. PICK x : Go(t, l) /\ Locals(t, [fl[t] EXCEPT !.to = x])
      BY <3>0
    <3>2. PICK v : v = [fl[t] EXCEPT !.to = x]
      OBVIOUS
    <3>3. PoolRecord(v) /\ v.getting = fl[t].getting
      BY <1>1, <3>2, PoolRecordsKept
    <3>4. Goes(t) /\ Pools(t) /\ Locals(t, v)
      BY <3>1, <3>2, <3>3 DEF Goes, Pools
    <3> QED
      BY <1>2, <3>1, <3>3, <3>4, MovesAre
  <2>3. CASE fl[t].getting /\ TryHead(t, fl[t].head)
    <3>1. Goes(t)
      BY <2>3 DEF TryHead, Goes
    <3>2. Pools(t)
      BY <2>3, PoolRecords DEF TryHead, Pools
    <3> QED
      BY <2>3, <3>1, <3>2
  <2>4. CASE Go(t, "dequeued") /\ Locals(t, NoBlock)
    <3>1. Goes(t) /\ Pools(t)
      BY <2>4, PoolRecords DEF Goes, Pools
    <3> QED
      BY <1>2, <2>4, <3>1, MovesAre
  <2> QED
    BY <2>1, <2>2, <2>3, <2>4 DEF AddStep, Added
<1>5. WriterStep(t)
  BY <1>1, <1>3, <1>4, MovesAre DEF WriterStep
<1> QED
  BY <1>5, WriterKept

\* A step that does not lead into enqueue preserves WriterInv.
LEMMA OtherStepKeeps ==
  ASSUME WriterInv, TableInv, NEW t \in Threads, OtherStep(t)
  PROVE  WriterInv'
<1>1. Pools(t) /\ ~ (pc'[t] \in EnqueueLabels \/ (pc'[t] \in AddLabels /\ fl'[t].getting))
  <2>1. CASE pc'[t] \notin EnqueueLabels \cup AddLabels /\ UNCHANGED fl
    BY <2>1 DEF Pools
  <2>2. ASSUME NEW x, Locals(t, [NoBlock EXCEPT !.block = x]), pc'[t] \notin EnqueueLabels
        PROVE  Pools(t) /\ ~ (pc'[t] \in EnqueueLabels \/ (pc'[t] \in AddLabels /\ fl'[t].getting))
    <3>1. PICK v : v = [NoBlock EXCEPT !.block = x]
      OBVIOUS
    <3>2. PoolRecord(v) /\ ~ v.getting /\ Locals(t, v)
      BY <2>2, <3>1, PoolRecords
    <3> QED
      BY <2>2, <3>2, MovesAre DEF Pools
  <2> QED
    BY <2>1, <2>2 DEF OtherStep
<1>2. WriterStep(t)
  BY <1>1, MovesAre DEF OtherStep, WriterStep
<1> QED
  BY <1>2, WriterKept

\* The call of ImplicitProducer::enqueue preserves WriterInv: the producer is the
\* one get_or_add_implicit_producer returned, which belongs to the thread.
LEMMA EnterStepKeeps ==
  ASSUME WriterInv, TableInv, NEW t \in Threads, EnterStep(t)
  PROVE  WriterInv'
<1>1. PICK p \in listeners[t] : Remember(t, [NoElement EXCEPT !.p = p])
  BY DEF EnterStep
<1>2. PICK w : w = [NoElement EXCEPT !.p = p]
  OBVIOUS
<1>3. ElementRecord(w) /\ w.p = p /\ Remember(t, w)
  BY <1>1, <1>2, ElementRecords
<1>4. Goes(t) /\ Pools(t) /\ Elements(t) /\ ql'[t].p \in listeners'[t] /\ UNCHANGED listeners
  BY <1>3, MovesAre DEF EnterStep, Goes, Pools, Elements
<1>5. WriterStep(t)
  BY <1>4, MovesAre DEF WriterStep
<1> QED
  BY <1>5, WriterKept

\* The assignments that the steps make.
LEMMA PoolsAre ==
  ASSUME WriterInv, NEW t \in Threads
  PROVE  /\ UNCHANGED fl => Pools(t)
         /\ \A x : Locals(t, [NoBlock EXCEPT !.block = x]) => Pools(t)
         /\ \A x : Locals(t, [NoBlock EXCEPT !.head = x]) => Pools(t)
         /\ \A x, y : Locals(t, [NoBlock EXCEPT !.head = x, !.prev = y]) => Pools(t)
         /\ Locals(t, NoBlock) => Pools(t)
         /\ \A x : Locals(t, [fl[t] EXCEPT !.refs = x]) => Pools(t)
         /\ \A x, y : Locals(t, [fl[t] EXCEPT !.next = x, !.refs = y]) => Pools(t)
         /\ \A x : Locals(t, [fl[t] EXCEPT !.block = x, !.getting = TRUE]) => Pools(t)
<1>1. PoolRecord(fl[t])
  BY DEF WriterInv
<1>2. \A v : PoolRecord(v) /\ Locals(t, v) => Pools(t)
  BY DEF Pools
<1>3. UNCHANGED fl => Pools(t)
  BY DEF Pools
<1> QED
  BY <1>1, <1>2, <1>3, PoolRecords, PoolRecordsKept

\* What the steps of ImplicitProducer store in its local variables are such records.
LEMMA ElementsAre ==
  ASSUME WriterInv, NEW t \in Threads
  PROVE  /\ UNCHANGED ql => Elements(t) /\ SameElement(t)
         /\ Remember(t, NoElement) => Elements(t)
         /\ \A x : Remember(t, [NoElement EXCEPT !.p = x]) => Elements(t)
         /\ \A x, y : Remember(t, [NoElement EXCEPT !.p = x, !.index = y]) => Elements(t)
         /\ \A x : Remember(t, [ql[t] EXCEPT !.index = x]) => SameElement(t)
         /\ \A x : Remember(t, [ql[t] EXCEPT !.entry = x]) => SameElement(t)
         /\ \A x : Remember(t, [ql[t] EXCEPT !.over = x]) => Elements(t)
         /\ \A x : Remember(t, [ql[t] EXCEPT !.mine = x]) => Elements(t)
         /\ \A x, y : Remember(t, [ql[t] EXCEPT !.header = x, !.tail = y]) => Elements(t)
         /\ \A x, y, z :
              Remember(t, [ql[t] EXCEPT !.header = x, !.tail = y, !.entry = z]) => Elements(t)
         /\ \A x, y : Remember(t, [ql[t] EXCEPT !.block = x, !.element = y]) => Elements(t)
<1>1. ElementRecord(ql[t])
  BY DEF WriterInv
<1>2. \A w : ElementRecord(w) /\ Remember(t, w) => Elements(t)
  BY DEF Elements
<1>3. \A w : ElementRecord(w) /\ w.p = ql[t].p /\ Remember(t, w) => SameElement(t)
  BY DEF SameElement
<1>4. UNCHANGED ql => Elements(t) /\ SameElement(t)
  BY DEF Elements, SameElement
<1>5. /\ Remember(t, NoElement) => Elements(t)
      /\ \A x : Remember(t, [NoElement EXCEPT !.p = x]) => Elements(t)
      /\ \A x, y : Remember(t, [NoElement EXCEPT !.p = x, !.index = y]) => Elements(t)
  BY <1>2, ElementRecords
<1>6. /\ \A x : Remember(t, [ql[t] EXCEPT !.index = x]) => SameElement(t)
      /\ \A x : Remember(t, [ql[t] EXCEPT !.entry = x]) => SameElement(t)
  BY <1>1, <1>3, ElementRecordsKept
<1>7. /\ \A x : Remember(t, [ql[t] EXCEPT !.over = x]) => Elements(t)
      /\ \A x : Remember(t, [ql[t] EXCEPT !.mine = x]) => Elements(t)
      /\ \A x, y : Remember(t, [ql[t] EXCEPT !.header = x, !.tail = y]) => Elements(t)
  <2>1. \A x : ElementRecord([ql[t] EXCEPT !.over = x])
    BY <1>1, ElementRecordsKept
  <2>2. \A x : ElementRecord([ql[t] EXCEPT !.mine = x])
    BY <1>1, ElementRecordsKept
  <2>3. \A x, y : ElementRecord([ql[t] EXCEPT !.header = x, !.tail = y])
    BY <1>1, ElementRecordsKept
  <2> QED
    BY ONLY <1>2, <2>1, <2>2, <2>3
<1>8. \A x, y, z :
        Remember(t, [ql[t] EXCEPT !.header = x, !.tail = y, !.entry = z]) => Elements(t)
  BY <1>1, <1>2, ElementRecordsKept
<1>9. \A x, y : Remember(t, [ql[t] EXCEPT !.block = x, !.element = y]) => Elements(t)
  <2> SUFFICES ASSUME NEW x, NEW y, Remember(t, [ql[t] EXCEPT !.block = x, !.element = y])
               PROVE  Elements(t)
    OBVIOUS
  <2>1. PICK w : w = [ql[t] EXCEPT !.block = x, !.element = y]
    OBVIOUS
  <2>2. ElementRecord(w)
    BY <1>1, <2>1, ElementRecordsKept
  <2> QED
    BY <1>2, <2>1, <2>2
<1> QED
  BY <1>4, <1>5, <1>6, <1>7, <1>8, <1>9

\* Every step of BlockPool is one of enqueue or of FreeList::add.
LEMMA PoolWrites ==
  ASSUME WriterInv, TableInv, NEW t \in Threads, Pool(t)
  PROVE  WriterInv'
<1> DEFINE In == pc[t] \in EnqueueLabels /\ Goes(t) /\ Pools(t) /\ UNCHANGED <<ql, listeners>>
<1>1. PoolTest(t) => In
  BY PoolsAre DEF PoolTest, outsidePool, outsideProducer, tableVars, EnqueueLabels, Goes
<1>2. PoolIncrement(t) => In
  BY PoolsAre DEF PoolIncrement, outsidePool, outsideProducer, tableVars, EnqueueLabels, Goes
<1>3. GetLoad(t) => In
  BY PoolsAre DEF GetLoad, TryHead, outsidePool, outsideProducer, tableVars, EnqueueLabels, Goes
<1>4. GetRefs(t) => In
  BY PoolsAre DEF GetRefs, outsidePool, outsideProducer, tableVars, EnqueueLabels, Goes
<1>5. GetIncrement(t) => In
  BY PoolsAre DEF GetIncrement, outsidePool, outsideProducer, tableVars, EnqueueLabels, Goes
<1>6. GetNext(t) => In
  BY PoolsAre DEF GetNext, outsidePool, outsideProducer, tableVars, EnqueueLabels, Goes
<1>7. GetCas(t) => In
  BY PoolsAre DEF GetCas, outsidePool, outsideProducer, tableVars, EnqueueLabels, Goes
<1>8. GetDone(t) => In
  BY PoolsAre DEF GetDone, outsidePool, outsideProducer, tableVars, EnqueueLabels, Goes
<1>9. GetDecrement(t) => In
  BY PoolsAre DEF GetDecrement, TryHead, outsidePool, outsideProducer, tableVars,
                  EnqueueLabels, Goes
<1>10. Create(t) => In
  BY PoolsAre DEF Create, outsidePool, outsideProducer, tableVars, EnqueueLabels, Goes
<1>11. AddBlock(t) => AddStep(t)
  BY DEF AddBlock, Add, outsidePool, outsideProducer, tableVars, AddLabels, AddStep
<1>12. AddHead(t) => AddStep(t)
  BY DEF AddHead, outsidePool, outsideProducer, tableVars, AddLabels, AddStep
<1>13. AddNext(t) => AddStep(t)
  BY DEF AddNext, outsidePool, outsideProducer, tableVars, AddLabels, AddStep
<1>14. AddRefs(t) => AddStep(t)
  BY DEF AddRefs, outsidePool, outsideProducer, tableVars, AddLabels, AddStep
<1>15. AddCas(t) => AddStep(t)
  BY DEF AddCas, outsidePool, outsideProducer, tableVars, AddLabels, AddStep
<1>16. AddRetry(t) => AddStep(t)
  BY DEF AddRetry, outsidePool, outsideProducer, tableVars, AddLabels, AddStep
<1>17. In => EnqueueStep(t)
  BY ElementsAre DEF EnqueueStep
<1>18. EnqueueStep(t) \/ AddStep(t)
  BY <1>1, <1>2, <1>3, <1>4, <1>5, <1>6, <1>7, <1>8, <1>9, <1>10, <1>11, <1>12, <1>13, <1>14,
     <1>15, <1>16, <1>17 DEF Pool
<1> QED
  BY <1>18, EnqueueStepKeeps, AddStepKeeps

\* Every step of ImplicitProducer is one of enqueue or of dequeue.
LEMMA ProducerWrites ==
  ASSUME WriterInv, TableInv, NEW t \in Threads, Producer(t)
  PROVE  WriterInv'
<1> DEFINE In == pc[t] \in EnqueueLabels /\ Goes(t) /\ Pools(t) /\ SameElement(t)
                 /\ UNCHANGED listeners
           Labels == {"enqueued", "failed", "count", "missed", "recheck", "claim", "overcommit",
                      "lookup", "entry", "take", "setempty", "release", "dequeued"}
           Out == Elements(t) /\ UNCHANGED <<fl, listeners>> /\ \E l \in Labels : Go(t, l)
<1>1. Enqueue(t) => In
  BY PoolsAre, ElementsAre DEF Enqueue, outsideProducer, tableVars, EnqueueLabels, Goes
<1>2. Insert(t) => In
  <2> SUFFICES ASSUME Insert(t) PROVE In
    OBVIOUS
  <2>1. pc[t] = "insert" /\ UNCHANGED <<fl, listeners>>
    BY DEF Insert, outsideProducer, tableVars
  <2>2. (Go(t, "settail") \/ pc' = pc)
        /\ (UNCHANGED ql \/ \E x : Remember(t, [ql[t] EXCEPT !.entry = x]))
    BY DEF Insert
  <2> QED
    BY <2>1, <2>2, PoolsAre, ElementsAre DEF EnqueueLabels, Goes
<1>3. InsertTail(t) => In
  BY PoolsAre, ElementsAre DEF InsertTail, outsideProducer, tableVars, EnqueueLabels, Goes
<1>4. GotNoBlock(t) => In
  BY PoolsAre, ElementsAre DEF GotNoBlock, outsideProducer, tableVars, EnqueueLabels, Goes
<1>5. GotBlock(t) => In
  BY PoolsAre, ElementsAre DEF GotBlock, outsideProducer, tableVars, EnqueueLabels, Goes
<1>6. Construct(t) => In
  BY PoolsAre, ElementsAre DEF Construct, outsideProducer, tableVars, EnqueueLabels, Goes
<1>7. Publish(t) => In
  BY PoolsAre, ElementsAre DEF Publish, outsideProducer, tableVars, EnqueueLabels, Goes
<1>8. Dequeue(t) => Out
  BY ElementsAre DEF Dequeue, outsideProducer, tableVars
<1>9. CountIn(t) => Out
  BY ElementsAre DEF CountIn, outsideProducer, tableVars
<1>10. Recheck(t) => Out
  BY ElementsAre DEF Recheck, outsideProducer, tableVars
<1>11. OverCommit(t) => Out
  BY ElementsAre DEF OverCommit, outsideProducer, tableVars
<1>12. Claim(t) => Out
  BY ElementsAre DEF Claim, outsideProducer, tableVars
<1>13. Lookup(t) => Out
  BY ElementsAre DEF Lookup, outsideProducer, tableVars
<1>14. Entry(t) => Out
  BY ElementsAre DEF Entry, outsideProducer, tableVars
<1>15. Take(t) => Out
  <2> SUFFICES ASSUME Take(t) PROVE Out
    OBVIOUS
  <2>1. UNCHANGED <<fl, listeners>> /\ Go(t, "setempty")
    BY DEF Take, outsideProducer, tableVars
  <2>2. \E x, y : Remember(t, [ql[t] EXCEPT !.block = x, !.element = y])
    BY DEF Take
  <2> QED
    BY <2>1, <2>2, ElementsAre
<1>16. SetEmpty(t) => Out
  BY ElementsAre DEF SetEmpty, outsideProducer, tableVars
<1>17. \A l \in Labels : l \notin EnqueueLabels \cup AddLabels
  BY DEF EnqueueLabels, AddLabels
<1>18. In => EnqueueStep(t)
  BY DEF EnqueueStep
<1> HIDE DEF Labels
<1>19. Out => OtherStep(t)
  BY <1>17, MovesAre DEF OtherStep, Goes
<1>20. Release(t) => OtherStep(t)
  <2> SUFFICES ASSUME Release(t) PROVE OtherStep(t)
    OBVIOUS
  <2>1. Go(t, "addblock") /\ UNCHANGED <<ql, listeners>>
        /\ \E x : Locals(t, [NoBlock EXCEPT !.block = x])
    BY DEF Release, outsideProducer, tableVars
  <2>2. "addblock" \notin EnqueueLabels
    BY DEF EnqueueLabels
  <2> QED
    BY <2>1, <2>2, MovesAre, ElementsAre DEF OtherStep, Goes
<1>21. EnqueueStep(t) \/ OtherStep(t)
  BY <1>1, <1>2, <1>3, <1>4, <1>5, <1>6, <1>7, <1>8, <1>9, <1>10, <1>11, <1>12, <1>13, <1>14,
     <1>15, <1>16, <1>18, <1>19, <1>20 DEF Producer
<1> QED
  BY <1>21, EnqueueStepKeeps, OtherStepKeeps

\* Find and Occupy enter enqueue with the producer of the thread.
LEMMA EnterWrites ==
  ASSUME WriterInv, QueueInv, NEW t \in Threads, Find(t) \/ Relink(t) \/ Place(t)
  PROVE  WriterInv'
<1>1. TableInv
  BY DEF QueueInv
<1>2. "relink" \notin EnqueueLabels \cup AddLabels /\ "newcount" \notin EnqueueLabels \cup AddLabels
      /\ "place" \notin EnqueueLabels \cup AddLabels
  BY DEF EnqueueLabels, AddLabels
<1>3. UNCHANGED <<fl, listeners>>
  <2>1. Find(t) => UNCHANGED <<fl, listeners>>
    BY DEF Find, Frame, tableVars
  <2>2. Relink(t) => UNCHANGED <<fl, listeners>>
    BY DEF Relink, Frame
  <2>3. Place(t) => UNCHANGED <<fl, listeners>>
    BY DEF Place, Frame
  <2> QED
    BY <2>1, <2>2, <2>3
<1>4. CASE Find(t)
  <2>1. \/ Go(t, "enqueue") /\ \E p \in listeners[t] : Remember(t, [NoElement EXCEPT !.p = p])
        \/ (Go(t, "relink") \/ Go(t, "newcount")) /\ UNCHANGED ql
    BY <1>4, FindFinds
  <2>2. CASE Go(t, "enqueue") /\ \E p \in listeners[t] : Remember(t, [NoElement EXCEPT !.p = p])
    BY <1>1, <1>3, <2>2, EnterStepKeeps DEF EnterStep
  <2>3. CASE (Go(t, "relink") \/ Go(t, "newcount")) /\ UNCHANGED ql
    <3>1. OtherStep(t)
      BY <1>1, <1>2, <1>3, <2>3, MovesAre, ElementsAre DEF OtherStep, Goes
    <3> QED
      BY <1>1, <3>1, OtherStepKeeps
  <2> QED
    BY <2>1, <2>2, <2>3
<1>5. CASE Relink(t) \/ Place(t)
  <2>1. pc[t] \in Placing /\ (Occupy(t) \/ ProbeNext(t))
    BY <1>5 DEF Relink, Place, Placing
  <2>2. CASE Occupy(t)
    <3>1. hl[t].p \in listeners[t]
      BY <2>1, PlacingFacts
    <3>2. Go(t, "enqueue") /\ Remember(t, [NoElement EXCEPT !.p = hl[t].p])
      BY <2>2 DEF Occupy
    <3>3. EnterStep(t)
      BY <1>3, <3>1, <3>2 DEF EnterStep
    <3> QED
      BY <1>1, <3>3, EnterStepKeeps
  <2>3. CASE ProbeNext(t)
    <3>1. UNCHANGED <<ql, pc>>
      BY <2>3 DEF ProbeNext
    <3>2. OtherStep(t)
      BY <1>2, <1>3, <2>1, <3>1, ElementsAre DEF OtherStep, Goes, Placing
    <3> QED
      BY <1>1, <3>2, OtherStepKeeps
  <2> QED
    BY <2>1, <2>2, <2>3
<1> QED
  BY <1>4, <1>5

\* The other steps around enqueue and dequeue.
LEMMA TableWrites ==
  ASSUME WriterInv, TableInv, NEW t \in Threads, Table(t),
         ~ Find(t), ~ Relink(t), ~ Place(t)
  PROVE  WriterInv'
<1> DEFINE Labels == {"idle", "resize", "grow", "room", "recycle", "subscribe", "place", "scan",
                      "dequeue", "leave"}
           Out == /\ Elements(t) /\ UNCHANGED fl
                  /\ \A u \in Threads : u # t => listeners'[u] = listeners[u]
                  /\ \/ \E l \in Labels : Go(t, l)
                     \/ pc[t] \in Labels /\ pc' = pc
<1>1. NewCount(t) => Out
  BY ElementsAre DEF NewCount, Frame
<1>2. Resize(t) => Out
  BY ElementsAre DEF Resize, Frame
<1>3. Grow(t) => Out
  <2> SUFFICES ASSUME Grow(t) PROVE Out
    OBVIOUS
  <2>1. UNCHANGED <<fl, listeners>>
    BY DEF Grow, Frame
  <2>2. (Go(t, "room") /\ UNCHANGED ql) \/ (Go(t, "idle") /\ Remember(t, NoElement))
    BY DEF Grow, Returns
  <2> QED
    BY <2>1, <2>2, ElementsAre
<1>4. Room(t) => Out
  BY ElementsAre DEF Room, AwaitTable, Frame, tableVars
<1>5. Recycle(t) => Out
  <2> SUFFICES ASSUME Recycle(t) PROVE Out
    OBVIOUS
  <2>1. pc[t] = "recycle" /\ UNCHANGED <<ql, fl, listeners>>
    BY DEF Recycle, Frame
  <2>2. Go(t, "subscribe") \/ pc' = pc
    BY DEF Recycle
  <2> QED
    BY <2>1, <2>2, ElementsAre
<1>6. AddProducer(t) => Out
  BY ElementsAre DEF AddProducer, Frame
<1>7. Subscribe(t) => Out
  <2> SUFFICES ASSUME Subscribe(t) PROVE Out
    OBVIOUS
  <2>1. Go(t, "place") /\ UNCHANGED <<ql, fl>>
        /\ listeners' = [listeners EXCEPT ![t] = listeners[t] \cup {hl[t].p}]
    BY DEF Subscribe, NotifierSubscribe, Frame
  <2>2. \A u \in Threads : u # t => listeners'[u] = listeners[u]
    BY <2>1 DEF TableInv
  <2> QED
    BY <2>1, <2>2, ElementsAre
<1>8. EnqueueReturns(t) => Out
  BY ElementsAre DEF EnqueueReturns, Returns, Frame, tableVars
<1>9. WaitDequeue(t) => Out
  BY ElementsAre DEF WaitDequeue, ScanFrom, Frame, tableVars
<1>10. Scan(t) => Out
  <2> SUFFICES ASSUME Scan(t) PROVE Out
    OBVIOUS
  <2>1. pc[t] = "scan" /\ UNCHANGED <<pc, ql, fl, listeners>>
    BY DEF Scan, Frame, tableVars
  <2> QED
    BY <2>1, ElementsAre
<1>11. Scanned(t) => Out
  BY ElementsAre DEF Scanned, ScanFrom, Frame, tableVars
<1>12. Missed(t) => Out
  <2> SUFFICES ASSUME Missed(t) PROVE Out
    OBVIOUS
  <2>1. UNCHANGED <<fl, listeners>>
    BY DEF Missed, Frame, tableVars
  <2>2. \/ Go(t, "scan") /\ Remember(t, NoElement)
        \/ Go(t, "dequeue") /\ \E q : Remember(t, [NoElement EXCEPT !.p = q])
    BY DEF Missed, ScanFrom
  <2> QED
    BY <2>1, <2>2, ElementsAre
<1>13. DequeueReturns(t) => Out
  BY ElementsAre DEF DequeueReturns, Returns, Frame, tableVars
<1>14. Exit(t) => Out
  BY ElementsAre DEF Exit, Frame
<1>15. Leave(t) => Out
  <2> SUFFICES ASSUME Leave(t) PROVE Out
    OBVIOUS
  <2>1. pc[t] = "leave" /\ UNCHANGED <<pc, ql, fl, listeners>>
    BY DEF Leave, Frame
  <2> QED
    BY <2>1, ElementsAre
<1>16. ExitReturns(t) => Out
  <2> SUFFICES ASSUME ExitReturns(t) PROVE Out
    OBVIOUS
  <2>1. Go(t, "idle") /\ Remember(t, NoElement) /\ UNCHANGED fl
        /\ listeners' = [listeners EXCEPT ![t] = {}]
    BY DEF ExitReturns, Returns, Frame
  <2>2. \A u \in Threads : u # t => listeners'[u] = listeners[u]
    BY <2>1 DEF TableInv
  <2> QED
    BY <2>1, <2>2, ElementsAre
<1>17. Out
  BY <1>1, <1>2, <1>3, <1>4, <1>5, <1>6, <1>7, <1>8, <1>9, <1>10, <1>11, <1>12, <1>13, <1>14,
     <1>15, <1>16 DEF Table
<1>18. \A l \in Labels : l \notin EnqueueLabels \cup AddLabels
  BY DEF EnqueueLabels, AddLabels
<1> HIDE DEF Labels
<1>19. OtherStep(t)
  BY <1>17, <1>18, MovesAre DEF OtherStep, Goes
<1> QED
  BY <1>19, OtherStepKeeps

\* Every step keeps it.
LEMMA WriterNext ==
  ASSUME WriterInv, QueueInv, [Next]_vars
  PROVE  WriterInv'
<1>0. TableInv
  BY DEF QueueInv
<1>1. CASE Destroy
  <2>1. /\ \A t \in Threads : pc[t] = "idle"
        /\ UNCHANGED <<pc, fl, ql>>
    BY <1>1 DEF Destroy, Quiet
  <2>2. "idle" \notin EnqueueLabels \cup AddLabels
    BY DEF EnqueueLabels, AddLabels
  <2> QED
    BY <2>1, <2>2 DEF WriterInv, Enqueuing
<1>2. ASSUME NEW t \in Threads, Step(t) PROVE WriterInv'
  BY <1>0, <1>2, PoolWrites, ProducerWrites, EnterWrites, TableWrites DEF Step
<1>3. CASE UNCHANGED vars
  <2>1. UNCHANGED <<pc, fl, ql, listeners>>
    BY <1>3 DEF vars, outsidePool, outsideProducer, tableVars
  <2> QED
    BY <2>1 DEF WriterInv, Enqueuing
<1> QED
  BY <1>1, <1>2, <1>3 DEF Next

\* And it holds at the start.
LEMMA WriterStarts ==
  ASSUME Init
  PROVE  WriterInv
<1>1. /\ pc = [t \in Threads |-> "idle"] /\ fl = [t \in Threads |-> NoBlock]
      /\ ql = [t \in Threads |-> NoElement]
  BY DEF Init, PoolInit, ProducerInit
<1>2. "idle" \notin EnqueueLabels \cup AddLabels
  BY DEF EnqueueLabels, AddLabels
<1>3. DOMAIN fl = Threads /\ DOMAIN ql = Threads
  BY <1>1
<1>4. \A t \in Threads : fl[t] = NoBlock /\ ql[t] = NoElement /\ pc[t] = "idle"
  BY <1>1
<1> QED
  BY <1>2, <1>3, <1>4, PoolRecords, ElementRecords DEF WriterInv, Enqueuing

\* The producers that enqueue writes have one writer each, for any number of threads,
\* producers and blocks, whoever got the producer of a thread that has ended.
THEOREM ProducerHasOneWriter == Spec => []OneWriter
<1>1. Init => QueueInv /\ WriterInv
  BY QueueStarts, WriterStarts
<1>2. QueueInv /\ WriterInv /\ [Next]_vars => (QueueInv /\ WriterInv)'
  BY QueueNext, WriterNext
<1>3. QueueInv /\ WriterInv => OneWriter
  <2> SUFFICES ASSUME QueueInv, WriterInv, NEW t \in Threads, NEW u \in Threads, t # u,
                      Enqueuing(t), Enqueuing(u), ql[t].p = ql[u].p
               PROVE  FALSE
    BY DEF OneWriter
  <2>1. ql[t].p \in listeners[t] /\ ql[u].p \in listeners[u]
    BY DEF WriterInv
  <2>2. listeners[t] \cap listeners[u] = {}
    BY DEF QueueInv, OwnersInv
  <2> QED
    BY <2>1, <2>2
<1> QED
  BY <1>1, <1>2, <1>3, PTL DEF Spec

-----------------------------------------------------------------------------
(* Blocks are counted by their first indices.                             *)

\* Products are linear in each factor.
LEMMA Products ==
  ASSUME NEW c \in Nat \ {0}, NEW i \in Int, NEW j \in Int
  PROVE  /\ i * c \in Int
         /\ (i + j) * c = i * c + j * c
         /\ (i - j) * c = i * c - j * c
         /\ i < j => i * c + c <= j * c
         /\ (i + 1) * c = i * c + c
OBVIOUS

\* What \div and % give.
LEMMA QuotientIs ==
  ASSUME NEW c \in Nat \ {0}, NEW a \in Int, NEW q \in Int, NEW r \in 0 .. c - 1, a = q * c + r
  PROVE  a \div c = q /\ a % c = r
OBVIOUS

\* A number is its quotient times the divisor and its remainder.
LEMMA Division ==
  ASSUME NEW c \in Nat \ {0}, NEW a \in Int
  PROVE  /\ a \div c \in Int /\ a % c \in 0 .. c - 1
         /\ a = (a \div c) * c + (a % c)
<1>1. \E q \in Int : q * c <= a /\ a < q * c + c
  <2>1. PICK q : q = a \div c
    OBVIOUS
  <2> QED
    BY <2>1
<1>2. PICK q \in Int : q * c <= a /\ a < q * c + c
  BY <1>1
<1>3. PICK r : r = a - q * c
  OBVIOUS
<1>4. r \in 0 .. c - 1 /\ a = q * c + r
  BY <1>2, <1>3, Products
<1>5. a \div c = q /\ a % c = r
  BY ONLY c \in Nat \ {0}, a \in Int, <1>2, <1>4, QuotientIs
<1>6. (a \div c) * c + (a % c) = q * c + r
  BY ONLY <1>5, Zenon
<1> QED
  BY ONLY <1>2, <1>4, <1>5, <1>6, Zenon

\* The positions of an index of c slots.
LEMMA Remainders ==
  ASSUME NEW c \in Nat \ {0}, NEW i \in Int, NEW j \in Int
  PROVE  /\ (i + c) % c = i % c
         /\ ((i % c) + j) % c = (i + j) % c
         /\ i <= j /\ j < i + c /\ i % c = j % c => i = j
<1>1. PICK q, r : q = i \div c /\ r = i % c
  OBVIOUS
<1>2. q \in Int /\ r \in 0 .. c - 1 /\ i = q * c + r
  BY <1>1, Division
<1>3. (i + c) % c = i % c
  <2>1. i + c = (q + 1) * c + r
    BY <1>2, Products
  <2>2. i + c \in Int /\ q + 1 \in Int
    BY <1>2
  <2>3. (i + c) % c = r
    BY ONLY c \in Nat \ {0}, <1>2, <2>1, <2>2, QuotientIs
  <2> QED
    BY ONLY <1>1, <2>3
<1>4. ((i % c) + j) % c = (i + j) % c
  <2>1. PICK u, v : u = (r + j) \div c /\ v = (r + j) % c
    OBVIOUS
  <2>2. u \in Int /\ v \in 0 .. c - 1 /\ r + j = u * c + v
    BY <1>2, <2>1, Division
  <2>3. i + j = (q + u) * c + v
    BY <1>2, <2>2, Products
  <2>5. i + j \in Int /\ q + u \in Int
    BY <1>2, <2>2
  <2>4. (i + j) % c = v
    BY ONLY c \in Nat \ {0}, <2>2, <2>3, <2>5, QuotientIs
  <2> QED
    BY <1>1, <2>1, <2>4
<1>5. ASSUME i <= j, j < i + c, i % c = j % c PROVE i = j
  <2>1. PICK u : u = j \div c
    OBVIOUS
  <2>2. u \in Int /\ j = u * c + r
    BY <1>1, <1>5, <2>1, Division
  <2>3. ~ (u < q)
    BY <1>2, <1>5, <2>2, Products
  <2>4. ~ (q < u)
    BY <1>2, <1>5, <2>2, Products
  <2>5. u = q
    BY <1>2, <2>2, <2>3, <2>4
  <2> QED
    BY <1>2, <2>2, <2>5
<1> QED
  BY <1>3, <1>4, <1>5

-----------------------------------------------------------------------------
\* The first index of the k-th block of a producer, and the block of index i.
Base(k) == k * BLOCK_SIZE
Of(i) == i \div BLOCK_SIZE

\* The first indices of blocks, one after the other.
LEMMA Bases ==
  ASSUME NEW i \in Int, NEW j \in Int
  PROVE  /\ Base(i) \in Int
         /\ Base(i + 1) = Base(i) + BLOCK_SIZE
         /\ Base(i) = Base(i - 1) + BLOCK_SIZE
         /\ i < j => Base(i) + BLOCK_SIZE <= Base(j)
         /\ Base(0) = 0
         /\ i <= j => Base(i) <= Base(j)
         /\ Base(i) # INVALID_BLOCK_BASE
         /\ Base(i - j) = Base(i) - Base(j)
<1> BLOCK_SIZE \in Nat \ {0, 1}
  BY ProducerAssumption
<1>1. i - 1 \in Int /\ i = (i - 1) + 1
  OBVIOUS
<1>2. Base(i) = Base(i - 1) + BLOCK_SIZE
  BY ONLY <1>1, Products, BLOCK_SIZE \in Nat \ {0, 1} DEF Base
<1>3. /\ Base(i) \in Int
      /\ Base(i + 1) = Base(i) + BLOCK_SIZE
      /\ i < j => Base(i) + BLOCK_SIZE <= Base(j)
      /\ Base(i - j) = Base(i) - Base(j)
      /\ Base(0) = 0
  BY Products DEF Base
<1>4. i <= j => Base(i) <= Base(j)
  <2>1. i <= j => i = j \/ i < j
    OBVIOUS
  <2>2. Base(j) \in Int
    BY Products DEF Base
  <2> QED
    BY <1>3, <2>1, <2>2
<1>5. Base(i) # 1
  <2>1. CASE i <= 0
    <3>1. i < 0 => Base(i) + BLOCK_SIZE <= Base(0)
      BY Products DEF Base
    <3> QED
      BY <1>3, <2>1, <3>1
  <2>2. CASE i > 0
    <3>1. Base(0) + BLOCK_SIZE <= Base(i)
      BY <2>2, Products DEF Base
    <3> QED
      BY <1>3, <3>1
  <2> QED
    BY <2>1, <2>2
<1> QED
  BY <1>2, <1>3, <1>4, <1>5 DEF INVALID_BLOCK_BASE

\* The index i lies in block Of(i), at its place there.
LEMMA BlockIs ==
  ASSUME NEW i \in Int, NEW k \in Int
  PROVE  /\ Of(i) \in Int
         /\ Base(Of(i)) <= i /\ i < Base(Of(i)) + BLOCK_SIZE
         /\ Base(k) <= i /\ i < Base(k) + BLOCK_SIZE => Of(i) = k
         /\ PlaceOf(i) = i - Base(Of(i)) /\ PlaceOf(i) \in 0 .. BLOCK_SIZE - 1
         /\ i % BLOCK_SIZE = PlaceOf(i)
         /\ Of(Base(k)) = k /\ PlaceOf(Base(k)) = 0
         /\ (Base(k) \div BLOCK_SIZE) = k
<1>0. BLOCK_SIZE \in Nat \ {0, 1}
  BY ProducerAssumption
<1>1. Of(i) \in Int /\ PlaceOf(i) \in 0 .. BLOCK_SIZE - 1 /\ i = Base(Of(i)) + PlaceOf(i)
  BY <1>0, Division DEF Of, Base, PlaceOf
<1>2. Base(Of(i)) \in Int /\ Base(k) \in Int
  BY <1>1, Bases
<1>3. ASSUME Base(k) <= i, i < Base(k) + BLOCK_SIZE PROVE Of(i) = k
  <2>1. PICK r : r = i - Base(k)
    OBVIOUS
  <2>2. r \in 0 .. BLOCK_SIZE - 1 /\ i = Base(k) + r
    BY <1>0, <1>2, <1>3, <2>1
  <2> QED
    BY <1>0, <2>2, QuotientIs DEF Of, Base
<1>4. Of(Base(k)) = k /\ PlaceOf(Base(k)) = 0
  <2>1. 0 \in 0 .. BLOCK_SIZE - 1 /\ Base(k) = k * BLOCK_SIZE + 0
    BY <1>0, Products DEF Base
  <2> QED
    BY <1>0, <1>2, <2>1, QuotientIs DEF Of, PlaceOf
<1>5. i % BLOCK_SIZE = PlaceOf(i) /\ (Base(k) \div BLOCK_SIZE) = Of(Base(k))
  BY DEF PlaceOf, Of
<1>6. Base(Of(i)) <= i /\ i < Base(Of(i)) + BLOCK_SIZE /\ PlaceOf(i) = i - Base(Of(i))
  BY <1>0, <1>1, <1>2
<1> QED
  BY <1>1, <1>3, <1>4, <1>5, <1>6

-----------------------------------------------------------------------------
(* Steps and types.                                                        *)

\* The labels at which a thread works on a producer, those of the search of
\* try_dequeue, and those at which it works on no block.
ProducerLabels == EnqueueLabels \cup AddLabels \cup
  {"dequeue", "count", "recheck", "overcommit", "missed", "claim", "lookup", "entry", "take",
   "setempty", "release"}
ScanLabels == {"scan", "dequeue", "count", "recheck", "overcommit", "missed", "claim"}
CalmLabels == {"idle", "enqueue", "newcount", "relink", "resize", "grow", "room", "recycle",
  "subscribe", "place", "scan", "dequeue", "missed", "enqueued", "failed", "dequeued", "leave"}

ElementLocals ==
  [p : Nat, over : Nat, mine : Nat, index : Nat, header : Nat, tail : Nat, entry : Nat,
   block : {0} \cup Blocks, element : {<< >>} \cup (Nat \X Nat)]
ScanLocals(n) ==
  [main : Nat, count : Int, probe : Nat, p : Nat, ptr : 0 .. n, best : 0 .. n, size : Nat,
   seen : Nat, pass : {1, 2}]

\* The producers that threads work on exist.
Ranged(t) ==
  /\ pc[t] \in ProducerLabels => ql[t].p \in 1 .. producers
  /\ pc[t] \in ScanLabels =>
       /\ hl[t] \in ScanLocals(producers)
       /\ hl[t].size > 0 => hl[t].best # 0
       /\ hl[t].seen > 0 => hl[t].size > 0
RangeInv ==
  /\ producers \in Nat /\ producers <= MaxProducers
  /\ \A t \in Threads : Ranged(t)

\* A step that works on no block and leaves the producers alone.
CalmStep(t) ==
  /\ pc[t] \in CalmLabels /\ pc'[t] \in CalmLabels
  /\ DOMAIN pc' = Threads /\ DOMAIN ql' = Threads /\ DOMAIN hl' = Threads
  /\ \A u \in Threads : u # t => pc'[u] = pc[u] /\ ql'[u] = ql[u] /\ hl'[u] = hl[u]
  /\ UNCHANGED <<poolVars, fl, producerVars, poolSize, destroyed>>
  /\ ql'[t] \in {ql[t], NoElement} \/ \E x \in 1 .. producers : ql'[t] = [NoElement EXCEPT !.p = x]
  /\ producers \in Nat /\ producers' \in Nat /\ producers <= producers'
       /\ producers' <= MaxProducers
  /\ destroyed => pc[t] # "idle"
  /\ ql' = ql \/ \E w : Remember(t, w)

\* What the assignments of a step of t to pc, ql and hl do.
LEMMA TableSets ==
  ASSUME TableInv, WriterInv, NEW t \in Threads
  PROVE  /\ \A l : Go(t, l) => pc'[t] = l
         /\ \A l : Go(t, l) \/ pc' = pc =>
              DOMAIN pc' = Threads /\ \A u \in Threads : u # t => pc'[u] = pc[u]
         /\ \A l : Store(t, l) => hl'[t] = l
         /\ \A l : Store(t, l) \/ hl' = hl =>
              DOMAIN hl' = Threads /\ \A u \in Threads : u # t => hl'[u] = hl[u]
         /\ \A l : Remember(t, l) => ql'[t] = l
         /\ \A l : Remember(t, l) \/ ql' = ql =>
              DOMAIN ql' = Threads /\ \A u \in Threads : u # t => ql'[u] = ql[u]
<1>1. DOMAIN pc = Threads /\ DOMAIN hl = Threads /\ DOMAIN ql = Threads
  BY DEF TableInv, WriterInv
<1>2. /\ \A l : Go(t, l) => pc'[t] = l
      /\ \A l : Go(t, l) \/ pc' = pc =>
           DOMAIN pc' = Threads /\ \A u \in Threads : u # t => pc'[u] = pc[u]
  BY <1>1 DEF Go
<1>3. /\ \A l : Store(t, l) => hl'[t] = l
      /\ \A l : Store(t, l) \/ hl' = hl =>
           DOMAIN hl' = Threads /\ \A u \in Threads : u # t => hl'[u] = hl[u]
  BY <1>1 DEF Store
<1>4. /\ \A l : Remember(t, l) => ql'[t] = l
      /\ \A l : Remember(t, l) \/ ql' = ql =>
           DOMAIN ql' = Threads /\ \A u \in Threads : u # t => ql'[u] = ql[u]
  BY <1>1 DEF Remember
<1> QED
  BY <1>2, <1>3, <1>4

\* Every step of the tables is calm.
Enters(t) == \E x \in 1 .. producers : Remember(t, [NoElement EXCEPT !.p = x])
Calmly(t) ==
  /\ pc[t] \in CalmLabels
  /\ (\E l \in CalmLabels : Go(t, l)) \/ pc' = pc
  /\ (\E l : Store(t, l)) \/ hl' = hl
  /\ ql' = ql \/ Remember(t, NoElement) \/ Enters(t)
  /\ producers' = producers \/ (producers < MaxProducers /\ producers' = producers + 1)
  /\ destroyed => pc[t] # "idle"

\* A calm assignment leaves the other threads and all the blocks alone.
LEMMA CalmlyCalm ==
  ASSUME TableInv, WriterInv, RangeInv, NEW t \in Threads, Calmly(t), Frame
  PROVE  CalmStep(t)
<1>1. UNCHANGED <<poolVars, fl, producerVars, poolSize, destroyed>>
  BY DEF Frame, fixed
<1>2. pc[t] \in CalmLabels /\ pc'[t] \in CalmLabels
  BY TableSets DEF Calmly
<1>3. /\ DOMAIN pc' = Threads /\ DOMAIN ql' = Threads /\ DOMAIN hl' = Threads
      /\ \A u \in Threads : u # t => pc'[u] = pc[u] /\ ql'[u] = ql[u] /\ hl'[u] = hl[u]
  <2>1. DOMAIN pc' = Threads /\ \A u \in Threads : u # t => pc'[u] = pc[u]
    BY TableSets DEF Calmly
  <2>2. DOMAIN hl' = Threads /\ \A u \in Threads : u # t => hl'[u] = hl[u]
    BY TableSets DEF Calmly
  <2>3. DOMAIN ql' = Threads /\ \A u \in Threads : u # t => ql'[u] = ql[u]
    BY TableSets DEF Calmly, Enters
  <2> QED
    BY <2>1, <2>2, <2>3
<1>4. ql'[t] \in {ql[t], NoElement} \/ \E x \in 1 .. producers : ql'[t] = [NoElement EXCEPT !.p = x]
  BY TableSets DEF Calmly, Enters
<1>5. producers \in Nat /\ producers' \in Nat /\ producers <= producers'
        /\ producers' <= MaxProducers
  BY ProducerAssumption DEF Calmly, RangeInv
<1>6. ql' = ql \/ \E w : Remember(t, w)
  BY DEF Calmly, Enters
<1> QED
  BY <1>1, <1>2, <1>3, <1>4, <1>5, <1>6 DEF CalmStep, Calmly

\* Find enters enqueue with a producer of the thread, and so does Occupy.
LEMMA FindCalm ==
  ASSUME QueueInv, WriterInv, RangeInv, NEW t \in Threads, Find(t)
  PROVE  Calmly(t) /\ Frame
<1>1. listeners[t] \subseteq 1 .. producers
  BY DEF QueueInv, OwnersInv
<1>2. pc[t] = "idle" /\ ~ destroyed /\ producers' = producers /\ Frame
  BY DEF Find, Calls, tableVars
<1>3. \/ Go(t, "enqueue") /\ hl' = hl /\ Enters(t)
      \/ Go(t, "relink") /\ ql' = ql /\ \E l : Store(t, l)
      \/ Go(t, "newcount") /\ ql' = ql /\ \E l : Store(t, l)
  BY <1>1, FindFinds DEF Enters
<1> QED
  BY <1>2, <1>3 DEF Calmly, CalmLabels

\* Relink and Place, which end with a producer of the list.
LEMMA PlacingCalm ==
  ASSUME QueueInv, WriterInv, RangeInv, NEW t \in Threads, Relink(t) \/ Place(t)
  PROVE  Calmly(t) /\ Frame
<1>1. pc[t] \in Placing /\ (Occupy(t) \/ ProbeNext(t)) /\ producers' = producers /\ Frame
  BY DEF Relink, Place, Placing
<1>2. hl[t].p \in 1 .. producers
  BY <1>1, PlacingFacts DEF QueueInv, OwnersInv
<1>3. Occupy(t) => Go(t, "enqueue") /\ Enters(t) /\ \E l : Store(t, l)
  BY <1>2 DEF Occupy, Enters
<1>4. ProbeNext(t) => pc' = pc /\ ql' = ql /\ \E l : Store(t, l)
  BY DEF ProbeNext
<1>5. pc[t] \in CalmLabels /\ pc[t] # "idle" /\ "enqueue" \in CalmLabels
  BY <1>1 DEF Placing, CalmLabels
<1> QED
  BY <1>1, <1>3, <1>4, <1>5 DEF Calmly

\* The steps of try_dequeue around the producers.
LEMMA ScanCalm ==
  ASSUME QueueInv, WriterInv, RangeInv, NEW t \in Threads,
         WaitDequeue(t) \/ Scan(t) \/ Scanned(t) \/ Missed(t)
  PROVE  Calmly(t) /\ Frame
<1>1. producers' = producers /\ Frame
  BY DEF WaitDequeue, Scan, Scanned, Missed, tableVars
<1>2. WaitDequeue(t) => Calmly(t)
  BY <1>1 DEF WaitDequeue, ScanFrom, Calls, Calmly, CalmLabels
<1>3. Scan(t) => Calmly(t)
  BY <1>1 DEF Scan, Calmly, CalmLabels
<1>4. Scanned(t) => Calmly(t)
  <2> SUFFICES ASSUME Scanned(t) PROVE Calmly(t)
    OBVIOUS
  <2>1. pc[t] = "scan"
    BY DEF Scanned
  <2>2. hl[t].seen > 0 => hl[t].best \in 1 .. producers
    BY <2>1 DEF RangeInv, Ranged, ScanLabels, ScanLocals
  <2>3. \/ Go(t, "scan") /\ (\E l : Store(t, l)) /\ Remember(t, NoElement)
        \/ Go(t, "dequeue") /\ (\E l : Store(t, l)) /\ Enters(t)
    BY <2>2 DEF Scanned, ScanFrom, Enters
  <2> QED
    BY <1>1, <2>1, <2>3 DEF Calmly, CalmLabels
<1>5. Missed(t) => Calmly(t)
  <2> SUFFICES ASSUME Missed(t) PROVE Calmly(t)
    OBVIOUS
  <2>1. pc[t] = "missed"
    BY DEF Missed
  <2>2. \A q \in 1 .. (IF hl[t].pass = 1 THEN producers ELSE hl[t].ptr - 1) : q \in 1 .. producers
    BY <2>1 DEF RangeInv, Ranged, ScanLabels, ScanLocals
  <2>3. \/ Go(t, "scan") /\ (\E l : Store(t, l)) /\ Remember(t, NoElement)
        \/ Go(t, "dequeue") /\ (\E l : Store(t, l)) /\ Enters(t)
    BY <2>2 DEF Missed, ScanFrom, Enters
  <2> QED
    BY <1>1, <2>1, <2>3 DEF Calmly, CalmLabels
<1> QED
  BY <1>1, <1>2, <1>3, <1>4, <1>5

\* The steps of the tables and of the callers work on no block.
LEMMA TableCalm ==
  ASSUME QueueInv, WriterInv, RangeInv, NEW t \in Threads, Table(t)
  PROVE  CalmStep(t)
<1>1. NewCount(t) => Calmly(t) /\ Frame
  BY DEF NewCount, Calmly, CalmLabels
<1>2. Resize(t) => Calmly(t) /\ Frame
  BY DEF Resize, Calmly, CalmLabels
<1>3. Grow(t) => Calmly(t) /\ Frame
  <2> SUFFICES ASSUME Grow(t) PROVE Calmly(t) /\ Frame
    OBVIOUS
  <2>1. pc[t] = "grow" /\ producers' = producers /\ Frame
    BY DEF Grow
  <2>2. \/ Go(t, "room") /\ ql' = ql /\ (\E l : Store(t, l))
        \/ Go(t, "idle") /\ Remember(t, NoElement) /\ (\E l : Store(t, l))
    BY DEF Grow, Returns
  <2> QED
    BY <2>1, <2>2 DEF Calmly, CalmLabels
<1>4. Room(t) => Calmly(t) /\ Frame
  BY DEF Room, AwaitTable, tableVars, Calmly, CalmLabels
<1>5. Recycle(t) => Calmly(t) /\ Frame
  BY DEF Recycle, Calmly, CalmLabels
<1>6. AddProducer(t) => Calmly(t) /\ Frame
  BY DEF AddProducer, Calmly, CalmLabels
<1>7. Subscribe(t) => Calmly(t) /\ Frame
  BY DEF Subscribe, Calmly, CalmLabels
<1>8. EnqueueReturns(t) => Calmly(t) /\ Frame
  BY DEF EnqueueReturns, Returns, tableVars, Calmly, CalmLabels
<1>9. DequeueReturns(t) => Calmly(t) /\ Frame
  BY DEF DequeueReturns, Returns, tableVars, Calmly, CalmLabels
<1>10. Exit(t) => Calmly(t) /\ Frame
  BY DEF Exit, Calls, Calmly, CalmLabels
<1>11. Leave(t) => Calmly(t) /\ Frame
  BY DEF Leave, Calmly, CalmLabels
<1>12. ExitReturns(t) => Calmly(t) /\ Frame
  BY DEF ExitReturns, Returns, Calmly, CalmLabels
<1>13. Calmly(t) /\ Frame
  BY <1>1, <1>2, <1>3, <1>4, <1>5, <1>6, <1>7, <1>8, <1>9, <1>10, <1>11, <1>12,
     FindCalm, PlacingCalm, ScanCalm DEF Table
<1> QED
  BY <1>13, CalmlyCalm DEF QueueInv

\* The steps on blocks and producers keep a thread with its producer.
WorkTargets == ProducerLabels \cup {"enqueued", "failed", "dequeued"}
WorkStep(t) ==
  /\ pc[t] \in ProducerLabels /\ pc'[t] \in WorkTargets
  /\ pc'[t] \in ScanLabels => pc[t] \in ScanLabels
  /\ DOMAIN pc' = Threads /\ DOMAIN ql' = Threads /\ DOMAIN fl' = Threads
  /\ \A u \in Threads : u # t => pc'[u] = pc[u] /\ ql'[u] = ql[u] /\ fl'[u] = fl[u]
  /\ ql'[t].p = ql[t].p
  /\ UNCHANGED <<hl, producers, destroyed, poolSize>>

Works(t) ==
  /\ pc[t] \in ProducerLabels
  /\ (\E l \in WorkTargets : Go(t, l) /\ (l \in ScanLabels => pc[t] \in ScanLabels)) \/ pc' = pc
  /\ fl' = fl \/ \E v : Locals(t, v)
  /\ ql' = ql \/ \E w : Remember(t, w) /\ w.p = ql[t].p
  /\ UNCHANGED outsideProducer

\* What the assignments of such a step leave.
LEMMA WorksWork ==
  ASSUME TableInv, WriterInv, NEW t \in Threads, Works(t)
  PROVE  WorkStep(t)
<1>1. UNCHANGED <<hl, producers, destroyed, poolSize>>
  BY DEF Works, outsideProducer, tableVars, fixed
<1>2. /\ pc'[t] \in WorkTargets /\ (pc'[t] \in ScanLabels => pc[t] \in ScanLabels)
      /\ DOMAIN pc' = Threads /\ \A u \in Threads : u # t => pc'[u] = pc[u]
  <2>1. pc[t] \in WorkTargets
    BY DEF Works, WorkTargets
  <2> QED
    BY <2>1, TableSets DEF Works
<1>3. DOMAIN fl' = Threads /\ \A u \in Threads : u # t => fl'[u] = fl[u]
  BY DEF Works, Locals, WriterInv
<1>4. DOMAIN ql' = Threads /\ (\A u \in Threads : u # t => ql'[u] = ql[u]) /\ ql'[t].p = ql[t].p
  BY TableSets DEF Works
<1> QED
  BY <1>1, <1>2, <1>3, <1>4 DEF WorkStep, Works

\* The labels of these steps.
LEMMA WorkLabels ==
  /\ \A l \in {"poolinc", "getload", "getrefs", "getinc", "getnext", "getcas", "getsub", "getdec",
               "create", "gotblock", "addhead", "addnext", "addrefs", "addcas", "addretry",
               "dequeued", "requisition", "insert", "settail", "construct", "publish", "enqueued",
               "failed", "addblock", "lookup", "entry", "take", "setempty", "release"} :
       l \in WorkTargets /\ l \notin ScanLabels
  /\ \A l \in {"count", "missed", "recheck", "claim", "overcommit"} : l \in WorkTargets
  /\ \A l \in {"dequeue", "count", "missed", "recheck", "claim", "overcommit"} : l \in ScanLabels
  /\ \A l \in EnqueueLabels \cup AddLabels : l \in ProducerLabels
  /\ \A l \in {"dequeue", "count", "recheck", "overcommit", "missed", "claim", "lookup", "entry",
               "take", "setempty", "release"} : l \in ProducerLabels
<1>1. \A l \in {"poolinc", "getload", "getrefs", "getinc", "getnext", "getcas", "getsub", "getdec",
               "create", "gotblock", "addhead", "addnext", "addrefs", "addcas", "addretry",
               "dequeued", "requisition", "insert", "settail", "construct", "publish", "enqueued",
               "failed", "addblock", "lookup", "entry", "take", "setempty", "release"} :
       l \notin ScanLabels
  BY DEF ScanLabels
<1>2. \A l \in EnqueueLabels \cup AddLabels : l \in ProducerLabels
  BY DEF ProducerLabels
<1>3. \A l \in {"dequeue", "count", "recheck", "overcommit", "missed", "claim", "lookup", "entry",
               "take", "setempty", "release"} : l \in ProducerLabels
  BY DEF ProducerLabels
<1>4. \A l \in {"poolinc", "getload", "getrefs", "getinc", "getnext", "getcas", "getsub", "getdec",
               "create", "gotblock", "requisition", "insert", "settail", "construct", "publish"} :
        l \in EnqueueLabels
  BY DEF EnqueueLabels
<1>5. \A l \in {"addblock", "addhead", "addnext", "addrefs", "addcas", "addretry"} : l \in AddLabels
  BY DEF AddLabels
<1>6. \A l \in {"dequeue", "count", "missed", "recheck", "claim", "overcommit"} : l \in ScanLabels
  BY DEF ScanLabels
<1> QED
  BY <1>1, <1>2, <1>3, <1>4, <1>5, <1>6 DEF WorkTargets

\* A step of BlockPool, which changes nothing of the producers.
LEMMA PoolWorks ==
  ASSUME WriterInv, NEW t \in Threads, Pool(t)
  PROVE  Works(t) /\ UNCHANGED <<ql, producerVars>>
<1> DEFINE Targets == {"poolinc", "getload", "getrefs", "getinc", "getnext", "getcas", "getsub",
               "getdec", "create", "gotblock", "addhead", "addnext", "addrefs", "addcas",
               "addretry", "dequeued"}
           Out == /\ pc[t] \in EnqueueLabels \cup AddLabels
                  /\ \E l \in Targets : Go(t, l)
                  /\ fl' = fl \/ \E v : Locals(t, v)
                  /\ UNCHANGED outsidePool
<1>1. PoolTest(t) => Out
  BY DEF PoolTest, EnqueueLabels
<1>2. PoolIncrement(t) => Out
  BY DEF PoolIncrement, EnqueueLabels
<1>3. GetLoad(t) => Out
  BY DEF GetLoad, TryHead, EnqueueLabels
<1>4. GetRefs(t) => Out
  BY DEF GetRefs, EnqueueLabels
<1>5. GetIncrement(t) => Out
  BY DEF GetIncrement, EnqueueLabels
<1>6. GetNext(t) => Out
  BY DEF GetNext, EnqueueLabels
<1>7. GetCas(t) => Out
  BY DEF GetCas, EnqueueLabels
<1>8. GetDone(t) => Out
  BY DEF GetDone, EnqueueLabels
<1>9. GetDecrement(t) => Out
  BY DEF GetDecrement, TryHead, EnqueueLabels
<1>10. Create(t) => Out
  BY DEF Create, EnqueueLabels
<1>11. AddBlock(t) => Out
  BY DEF AddBlock, Add, Added, TryHead, AddLabels
<1>12. AddHead(t) => Out
  BY DEF AddHead, AddLabels
<1>13. AddNext(t) => Out
  BY DEF AddNext, AddLabels
<1>14. AddRefs(t) => Out
  BY DEF AddRefs, AddLabels
<1>15. AddCas(t) => Out
  BY DEF AddCas, Added, TryHead, AddLabels
<1>16. AddRetry(t) => Out
  BY DEF AddRetry, Added, TryHead, AddLabels
<1>17. Out
  BY <1>1, <1>2, <1>3, <1>4, <1>5, <1>6, <1>7, <1>8, <1>9, <1>10, <1>11, <1>12, <1>13, <1>14,
     <1>15, <1>16 DEF Pool
<1>18. \A l \in Targets : l \in WorkTargets /\ l \notin ScanLabels
  BY WorkLabels
<1>19. pc[t] \in ProducerLabels
  BY <1>17, WorkLabels
<1>20. UNCHANGED <<ql, producerVars, outsideProducer>>
  BY <1>17 DEF outsidePool
<1> HIDE DEF Targets
<1> QED
  BY <1>17, <1>18, <1>19, <1>20 DEF Works

\* A step of ImplicitProducer.
LEMMA ProducerWorks ==
  ASSUME WriterInv, ql \in [Threads -> ElementLocals], NEW t \in Threads, Producer(t)
  PROVE  Works(t)
<1> DEFINE W(w) == Remember(t, w) /\ w.p = ql[t].p
           Out == /\ pc[t] \in ProducerLabels
                  /\ fl' = fl \/ \E v : Locals(t, v)
                  /\ UNCHANGED outsideProducer
           Same == ql' = ql \/ \E w : W(w)
           To(l) == Go(t, l) /\ l \in WorkTargets /\ (l \in ScanLabels => pc[t] \in ScanLabels)
           Goes1 == (\E l : To(l)) \/ pc' = pc
<1>0. ql[t] \in ElementLocals
  OBVIOUS
<1>a. /\ \A x : Remember(t, [ql[t] EXCEPT !.index = x]) => Same
      /\ \A x : Remember(t, [ql[t] EXCEPT !.entry = x]) => Same
      /\ \A x : Remember(t, [ql[t] EXCEPT !.over = x]) => Same
      /\ \A x : Remember(t, [ql[t] EXCEPT !.mine = x]) => Same
      /\ \A x, y : Remember(t, [ql[t] EXCEPT !.header = x, !.tail = y]) => Same
      /\ \A x, y, z : Remember(t, [ql[t] EXCEPT !.header = x, !.tail = y, !.entry = z]) => Same
      /\ \A x, y : Remember(t, [ql[t] EXCEPT !.block = x, !.element = y]) => Same
      /\ \A y : Remember(t, [NoElement EXCEPT !.p = ql[t].p, !.index = y]) => Same
  <2>1. \A w : w.p = ql[t].p /\ Remember(t, w) => Same
    OBVIOUS
  <2>2. /\ \A x : [ql[t] EXCEPT !.index = x].p = ql[t].p
        /\ \A x : [ql[t] EXCEPT !.entry = x].p = ql[t].p
        /\ \A x : [ql[t] EXCEPT !.over = x].p = ql[t].p
        /\ \A x : [ql[t] EXCEPT !.mine = x].p = ql[t].p
        /\ \A x, y : [ql[t] EXCEPT !.header = x, !.tail = y].p = ql[t].p
        /\ \A x, y, z : [ql[t] EXCEPT !.header = x, !.tail = y, !.entry = z].p = ql[t].p
        /\ \A x, y : [ql[t] EXCEPT !.block = x, !.element = y].p = ql[t].p
    BY <1>0 DEF ElementLocals
  <2>3. \A y : [NoElement EXCEPT !.p = ql[t].p, !.index = y].p = ql[t].p
    BY DEF NoElement
  <2> HIDE DEF Same
  <2>4. \A x : Remember(t, [ql[t] EXCEPT !.index = x]) => Same
    BY ONLY <2>1, <2>2
  <2>5. \A x : Remember(t, [ql[t] EXCEPT !.entry = x]) => Same
    BY ONLY <2>1, <2>2
  <2>6. \A x : Remember(t, [ql[t] EXCEPT !.over = x]) => Same
    BY ONLY <2>1, <2>2
  <2>7. \A x : Remember(t, [ql[t] EXCEPT !.mine = x]) => Same
    BY ONLY <2>1, <2>2
  <2>8. \A x, y : Remember(t, [ql[t] EXCEPT !.header = x, !.tail = y]) => Same
    BY ONLY <2>1, <2>2
  <2>9. \A x, y, z : Remember(t, [ql[t] EXCEPT !.header = x, !.tail = y, !.entry = z]) => Same
    <3> SUFFICES ASSUME NEW x, NEW y, NEW z,
                        Remember(t, [ql[t] EXCEPT !.header = x, !.tail = y, !.entry = z])
                 PROVE  Same
      OBVIOUS
    <3>1. [ql[t] EXCEPT !.header = x, !.tail = y, !.entry = z].p = ql[t].p
      BY ONLY <2>2
    <3> QED
      BY <2>1, <3>1
  <2>10. \A x, y : Remember(t, [ql[t] EXCEPT !.block = x, !.element = y]) => Same
    BY ONLY <2>1, <2>2
  <2>11. \A y : Remember(t, [NoElement EXCEPT !.p = ql[t].p, !.index = y]) => Same
    BY ONLY <2>1, <2>3
  <2> QED
    BY ONLY <2>4, <2>5, <2>6, <2>7, <2>8, <2>9, <2>10, <2>11
<1>b. UNCHANGED ql => Same
  OBVIOUS
<1> HIDE DEF Same, To
<1>1. Enqueue(t) => Out /\ Same /\ Goes1
  <2>1. Enqueue(t) => To("insert") \/ To("construct")
    BY WorkLabels DEF Enqueue, To
  <2> QED
    BY <1>a, <2>1 DEF Enqueue, ProducerLabels, EnqueueLabels
<1>2. Insert(t) => Out /\ Same /\ Goes1
  <2> SUFFICES ASSUME Insert(t) PROVE Out /\ Same /\ Goes1
    OBVIOUS
  <2>1. pc[t] = "insert" /\ fl' = fl /\ UNCHANGED outsideProducer
    BY DEF Insert
  <2>2. (Go(t, "settail") \/ pc' = pc)
        /\ (UNCHANGED ql \/ \E x : Remember(t, [ql[t] EXCEPT !.entry = x]))
    BY DEF Insert
  <2>3. Go(t, "settail") => To("settail")
    BY WorkLabels DEF To
  <2> QED
    BY <2>1, <2>2, <2>3, <1>a, <1>b, WorkLabels DEF EnqueueLabels
<1>3. InsertTail(t) => Out /\ Same /\ Goes1
  <2>1. InsertTail(t) => To("requisition")
    BY WorkLabels DEF InsertTail, To
  <2> QED
    BY <1>b, <2>1 DEF InsertTail, ProducerLabels, EnqueueLabels
<1>4. GotNoBlock(t) => Out /\ Same /\ Goes1
  <2>1. GotNoBlock(t) => To("failed")
    BY WorkLabels DEF GotNoBlock, To
  <2> QED
    BY <1>b, <2>1 DEF GotNoBlock, ProducerLabels, EnqueueLabels
<1>5. GotBlock(t) => Out /\ Same /\ Goes1
  <2>1. GotBlock(t) => To("construct")
    BY WorkLabels DEF GotBlock, To
  <2> QED
    BY <1>b, <2>1 DEF GotBlock, ProducerLabels, EnqueueLabels
<1>6. Construct(t) => Out /\ Same /\ Goes1
  <2>1. Construct(t) => To("publish")
    BY WorkLabels DEF Construct, To
  <2> QED
    BY <1>b, <2>1 DEF Construct, ProducerLabels, EnqueueLabels
<1>7. Publish(t) => Out /\ Same /\ Goes1
  <2>1. Publish(t) => To("enqueued")
    BY WorkLabels DEF Publish, To
  <2> QED
    BY <1>b, <2>1 DEF Publish, ProducerLabels, EnqueueLabels
<1>8. Dequeue(t) => Out /\ Same /\ Goes1
  <2>1. Dequeue(t) => To("count") \/ To("missed")
    BY WorkLabels DEF Dequeue, To
  <2> QED
    BY <1>a, <2>1 DEF Dequeue, ProducerLabels
<1>9. CountIn(t) => Out /\ Same /\ Goes1
  <2>1. CountIn(t) => To("recheck")
    BY WorkLabels DEF CountIn, To
  <2> QED
    BY <1>a, <2>1 DEF CountIn, ProducerLabels
<1>10. Recheck(t) => Out /\ Same /\ Goes1
  <2>1. Recheck(t) => To("claim") \/ To("overcommit")
    BY WorkLabels DEF Recheck, To
  <2> QED
    BY <1>b, <2>1 DEF Recheck, ProducerLabels
<1>11. OverCommit(t) => Out /\ Same /\ Goes1
  <2>1. OverCommit(t) => To("missed")
    BY WorkLabels DEF OverCommit, To
  <2> QED
    BY <1>b, <2>1 DEF OverCommit, ProducerLabels
<1>12. Claim(t) => Out /\ Same /\ Goes1
  <2>1. Claim(t) => To("lookup")
    BY WorkLabels DEF Claim, To
  <2> QED
    BY <1>a, <2>1 DEF Claim, ProducerLabels
<1>13. Lookup(t) => Out /\ Same /\ Goes1
  <2>1. Lookup(t) => To("entry")
    BY WorkLabels DEF Lookup, To
  <2> QED
    BY <1>a, <2>1 DEF Lookup, ProducerLabels
<1>14. Entry(t) => Out /\ Same /\ Goes1
  <2>1. Entry(t) => To("take")
    BY WorkLabels DEF Entry, To
  <2> QED
    BY <1>a, <2>1 DEF Entry, ProducerLabels
<1>15. Take(t) => Out /\ Same /\ Goes1
  <2>1. Take(t) => To("setempty")
    BY WorkLabels DEF Take, To
  <2>2. Take(t) => \E x, y : Remember(t, [ql[t] EXCEPT !.block = x, !.element = y])
    BY DEF Take
  <2> QED
    BY <1>a, <2>1, <2>2 DEF Take, ProducerLabels
<1>16. SetEmpty(t) => Out /\ Same /\ Goes1
  <2>1. SetEmpty(t) => To("release") \/ To("dequeued")
    BY WorkLabels DEF SetEmpty, To
  <2> QED
    BY <1>b, <2>1 DEF SetEmpty, ProducerLabels
<1>17. Release(t) => Out /\ Same /\ Goes1
  <2>1. Release(t) => To("addblock")
    BY WorkLabels DEF Release, To
  <2> QED
    BY <1>b, <2>1 DEF Release, ProducerLabels
<1>18. Out /\ Same /\ Goes1
  BY <1>1, <1>2, <1>3, <1>4, <1>5, <1>6, <1>7, <1>8, <1>9, <1>10, <1>11, <1>12, <1>13, <1>14,
     <1>15, <1>16, <1>17 DEF Producer
<1> QED
  BY <1>18 DEF Same, To, Works

\* The producers that are worked on exist at every step.
LEMMA RangeCalm ==
  ASSUME RangeInv, NEW t \in Threads, CalmStep(t), Ranged(t)'
  PROVE  RangeInv'
<1>1. producers' \in Nat /\ producers \in Nat /\ producers <= producers'
        /\ producers' <= MaxProducers
  BY DEF CalmStep
<1>2. ASSUME NEW u \in Threads, u # t PROVE Ranged(u)'
  <2>1. pc'[u] = pc[u] /\ ql'[u] = ql[u] /\ hl'[u] = hl[u]
    BY <1>2 DEF CalmStep
  <2>2. Ranged(u)
    BY DEF RangeInv
  <2>3. ql[u].p \in 1 .. producers => ql[u].p \in 1 .. producers'
    BY <1>1
  <2>4. hl[u] \in ScanLocals(producers) => hl[u] \in ScanLocals(producers')
    <3>1. 0 .. producers \subseteq 0 .. producers'
      BY <1>1
    <3> QED
      BY <3>1 DEF ScanLocals
  <2> QED
    BY <2>1, <2>2, <2>3, <2>4 DEF Ranged
<1> QED
  BY <1>1, <1>2 DEF RangeInv

\* The producer stays one that exists.
LEMMA RangeWork ==
  ASSUME RangeInv, NEW t \in Threads, WorkStep(t)
  PROVE  RangeInv'
<1>1. ASSUME NEW u \in Threads PROVE Ranged(u)'
  <2>1. CASE u # t
    <3>1. pc'[u] = pc[u] /\ ql'[u] = ql[u] /\ hl'[u] = hl[u] /\ producers' = producers
      BY <2>1 DEF WorkStep
    <3> QED
      BY <3>1 DEF RangeInv, Ranged
  <2>2. CASE u = t
    <3>1. /\ ql'[t].p = ql[t].p /\ hl'[t] = hl[t] /\ producers' = producers
          /\ pc[t] \in ProducerLabels /\ (pc'[t] \in ScanLabels => pc[t] \in ScanLabels)
      BY DEF WorkStep
    <3>2. Ranged(t)
      BY DEF RangeInv
    <3> QED
      BY <2>2, <3>1, <3>2 DEF Ranged
  <2> QED
    BY <2>1, <2>2
<1> QED
  BY <1>1 DEF RangeInv, WorkStep

\* The labels of the tables' steps at which nothing is assumed of the local variables.
LEMMA CalmLabelsAre ==
  \A l \in CalmLabels : l \in ScanLabels \/ l \in ProducerLabels =>
    l \in {"scan", "dequeue", "missed", "enqueue"}
BY DEF CalmLabels, ScanLabels, ProducerLabels, EnqueueLabels, AddLabels

\* A search of try_dequeue starts at the newest producer.
LEMMA ScanStarts ==
  ASSUME RangeInv, TableInv, WriterInv, NEW t \in Threads, ScanFrom(t), producers' = producers
  PROVE  Ranged(t)'
<1>1. pc'[t] = "scan" /\ hl'[t] = [NoTable EXCEPT !.ptr = producers]
  BY TableSets DEF ScanFrom
<1>2. [NoTable EXCEPT !.ptr = producers] \in ScanLocals(producers)
  BY DEF NoTable, ScanLocals, RangeInv
<1>3. hl'[t].size = 0 /\ hl'[t].seen = 0
  BY <1>1 DEF NoTable
<1>4. "scan" \notin ProducerLabels
  BY DEF ProducerLabels, EnqueueLabels, AddLabels
<1> QED
  BY <1>1, <1>2, <1>3, <1>4 DEF Ranged

\* The types of the shared variables that the search reads.
CountersInv ==
  /\ tailIndex \in [Producers -> Nat]
  /\ headIndex \in [Producers -> Nat]
  /\ optimistic \in [Producers -> Nat]
  /\ overcommit \in [Producers -> Nat]

\* try_dequeue chooses a producer of the list.
LEMMA ScanRanged ==
  ASSUME RangeInv, TableInv, WriterInv, CountersInv, NEW t \in Threads,
         WaitDequeue(t) \/ Scan(t) \/ Scanned(t) \/ Missed(t)
  PROVE  Ranged(t)'
<1>1. producers' = producers
  BY DEF WaitDequeue, Scan, Scanned, Missed, tableVars
<1>2. CASE WaitDequeue(t)
  BY <1>1, <1>2, ScanStarts DEF WaitDequeue
<1>3. CASE Scan(t)
  <2>1. pc[t] = "scan" /\ hl[t] \in ScanLocals(producers) /\ Ranged(t)
    BY <1>3 DEF Scan, RangeInv, Ranged, ScanLabels
  <2>2. PICK p : p = hl[t].ptr
    OBVIOUS
  <2>3. p \in 1 .. producers /\ p - 1 \in 0 .. producers
    BY <1>3, <2>1, <2>2 DEF Scan, ScanLocals, RangeInv
  <2>4. PICK size \in Nat : size = SizeApprox(p)
    <3>1. p \in Producers
      BY <2>3, ProducerAssumption DEF RangeInv, Producers
    <3> QED
      BY <3>1 DEF SizeApprox, CountersInv
  <2>5. /\ pc' = pc
        /\ Store(t, [hl[t] EXCEPT
             !.ptr = p - 1,
             !.seen = IF size > 0 THEN @ + 1 ELSE @,
             !.best = IF size > hl[t].size THEN p ELSE @,
             !.size = IF size > @ THEN size ELSE @])
    BY <1>3, <2>2, <2>4 DEF Scan
  <2>6. PICK a, b, c : /\ a = IF size > 0 THEN hl[t].seen + 1 ELSE hl[t].seen
                       /\ b = IF size > hl[t].size THEN p ELSE hl[t].best
                       /\ c = IF size > hl[t].size THEN size ELSE hl[t].size
    OBVIOUS
  <2>7. hl'[t] = [hl[t] EXCEPT !.ptr = p - 1, !.seen = a, !.best = b, !.size = c]
    <3>1. hl'[t] = [hl[t] EXCEPT
             !.ptr = p - 1,
             !.seen = IF size > 0 THEN @ + 1 ELSE @,
             !.best = IF size > hl[t].size THEN p ELSE @,
             !.size = IF size > @ THEN size ELSE @]
      BY <2>5, TableSets
    <3> QED
      BY ONLY <2>1, <2>6, <3>1 DEF ScanLocals
  <2>8. /\ hl'[t] \in ScanLocals(producers)
        /\ hl'[t].size > 0 => hl'[t].best # 0
        /\ hl'[t].seen > 0 => hl'[t].size > 0
    <3>1. hl[t].size > 0 => hl[t].best # 0
      BY <2>1 DEF Ranged, ScanLabels
    <3>2. hl[t].seen > 0 => hl[t].size > 0
      BY <2>1 DEF Ranged, ScanLabels
    <3>5. hl[t].size \in Nat /\ hl[t].seen \in Nat /\ hl[t].best \in 0 .. producers
      BY <2>1 DEF ScanLocals
    <3>6. a \in Nat /\ b \in 0 .. producers /\ c \in Nat /\ producers \in Nat
      BY <2>3, <2>6, <3>5 DEF RangeInv
    <3>7. /\ hl'[t] \in ScanLocals(producers)
          /\ hl'[t].seen = a /\ hl'[t].best = b /\ hl'[t].size = c
      <4>1. PICK m, l, n : m = hl'[t] /\ l = hl[t] /\ n = producers
        OBVIOUS
      <4>2. m \in ScanLocals(n) /\ m.seen = a /\ m.best = b /\ m.size = c
        BY ONLY <2>1, <2>3, <2>7, <3>6, <4>1 DEF ScanLocals
      <4> QED
        BY ONLY <4>1, <4>2
    <3>8. (c > 0 => b # 0) /\ (a > 0 => c > 0)
      BY ONLY <2>3, <2>6, <3>1, <3>2, <3>5, size \in Nat
    <3> QED
      BY ONLY <3>7, <3>8
  <2>9. "scan" \notin ProducerLabels
    BY DEF ProducerLabels, EnqueueLabels, AddLabels
  <2> QED
    BY <1>1, <2>1, <2>5, <2>7, <2>8, <2>9 DEF Ranged
<1>4. CASE Scanned(t)
  <2>1. pc[t] = "scan" /\ hl[t] \in ScanLocals(producers) /\ Ranged(t)
    BY <1>4 DEF Scanned, RangeInv, Ranged, ScanLabels
  <2>2. CASE ScanFrom(t)
    BY <1>1, <2>2, ScanStarts
  <2>3. CASE /\ hl[t].seen > 0
             /\ Store(t, [NoTable EXCEPT !.best = hl[t].best])
             /\ Remember(t, [NoElement EXCEPT !.p = hl[t].best])
             /\ Go(t, "dequeue")
    <3>1. hl[t].best \in 1 .. producers
      BY <2>1, <2>3 DEF Ranged, ScanLabels, ScanLocals
    <3>2. /\ pc'[t] = "dequeue" /\ hl'[t] = [NoTable EXCEPT !.best = hl[t].best]
          /\ ql'[t] = [NoElement EXCEPT !.p = hl[t].best]
      BY <2>3, TableSets
    <3>3. ql'[t].p = hl[t].best
      BY <3>2 DEF NoElement
    <3>4. hl'[t] \in ScanLocals(producers) /\ hl'[t].size = 0 /\ hl'[t].seen = 0
      <4>1. producers \in Nat /\ hl[t].best \in 0 .. producers
        BY <3>1 DEF RangeInv
      <4> QED
        <5>1. PICK m, n : m = hl'[t] /\ n = producers
          OBVIOUS
        <5>2. m \in ScanLocals(n) /\ m.size = 0 /\ m.seen = 0
          BY ONLY <3>2, <4>1, <5>1 DEF ScanLocals, NoTable
        <5> QED
          BY ONLY <5>1, <5>2
    <3> QED
      BY <1>1, <3>1, <3>2, <3>3, <3>4 DEF Ranged
  <2> QED
    BY <1>4, <2>2, <2>3 DEF Scanned
<1>5. CASE Missed(t)
  <2>1. pc[t] = "missed" /\ hl[t] \in ScanLocals(producers) /\ Ranged(t)
    BY <1>5 DEF Missed, RangeInv, Ranged, ScanLabels
  <2>2. CASE ScanFrom(t)
    BY <1>1, <2>2, ScanStarts
  <2>3. CASE ~ ScanFrom(t)
    <3>1. PICK q : /\ q \in 1 .. (IF hl[t].pass = 1 THEN producers ELSE hl[t].ptr - 1)
                   /\ Store(t, [hl[t] EXCEPT !.ptr = q, !.pass = 2])
                   /\ Remember(t, [NoElement EXCEPT !.p = q])
                   /\ Go(t, "dequeue")
      BY <1>5, <2>3 DEF Missed
    <3>2. q \in 1 .. producers
      BY <2>1, <3>1 DEF ScanLocals, RangeInv
    <3>3. /\ pc'[t] = "dequeue" /\ hl'[t] = [hl[t] EXCEPT !.ptr = q, !.pass = 2]
          /\ ql'[t] = [NoElement EXCEPT !.p = q]
      BY <3>1, TableSets
    <3>4. ql'[t].p = q
      BY <3>3 DEF NoElement
    <3>5. /\ hl'[t] \in ScanLocals(producers) /\ hl'[t].size = hl[t].size
          /\ hl'[t].seen = hl[t].seen /\ hl'[t].best = hl[t].best
      <4>1. producers \in Nat /\ q \in 0 .. producers
        BY <3>2 DEF RangeInv
      <4> QED
        <5>1. PICK m, l, n : m = hl'[t] /\ l = hl[t] /\ n = producers
          OBVIOUS
        <5>2. m \in ScanLocals(n) /\ m.size = l.size /\ m.seen = l.seen /\ m.best = l.best
          BY ONLY <2>1, <3>3, <4>1, <5>1 DEF ScanLocals
        <5> QED
          BY ONLY <5>1, <5>2
    <3> QED
      BY <1>1, <2>1, <3>2, <3>3, <3>4, <3>5 DEF Ranged, ScanLabels
  <2> QED
    BY <2>2, <2>3
<1> QED
  BY <1>2, <1>3, <1>4, <1>5

\* An enqueue gets a producer of the list.
LEMMA RangeTable ==
  ASSUME QueueInv, WriterInv, RangeInv, CountersInv, NEW t \in Threads, Table(t)
  PROVE  RangeInv'
<1>0. TableInv /\ CalmStep(t)
  BY TableCalm DEF QueueInv
<1>1. CASE WaitDequeue(t) \/ Scan(t) \/ Scanned(t) \/ Missed(t)
  BY <1>0, <1>1, ScanRanged, RangeCalm
<1>2. CASE Find(t) \/ Relink(t) \/ Place(t)
  <2>1. Calmly(t) /\ (pc'[t] \in {"enqueue", "relink", "newcount", "place"})
        /\ (pc'[t] = "enqueue" => Enters(t))
    <3>1. CASE Find(t)
      <4>1. \/ Go(t, "enqueue") /\ Enters(t)
            \/ Go(t, "relink")
            \/ Go(t, "newcount")
        BY <3>1, FindFinds DEF Enters, QueueInv, OwnersInv
      <4> QED
        BY <1>0, <3>1, <4>1, FindCalm, TableSets
    <3>2. CASE Relink(t) \/ Place(t)
      <4>1. pc[t] \in Placing /\ (Occupy(t) \/ ProbeNext(t))
        BY <3>2 DEF Relink, Place, Placing
      <4>2. hl[t].p \in 1 .. producers
        BY <4>1, PlacingFacts DEF QueueInv, OwnersInv
      <4>3. Occupy(t) => Go(t, "enqueue") /\ Enters(t)
        BY <4>2 DEF Occupy, Enters
      <4>4. ProbeNext(t) => pc' = pc
        BY DEF ProbeNext
      <4> QED
        BY <1>0, <3>2, <4>1, <4>3, <4>4, PlacingCalm, TableSets DEF Placing
    <3> QED
      BY <1>2, <3>1, <3>2
  <2>2. Enters(t) => ql'[t].p \in 1 .. producers
    <3> SUFFICES ASSUME NEW x \in 1 .. producers, Remember(t, [NoElement EXCEPT !.p = x])
                 PROVE  ql'[t].p \in 1 .. producers
      BY DEF Enters
    <3>1. ql'[t] = [NoElement EXCEPT !.p = x]
      BY <1>0, TableSets
    <3> QED
      BY <3>1 DEF NoElement
  <2>3. producers' \in Nat /\ producers \in Nat /\ producers <= producers'
    BY <1>0 DEF CalmStep
  <2>4. Ranged(t)'
    BY <2>1, <2>2, <2>3 DEF Ranged, ScanLabels, ProducerLabels, EnqueueLabels, AddLabels
  <2> QED
    BY <1>0, <2>4, RangeCalm
<1>3. CASE \/ NewCount(t) \/ Resize(t) \/ Grow(t) \/ Room(t) \/ Recycle(t) \/ AddProducer(t)
           \/ Subscribe(t) \/ EnqueueReturns(t) \/ DequeueReturns(t) \/ Exit(t) \/ Leave(t)
           \/ ExitReturns(t)
  <2>1. /\ pc[t] \notin ScanLabels \cup ProducerLabels \/ ~ (pc' = pc)
        /\ \/ \E l \in {"resize", "grow", "room", "recycle", "subscribe", "place", "idle",
                "leave"} :
                Go(t, l)
           \/ pc' = pc
    <3> DEFINE Labels == {"resize", "grow", "room", "recycle", "subscribe", "place", "idle",
                 "leave"}
               Out == \/ \E l \in Labels : Go(t, l)
                      \/ pc[t] \in Labels /\ pc' = pc
    <3>1. Out
      BY <1>3 DEF NewCount, Resize, Grow, Room, Recycle, AddProducer, Subscribe, EnqueueReturns,
        DequeueReturns, Exit, Leave, ExitReturns, Returns, AwaitTable
    <3>2. \A l \in Labels : l \notin ScanLabels \cup ProducerLabels
      BY DEF ScanLabels, ProducerLabels, EnqueueLabels, AddLabels
    <3>3. pc[t] \in ProducerLabels \cup ScanLabels => ~ (pc' = pc) \/ pc[t] \in Labels
      BY <1>0, <3>1, TableSets, <3>2
    <3> QED
      BY <3>1, <3>2, <3>3
  <2>2. pc'[t] \notin ScanLabels \cup ProducerLabels
    <3>1. \A l \in {"resize", "grow", "room", "recycle", "subscribe", "place", "idle", "leave"} :
            l \notin ScanLabels \cup ProducerLabels
      BY DEF ScanLabels, ProducerLabels, EnqueueLabels, AddLabels
    <3> QED
      BY <1>0, <2>1, <3>1, TableSets
  <2> QED
    BY <1>0, <2>2, RangeCalm DEF Ranged
<1> QED
  BY <1>1, <1>2, <1>3 DEF Table

-----------------------------------------------------------------------------
(* Types.                                                                  *)

Addresses == {0} \cup Blocks
PoolLocals ==
  [block : Addresses, head : Addresses, prev : Addresses, next : Addresses, refs : Int,
   to : Addresses, getting : BOOLEAN]

\* What BlockPool's variables hold, and that try_get follows no null pointer.
PoolTypes ==
  /\ poolSize \in 0 .. MaxBlocks
  /\ poolIndex \in Nat
  /\ heap \in [Blocks -> Int]
  /\ freeListRefs \in [Blocks -> Int]
  /\ freeListNext \in [Blocks -> Addresses]
  /\ freeListHead \in Addresses
  /\ fl \in [Threads -> PoolLocals]
  /\ \A t \in Threads : pc[t] \in {"getrefs", "getinc", "getnext"} => fl[t].head # 0

\* The assignments of one thread to its local variables.
LEMMA Assigned ==
  ASSUME TableInv, WriterInv, NEW t \in Threads
  PROVE  /\ \A l : Go(t, l) => pc'[t] = l
         /\ \A v : Locals(t, v) => fl'[t] = v
         /\ \A w : Remember(t, w) => ql'[t] = w
BY DEF TableInv, WriterInv, Go, Locals, Remember

\* The variables of a thread outside BlockPool are such a record.
LEMMA NoBlockIs == NoBlock \in PoolLocals
BY DEF PoolLocals, NoBlock, Addresses

\* A step that assigns a record of that kind, and what it may assign to the pool.
PoolTyped(t) ==
  /\ \E l : Go(t, l)
  /\ fl' = fl \/ \E v \in PoolLocals : Locals(t, v)
  /\ pc'[t] \in {"getrefs", "getinc", "getnext"} => fl'[t].head # 0
  /\ poolSize' = poolSize
  /\ poolIndex' \in Nat
  /\ heap' \in [Blocks -> Int]
  /\ freeListRefs' \in [Blocks -> Int]
  /\ freeListNext' \in [Blocks -> Addresses]
  /\ freeListHead' \in Addresses

\* Typed assignments keep the types.
LEMMA TypedPool ==
  ASSUME TableInv, PoolTypes, NEW t \in Threads, PoolTyped(t)
  PROVE  PoolTypes'
<1>1. fl' \in [Threads -> PoolLocals]
  BY DEF PoolTyped, PoolTypes, Locals
<1>2. ASSUME NEW u \in Threads, u # t PROVE pc'[u] = pc[u] /\ fl'[u] = fl[u]
  BY <1>2 DEF PoolTyped, PoolTypes, TableInv, Go, Locals
<1>3. \A u \in Threads : pc'[u] \in {"getrefs", "getinc", "getnext"} => fl'[u].head # 0
  BY <1>2 DEF PoolTyped, PoolTypes
<1> QED
  BY <1>1, <1>3 DEF PoolTyped, PoolTypes

\* The head of the list that try_get goes on with.
LEMMA TriedHead ==
  ASSUME TableInv, WriterInv, PoolTypes, NEW t \in Threads, NEW h \in Addresses, TryHead(t, h)
  PROVE  /\ \E l : Go(t, l)
         /\ \E v \in PoolLocals : Locals(t, v)
         /\ pc'[t] = IF h = 0 THEN "create" ELSE "getrefs"
         /\ fl'[t] = [NoBlock EXCEPT !.head = h]
         /\ fl'[t].head = h
<1>1. [NoBlock EXCEPT !.head = h] \in PoolLocals
  BY NoBlockIs DEF PoolLocals
<1>2. [NoBlock EXCEPT !.head = h].head = h
  BY DEF NoBlock
<1> QED
  BY <1>1, <1>2, Assigned DEF TryHead

\* The end of an add, inside try_get or not.
LEMMA AddedTyped ==
  ASSUME TableInv, WriterInv, PoolTypes, NEW t \in Threads, Added(t)
  PROVE  /\ \E l : Go(t, l)
         /\ \E v \in PoolLocals : Locals(t, v)
         /\ pc'[t] \in {"create", "getrefs", "dequeued"}
         /\ pc'[t] = "getrefs" => fl'[t].head # 0
<1>1. fl[t].head \in Addresses /\ NoBlock \in PoolLocals
  BY NoBlockIs DEF PoolTypes, PoolLocals, Addresses
<1> QED
  BY <1>1, TriedHead, Assigned DEF Added

\* The types of the pool of blocks are kept.
LEMMA PoolTypesKept ==
  ASSUME TableInv, WriterInv, PoolTypes, NEW t \in Threads, Pool(t)
  PROVE  PoolTypes'
<1>0. /\ fl[t] \in PoolLocals /\ UNCHANGED poolSize
      /\ 0 \in Addresses /\ Blocks \subseteq Addresses
      /\ fl[t].head \in Addresses /\ fl[t].block \in Addresses /\ fl[t].to \in Addresses
      /\ fl[t].next \in Addresses /\ fl[t].prev \in Addresses
  BY PoolWorks DEF PoolTypes, Works, outsideProducer, fixed, Addresses, PoolLocals
<1>a. \A b, n : n \in Int /\ AddToRefs(b, n) => freeListRefs' \in [Blocks -> Int]
  <2> SUFFICES ASSUME NEW b, NEW n \in Int, AddToRefs(b, n) PROVE freeListRefs' \in [Blocks -> Int]
    OBVIOUS
  <2>1. b \in Blocks => freeListRefs[b] + n \in Int
    BY DEF PoolTypes
  <2>2. freeListRefs' = [freeListRefs EXCEPT ![b] = freeListRefs[b] + n]
    BY DEF AddToRefs
  <2> QED
    BY <2>1, <2>2 DEF PoolTypes
<1>b. SHOULD_BE_ON_FREELIST \in Int /\ REFS_MASK + 1 = SHOULD_BE_ON_FREELIST
  BY DEF SHOULD_BE_ON_FREELIST, REFS_MASK
<1>1. CASE PoolTest(t)
  <2>1. /\ \E l : Go(t, l)
        /\ pc'[t] \in {"getload", "poolinc"} /\ fl' = fl /\ UNCHANGED poolVars
    BY <1>1, Assigned DEF PoolTest
  <2> QED
    BY <1>0, <2>1, TypedPool DEF PoolTyped, poolVars, PoolTypes
<1>2. CASE PoolIncrement(t)
  <2>1. /\ \E l : Go(t, l)
        /\ pc'[t] \in {"gotblock", "getload"} /\ poolIndex' = poolIndex + 1
        /\ UNCHANGED <<heap, freeListHead, freeListRefs, freeListNext>>
    BY <1>2, Assigned DEF PoolIncrement
  <2>2. fl' = fl \/ \E v \in PoolLocals : Locals(t, v)
    <3>1. CASE poolIndex < poolSize /\ Locals(t, [NoBlock EXCEPT !.block = poolIndex + 1])
      <4>1. poolIndex + 1 \in Addresses
        BY <3>1, BlocksAssumption DEF PoolTypes, Addresses, Blocks
      <4> QED
        BY <3>1, <4>1, NoBlockIs DEF PoolLocals
    <3> QED
      BY <1>2, <3>1 DEF PoolIncrement
  <2> QED
    BY <1>0, <2>1, <2>2, TypedPool DEF PoolTyped, PoolTypes
<1>3. CASE GetLoad(t)
  <2>1. freeListHead \in Addresses /\ TryHead(t, freeListHead) /\ UNCHANGED poolVars
    BY <1>3 DEF GetLoad, PoolTypes
  <2> QED
    BY <1>0, <2>1, TriedHead, TypedPool DEF PoolTyped, poolVars, PoolTypes
<1>4. CASE GetRefs(t)
  <2>1. pc[t] = "getrefs" /\ UNCHANGED poolVars /\ fl[t].head # 0
    BY <1>4 DEF GetRefs, PoolTypes
  <2>2. CASE Go(t, "getload") /\ UNCHANGED fl
    BY <1>0, <2>1, <2>2, Assigned, TypedPool DEF PoolTyped, poolVars, PoolTypes
  <2>3. CASE Go(t, "getinc") /\ Locals(t, [fl[t] EXCEPT !.refs = freeListRefs[fl[t].head]])
    <3>1. freeListRefs[fl[t].head] \in Int
      BY <1>0, <2>1 DEF PoolTypes, Addresses
    <3>2. [fl[t] EXCEPT !.refs = freeListRefs[fl[t].head]] \in PoolLocals
      BY <1>0, <3>1 DEF PoolLocals
    <3>3. fl'[t].head = fl[t].head
      BY <1>0, <2>3, Assigned DEF PoolLocals
    <3> QED
      BY <1>0, <2>1, <2>3, <3>2, <3>3, Assigned, TypedPool DEF PoolTyped, poolVars, PoolTypes
  <2> QED
    BY <1>4, <2>2, <2>3 DEF GetRefs
<1>5. CASE GetIncrement(t)
  <2>1. /\ pc[t] = "getinc" /\ UNCHANGED <<poolIndex, heap, freeListHead, freeListNext, fl>>
        /\ fl[t].head # 0
        /\ Go(t, "getnext") \/ Go(t, "getload")
        /\ AddToRefs(fl[t].head, 1) \/ UNCHANGED freeListRefs
    BY <1>5 DEF GetIncrement, PoolTypes
  <2>2. freeListRefs' \in [Blocks -> Int]
    BY <1>a, <2>1 DEF PoolTypes
  <2>3. fl' = fl /\ \E l : Go(t, l)
    BY <2>1
  <2> QED
    BY <1>0, <2>1, <2>2, <2>3, TypedPool DEF PoolTyped, PoolTypes
<1>6. CASE GetNext(t)
  <2>1. pc[t] = "getnext" /\ UNCHANGED poolVars /\ fl[t].head # 0 /\ Go(t, "getcas")
    BY <1>6 DEF GetNext, PoolTypes
  <2>2. freeListNext[fl[t].head] \in Addresses /\ 0 \in Int
    BY <1>0, <2>1 DEF PoolTypes, Addresses
  <2>3. [fl[t] EXCEPT !.next = freeListNext[fl[t].head], !.refs = 0] \in PoolLocals
    BY <1>0, <2>2 DEF PoolLocals
  <2>4. \E v \in PoolLocals : Locals(t, v)
    BY <1>6, <2>3 DEF GetNext
  <2> QED
    BY <1>0, <2>1, <2>4, Assigned, TypedPool DEF PoolTyped, poolVars, PoolTypes
<1>7. CASE GetCas(t)
  <2>1. /\ pc[t] = "getcas" /\ UNCHANGED <<poolIndex, heap, freeListRefs, freeListNext>>
        /\ Go(t, "getsub") \/ Go(t, "getdec")
    BY <1>7 DEF GetCas
  <2>2. freeListHead' \in Addresses
    BY <1>0, <1>7 DEF GetCas, PoolTypes
  <2>3. fl' = fl \/ \E v \in PoolLocals : Locals(t, v)
    <3>1. [NoBlock EXCEPT !.head = freeListHead, !.prev = fl[t].head] \in PoolLocals
      BY <1>0, NoBlockIs DEF PoolTypes, PoolLocals
    <3> QED
      BY <1>7, <3>1 DEF GetCas
  <2>4. pc'[t] \in {"getsub", "getdec"} /\ \E l : Go(t, l)
    BY <2>1, Assigned
  <2> QED
    BY <1>0, <2>1, <2>2, <2>3, <2>4, TypedPool DEF PoolTyped, PoolTypes
<1>8. CASE GetDone(t)
  <2>1. /\ pc[t] = "getsub" /\ UNCHANGED <<poolIndex, heap, freeListHead, freeListNext>>
        /\ Go(t, "gotblock") /\ freeListRefs' \in [Blocks -> Int]
    BY <1>8, <1>a DEF GetDone
  <2>2. \E v \in PoolLocals : Locals(t, v)
    <3>1. [NoBlock EXCEPT !.block = fl[t].head] \in PoolLocals
      BY <1>0, NoBlockIs DEF PoolTypes, PoolLocals
    <3> QED
      BY <1>8, <3>1 DEF GetDone
  <2> QED
    BY <1>0, <2>1, <2>2, Assigned, TypedPool DEF PoolTyped, PoolTypes
<1>9. CASE GetDecrement(t)
  <2>1. /\ pc[t] = "getdec" /\ UNCHANGED <<poolIndex, heap, freeListHead, freeListNext>>
        /\ freeListRefs' \in [Blocks -> Int]
    BY <1>9, <1>a DEF GetDecrement
  <2>2. CASE TryHead(t, fl[t].head)
    BY <1>0, <2>1, <2>2, TriedHead, TypedPool DEF PoolTyped, PoolTypes
  <2>3. CASE Go(t, "addhead") /\ Locals(t, [fl[t] EXCEPT !.block = fl[t].prev, !.getting = TRUE])
    <3>1. [fl[t] EXCEPT !.block = fl[t].prev, !.getting = TRUE] \in PoolLocals
      BY <1>0, NoBlockIs DEF PoolTypes, PoolLocals
    <3> QED
      BY <1>0, <2>1, <2>3, <3>1, Assigned, TypedPool DEF PoolTyped, PoolTypes
  <2> QED
    BY <1>9, <2>2, <2>3 DEF GetDecrement
<1>10. CASE Create(t)
  <2>1. /\ pc[t] = "create" /\ UNCHANGED <<poolIndex, freeListHead>> /\ Go(t, "gotblock")
    BY <1>10 DEF Create
  <2>2. CASE Locals(t, NoBlock) /\ UNCHANGED <<heap, freeListRefs, freeListNext>>
    <3>1. NoBlock \in PoolLocals
      BY <1>0, NoBlockIs DEF PoolTypes, PoolLocals
    <3> QED
      BY <1>0, <2>1, <2>2, <3>1, Assigned, TypedPool DEF PoolTyped, PoolTypes
  <2>3. CASE \E b \in Unallocated : NewBlock(b) /\ Locals(t, [NoBlock EXCEPT !.block = b])
    <3>1. PICK b \in Blocks : NewBlock(b) /\ Locals(t, [NoBlock EXCEPT !.block = b])
      BY <2>3 DEF Unallocated
    <3>2. [NoBlock EXCEPT !.block = b] \in PoolLocals
      BY <1>0, NoBlockIs DEF PoolTypes, PoolLocals
    <3>3. heap' \in [Blocks -> Int] /\ freeListRefs' \in [Blocks -> Int]
          /\ freeListNext' \in [Blocks -> Addresses]
      BY <1>0, <3>1 DEF NewBlock, PoolTypes
    <3> QED
      BY <1>0, <2>1, <3>1, <3>2, <3>3, Assigned, TypedPool DEF PoolTyped, PoolTypes
  <2> QED
    BY <1>10, <2>2, <2>3 DEF Create
<1>11. CASE AddBlock(t)
  <2>1. /\ pc[t] = "addblock" /\ UNCHANGED <<poolIndex, freeListHead, freeListNext>>
        /\ heap' \in [Blocks -> Int] /\ freeListRefs' \in [Blocks -> Int]
        /\ Added(t) \/ (Go(t, "addhead") /\ UNCHANGED fl)
    <3>1. heap' \in [Blocks -> Int]
      BY <1>11 DEF AddBlock, PoolTypes
    <3>2. freeListRefs' \in [Blocks -> Int]
      BY <1>11, <1>a, <1>b DEF AddBlock, Add, PoolTypes
    <3> QED
      BY <1>11, <3>1, <3>2 DEF AddBlock, Add
  <2> QED
    BY <1>0, <2>1, AddedTyped, Assigned, TypedPool DEF PoolTyped, PoolTypes
<1>12. CASE AddHead(t)
  <2>1. pc[t] = "addhead" /\ UNCHANGED poolVars /\ Go(t, "addnext")
    BY <1>12 DEF AddHead
  <2>2. \E v \in PoolLocals : Locals(t, v)
    <3>1. [fl[t] EXCEPT !.to = freeListHead] \in PoolLocals
      BY <1>0, NoBlockIs DEF PoolTypes, PoolLocals
    <3> QED
      BY <1>12, <3>1 DEF AddHead
  <2> QED
    BY <1>0, <2>1, <2>2, Assigned, TypedPool DEF PoolTyped, poolVars, PoolTypes
<1>13. CASE AddNext(t)
  <2>1. /\ UNCHANGED <<poolIndex, heap, freeListHead, freeListRefs, fl>> /\ Go(t, "addrefs")
        /\ freeListNext' \in [Blocks -> Addresses]
    BY <1>0, <1>13 DEF AddNext, PoolTypes
  <2> QED
    BY <1>0, <2>1, Assigned, TypedPool DEF PoolTyped, PoolTypes
<1>14. CASE AddRefs(t)
  <2>1. /\ UNCHANGED <<poolIndex, heap, freeListHead, freeListNext, fl>> /\ Go(t, "addcas")
        /\ freeListRefs' \in [Blocks -> Int]
    <3>1. 1 \in Int
      OBVIOUS
    <3> QED
      BY <1>14, <3>1 DEF AddRefs, PoolTypes
  <2> QED
    BY <1>0, <2>1, Assigned, TypedPool DEF PoolTyped, PoolTypes
<1>15. CASE AddCas(t)
  <2>1. UNCHANGED <<poolIndex, heap, freeListRefs, freeListNext>> /\ freeListHead' \in Addresses
    BY <1>0, <1>15 DEF AddCas, PoolTypes
  <2>2. CASE Added(t)
    BY <1>0, <2>1, <2>2, AddedTyped, TypedPool DEF PoolTyped, PoolTypes
  <2>3. CASE Go(t, "addretry") /\ Locals(t, [fl[t] EXCEPT !.to = freeListHead])
    <3>1. [fl[t] EXCEPT !.to = freeListHead] \in PoolLocals
      BY <1>0, NoBlockIs DEF PoolTypes, PoolLocals
    <3> QED
      BY <1>0, <2>1, <2>3, <3>1, Assigned, TypedPool DEF PoolTyped, PoolTypes
  <2> QED
    BY <1>15, <2>2, <2>3 DEF AddCas
<1>16. CASE AddRetry(t)
  <2>1. /\ UNCHANGED <<poolIndex, heap, freeListHead, freeListNext>>
        /\ freeListRefs' \in [Blocks -> Int]
        /\ Added(t) \/ (Go(t, "addnext") /\ UNCHANGED fl)
    BY <1>16, <1>a, <1>b DEF AddRetry
  <2> QED
    BY <1>0, <2>1, AddedTyped, Assigned, TypedPool DEF PoolTyped, PoolTypes
<1> QED
  BY <1>1, <1>2, <1>3, <1>4, <1>5, <1>6, <1>7, <1>8, <1>9, <1>10, <1>11, <1>12, <1>13, <1>14,
     <1>15, <1>16 DEF Pool

-----------------------------------------------------------------------------
Contents == {<< >>} \cup (Nat \X Nat)
IndexEntry == [key : Nat, value : Addresses]
\* A header whose slots are entries of the first n.
Header(n) == {h \in [tail : Nat, slots : Seq(1 .. n)] : Len(h.slots) > 0}

IndexTypes ==
  /\ entries \in [Producers -> Seq(IndexEntry)]
  /\ DOMAIN blockIndex = Producers
  /\ \A p \in Producers :
       blockIndex[p] \in Seq(Header(Len(entries[p]))) /\ Len(blockIndex[p]) > 0

\* What the variables of ImplicitProducer hold: a dequeue follows a header and an
\* entry that exist.
ProducerTypes ==
  /\ elements \in [Addresses -> [0 .. BLOCK_SIZE - 1 -> Contents]]
  /\ dequeuedIn \in [Addresses -> Nat]
  /\ CountersInv
  /\ tailBlock \in [Producers -> Addresses]
  /\ IndexTypes
  /\ ql \in [Threads -> ElementLocals]
  /\ \A t \in Threads :
       /\ pc[t] = "entry" => ql[t].header \in 1 .. Len(blockIndex[ql[t].p])
       /\ pc[t] = "take" => ql[t].entry \in 1 .. Len(entries[ql[t].p])

\* A slot of a header is an entry.
LEMMA SlotIs ==
  ASSUME NEW n \in Nat, NEW h \in Header(n), NEW i \in Int
  PROVE  /\ Capacity(h) \in Nat \ {0}
         /\ (i % Capacity(h)) + 1 \in 1 .. Capacity(h)
         /\ Slot(h, i) \in 1 .. n
<1>1. Capacity(h) \in Nat \ {0} /\ h.slots \in Seq(1 .. n)
  BY DEF Header, Capacity
<1>2. (i % Capacity(h)) + 1 \in 1 .. Capacity(h)
  <2>1. i % Capacity(h) \in 0 .. Capacity(h) - 1
    BY <1>1, Division
  <2> QED
    BY <1>1, <2>1
<1>3. h.slots[(i % Capacity(h)) + 1] \in 1 .. n
  BY <1>1, <1>2, ElementOfSeq DEF Capacity
<1> QED
  BY <1>1, <1>2, <1>3 DEF Slot

\* The index may only grow.
IndexGrows ==
  \A p \in Producers : /\ Len(blockIndex[p]) \in Nat /\ Len(entries[p]) \in Nat
                       /\ Len(blockIndex'[p]) \in Nat /\ Len(entries'[p]) \in Nat
                       /\ Len(blockIndex[p]) <= Len(blockIndex'[p])
                       /\ Len(entries[p]) <= Len(entries'[p])

\* What leaves the lengths of the entries and of the headers.
EntriesKept ==
  /\ entries' \in [Producers -> Seq(IndexEntry)]
  /\ \A q \in Producers : Len(entries'[q]) = Len(entries[q])
HeadersKept ==
  /\ DOMAIN blockIndex' = Producers
  /\ \A q \in Producers : /\ Len(blockIndex'[q]) = Len(blockIndex[q])
                           /\ blockIndex'[q] \in Seq(Header(Len(entries[q])))

\* The entries and the headers of the block index keep their types and only grow.
LEMMA IndexKept ==
  ASSUME IndexTypes, EntriesKept \/ UNCHANGED entries, HeadersKept \/ UNCHANGED blockIndex
  PROVE  IndexTypes' /\ IndexGrows
<1>1. \A q \in Producers :
        Len(blockIndex[q]) \in Nat /\ Len(entries[q]) \in Nat /\ Len(blockIndex[q]) > 0
  BY LenProperties DEF IndexTypes
<1>2. EntriesKept
  BY DEF EntriesKept, IndexTypes
<1>3. HeadersKept
  BY DEF HeadersKept, IndexTypes
<1>4. \A q \in Producers : Header(Len(entries'[q])) = Header(Len(entries[q]))
  BY <1>2 DEF EntriesKept
<1> QED
  BY <1>1, <1>2, <1>3, <1>4 DEF EntriesKept, HeadersKept, IndexTypes, IndexGrows

\* And so when nothing is done to them.
LEMMA IndexSame ==
  ASSUME IndexTypes, UNCHANGED <<entries, blockIndex>>
  PROVE  IndexTypes' /\ IndexGrows
BY IndexKept

\* An element of a sequence is replaced.
LEMMA SeqWritten ==
  ASSUME NEW S, NEW s \in Seq(S), NEW e, NEW r, e \in 1 .. Len(s) => r \in S,
         NEW u, u = [s EXCEPT ![e] = r]
  PROVE  /\ u \in Seq(S) /\ Len(u) = Len(s)
         /\ \A j \in 1 .. Len(s) : u[j] = IF j = e THEN r ELSE s[j]
<1>1. DOMAIN s = 1 .. Len(s)
  BY LenProperties
<1>2. CASE e \in 1 .. Len(s)
  BY <1>2, ExceptSeq
<1>3. CASE e \notin 1 .. Len(s)
  <2>1. s \in [1 .. Len(s) -> S]
    BY LenProperties
  <2>2. u = s
    BY <1>1, <1>3, <2>1
  <2> QED
    BY <1>3, <2>2
<1> QED
  BY <1>2, <1>3

\* An entry is overwritten.
LEMMA EntryWritten ==
  ASSUME IndexTypes, NEW p \in Producers, NEW e,
         \/ \E x \in Nat : entries' = [entries EXCEPT ![p][e].key = x]
         \/ \E x \in Addresses : entries' = [entries EXCEPT ![p][e].value = x]
  PROVE  EntriesKept
<1>1. \E r : /\ entries' = [entries EXCEPT ![p] = [entries[p] EXCEPT ![e] = r]]
             /\ e \in DOMAIN entries[p] => r \in IndexEntry
  <2>0. e \in DOMAIN entries[p] => entries[p][e] \in IndexEntry
    <3>1. entries[p] \in Seq(IndexEntry)
      BY DEF IndexTypes
    <3> QED
      BY <3>1, ElementOfSeq
  <2>1. CASE \E x \in Nat : entries' = [entries EXCEPT ![p][e].key = x]
    <3>1. PICK x \in Nat : entries' = [entries EXCEPT ![p][e].key = x]
      BY <2>1
    <3>2. PICK r : r = [entries[p][e] EXCEPT !.key = x]
      OBVIOUS
    <3>3. e \in DOMAIN entries[p] => r \in IndexEntry
      BY <2>0, <3>2 DEF IndexEntry
    <3> QED
      BY <3>1, <3>2, <3>3
  <2>2. CASE \E x \in Addresses : entries' = [entries EXCEPT ![p][e].value = x]
    <3>1. PICK x \in Addresses : entries' = [entries EXCEPT ![p][e].value = x]
      BY <2>2
    <3>2. PICK r : r = [entries[p][e] EXCEPT !.value = x]
      OBVIOUS
    <3>3. e \in DOMAIN entries[p] => r \in IndexEntry
      BY <2>0, <3>2 DEF IndexEntry
    <3> QED
      BY <3>1, <3>2, <3>3
  <2> QED
    BY <2>1, <2>2
<1>2. PICK r : /\ entries' = [entries EXCEPT ![p] = [entries[p] EXCEPT ![e] = r]]
               /\ e \in DOMAIN entries[p] => r \in IndexEntry
  BY <1>1
<1>3. entries[p] \in Seq(IndexEntry) /\ entries \in [Producers -> Seq(IndexEntry)]
  BY DEF IndexTypes
<1>4. /\ [entries[p] EXCEPT ![e] = r] \in Seq(IndexEntry)
      /\ Len([entries[p] EXCEPT ![e] = r]) = Len(entries[p])
  <2>1. e \in 1 .. Len(entries[p]) => r \in IndexEntry
    <3>1. DOMAIN entries[p] = 1 .. Len(entries[p])
      BY ONLY <1>3, LenProperties
    <3> QED
      BY <1>2, <3>1
  <2>2. PICK s, u, T : s = entries[p] /\ u = [s EXCEPT ![e] = r] /\ T = IndexEntry
    OBVIOUS
  <2>4. s \in Seq(T)
    BY ONLY <1>3, <2>2
  <2>5. e \in 1 .. Len(s) => r \in T
    BY ONLY <2>1, <2>2
  <2>6. u = [s EXCEPT ![e] = r]
    BY ONLY <2>2
  <2>7. u \in Seq(T)
    BY ONLY <2>4, <2>5, <2>6, SeqWritten
  <2>3. Len(u) = Len(s)
    BY ONLY <2>4, <2>5, <2>6, SeqWritten
  <2> QED
    BY ONLY <2>2, <2>3, <2>7, Zenon
<1>5. entries' \in [Producers -> Seq(IndexEntry)]
        /\ \A q \in Producers : Len(entries'[q]) = Len(entries[q])
  BY <1>2, <1>3, <1>4
<1> QED
  BY <1>5 DEF EntriesKept

\* The tail of the current header moves.
LEMMA CurrentIs ==
  ASSUME IndexTypes, NEW p \in Producers
  PROVE  /\ Len(blockIndex[p]) \in Nat \ {0}
         /\ Len(entries[p]) \in Nat
         /\ Current(p) \in Header(Len(entries[p]))
         /\ \A h \in 1 .. Len(blockIndex[p]) : blockIndex[p][h] \in Header(Len(entries[p]))
<1>1. blockIndex[p] \in Seq(Header(Len(entries[p]))) /\ Len(blockIndex[p]) > 0
  BY DEF IndexTypes
<1>2. Len(blockIndex[p]) \in Nat \ {0}
  BY <1>1, LenProperties
<1>3. \A h \in 1 .. Len(blockIndex[p]) : blockIndex[p][h] \in Header(Len(entries[p]))
  BY <1>1, ElementOfSeq
<1>4. Len(entries[p]) \in Nat
  BY LenProperties DEF IndexTypes
<1> QED
  BY <1>2, <1>3, <1>4 DEF Current

\* Moving the tail of the index keeps the headers.
LEMMA TailMoved ==
  ASSUME IndexTypes, NEW p \in Producers, NEW i \in Int, MoveTail(p, i)
  PROVE  HeadersKept
<1>1. PICK h, n, len : h = Current(p) /\ n = Len(entries[p]) /\ len = Len(blockIndex[p])
  OBVIOUS
<1>2. h \in Header(n) /\ n \in Nat /\ len \in Nat \ {0} /\ h = blockIndex[p][len]
  BY <1>1, CurrentIs DEF Current
<1>3. PICK x : x = (h.tail + i) % Capacity(h)
  OBVIOUS
<1>4. x \in Nat
  <2>1. h.tail \in Nat
    BY <1>2 DEF Header
  <2>2. Capacity(h) \in Nat \ {0}
    BY <1>2, SlotIs
  <2>3. h.tail + i \in Int
    BY <2>1
  <2>4. x \in 0 .. Capacity(h) - 1
    BY ONLY <1>3, <2>2, <2>3, Division
  <2> QED
    BY <2>2, <2>4
<1>5. PICK g : g = [h EXCEPT !.tail = x]
  OBVIOUS
<1>6. g \in Header(n)
  <2>1. h \in [tail : Nat, slots : Seq(1 .. n)] /\ Len(h.slots) > 0
    BY <1>2 DEF Header
  <2>2. g \in [tail : Nat, slots : Seq(1 .. n)] /\ g.slots = h.slots
    BY ONLY <1>4, <1>5, <2>1
  <2> QED
    BY <2>1, <2>2 DEF Header
<1>7. blockIndex' = [blockIndex EXCEPT ![p] = [blockIndex[p] EXCEPT ![len] = g]]
  <2>1. blockIndex' = [blockIndex EXCEPT ![p][len].tail = (@ + i) % Capacity(h)]
    BY <1>1 DEF MoveTail
  <2> QED
    BY ONLY <1>2, <1>3, <1>5, <2>1
<1>8. blockIndex[p] \in Seq(Header(n)) /\ DOMAIN blockIndex = Producers
  BY <1>1 DEF IndexTypes
<1>9. /\ [blockIndex[p] EXCEPT ![len] = g] \in Seq(Header(n))
      /\ Len([blockIndex[p] EXCEPT ![len] = g]) = Len(blockIndex[p])
  BY ONLY <1>1, <1>2, <1>6, <1>8, ExceptSeq
<1>10. \A q \in Producers : /\ Len(blockIndex'[q]) = Len(blockIndex[q])
                            /\ blockIndex'[q] \in Seq(Header(Len(entries[q])))
  <2> SUFFICES ASSUME NEW q \in Producers
               PROVE  /\ Len(blockIndex'[q]) = Len(blockIndex[q])
                      /\ blockIndex'[q] \in Seq(Header(Len(entries[q])))
    OBVIOUS
  <2>1. CASE q = p
    BY <1>1, <1>7, <1>8, <1>9, <2>1
  <2>2. CASE q # p
    BY <1>7, <1>8, <2>2 DEF IndexTypes
  <2> QED
    BY <2>1, <2>2
<1>11. DOMAIN blockIndex' = Producers
  BY <1>7, <1>8
<1> QED
  BY <1>10, <1>11 DEF HeadersKept

\* The index is replaced by one of twice its slots.
LEMMA IndexGrown ==
  ASSUME IndexTypes, NEW p \in Producers, NewBlockIndex(p)
  PROVE  IndexTypes' /\ IndexGrows
<1>1. PICK h, n, c : h = Current(p) /\ n = Len(entries[p]) /\ c = Capacity(h)
  OBVIOUS
<1>2. h \in Header(n) /\ n \in Nat /\ c \in Nat \ {0}
  BY <1>1, CurrentIs, SlotIs
<1>3. /\ entries' = [entries EXCEPT ![p] = entries[p] \o NewEntries(c)]
      /\ blockIndex' = [blockIndex EXCEPT ![p] = Append(blockIndex[p],
           [tail |-> c - 1,
            slots |-> [i \in 1 .. 2 * c |-> IF i <= c THEN Slot(h, h.tail + i) ELSE n + i - c]])]
  BY <1>1 DEF NewBlockIndex
<1>4. NewEntries(c) \in Seq(IndexEntry) /\ Len(NewEntries(c)) = c
  <2>1. [key |-> INVALID_BLOCK_BASE, value |-> 0] \in IndexEntry
    BY DEF INVALID_BLOCK_BASE, IndexEntry, Addresses
  <2> QED
    BY <1>2, <2>1 DEF NewEntries
<1>5. entries[p] \in Seq(IndexEntry) /\ entries \in [Producers -> Seq(IndexEntry)]
  BY DEF IndexTypes
<1>6. /\ entries[p] \o NewEntries(c) \in Seq(IndexEntry)
      /\ Len(entries[p] \o NewEntries(c)) = n + c
  <2>1. PICK x, y : x = entries[p] /\ y = NewEntries(c)
    OBVIOUS
  <2>2. x \in Seq(IndexEntry) /\ y \in Seq(IndexEntry) /\ Len(x) = n /\ Len(y) = c
    BY <1>1, <1>4, <1>5, <2>1
  <2>3. x \o y \in Seq(IndexEntry) /\ Len(x \o y) = n + c
    BY ONLY <2>2, ConcatProperties
  <2> QED
    BY ONLY <2>1, <2>3
<1>7. PICK s : s = [i \in 1 .. 2 * c |-> IF i <= c THEN Slot(h, h.tail + i) ELSE n + i - c]
  OBVIOUS
<1>8. s \in Seq(1 .. n + c) /\ Len(s) = 2 * c
  <2>1. \A i \in 1 .. 2 * c : s[i] \in 1 .. n + c
    <3> SUFFICES ASSUME NEW i \in 1 .. 2 * c PROVE s[i] \in 1 .. n + c
      OBVIOUS
    <3>1. h.tail + i \in Int
      BY <1>2 DEF Header
    <3>2. Slot(h, h.tail + i) \in 1 .. n
      BY <1>2, <3>1, SlotIs
    <3>3. s[i] = IF i <= c THEN Slot(h, h.tail + i) ELSE n + i - c
      BY <1>7
    <3> QED
      BY <1>2, <3>2, <3>3
  <2>2. 2 * c \in Nat
    BY <1>2
  <2>4. PICK m, d : m = 2 * c /\ d = n + c
    OBVIOUS
  <2>3. DOMAIN s = 1 .. m /\ s = [i \in 1 .. m |-> s[i]]
    BY <1>7, <2>4
  <2>7. \A i \in 1 .. m : s[i] \in 1 .. d
    BY ONLY <2>1, <2>4
  <2>5. s \in [1 .. m -> 1 .. d] /\ m \in Nat
    BY ONLY <2>7, <2>2, <2>3, <2>4
  <2>6. PICK D : D = 1 .. d
    OBVIOUS
  <2>9. s \in [1 .. m -> D] /\ m \in Nat
    BY ONLY <2>5, <2>6, Zenon
  <2>8. s \in Seq(D) /\ Len(s) = m
    BY ONLY <2>9
  <2> QED
    BY ONLY <2>4, <2>6, <2>8, Zenon
<1>9. PICK g : g = [tail |-> c - 1, slots |-> s]
  OBVIOUS
<1>10. g \in Header(n + c)
  <2>1. c - 1 \in Nat /\ 2 * c > 0
    BY <1>2
  <2> QED
    BY ONLY <2>1, <1>8, <1>9 DEF Header
<1>11. blockIndex[p] \in Seq(Header(n + c))
  <2>1. Header(n) \subseteq Header(n + c)
    <3> SUFFICES ASSUME NEW x \in Header(n) PROVE x \in Header(n + c)
      OBVIOUS
    <3>1. x \in [tail : Nat, slots : Seq(1 .. n)] /\ Len(x.slots) > 0
      BY DEF Header
    <3>2. 1 .. n \subseteq 1 .. n + c
      BY <1>2
    <3>3. x.slots \in Seq(1 .. n + c)
      <4>1. PICK y, u, v : y = x.slots /\ u = 1 .. n /\ v = 1 .. n + c
        OBVIOUS
      <4>2. y \in Seq(u) /\ u \subseteq v
        BY ONLY <3>1, <3>2, <4>1
      <4>3. y \in Seq(v)
        BY ONLY <4>2, SeqMonotonic
      <4> QED
        BY ONLY <4>1, <4>3
    <3> QED
      BY ONLY <3>1, <3>3 DEF Header
  <2>2. blockIndex[p] \in Seq(Header(n))
    BY <1>1 DEF IndexTypes
  <2> QED
    BY <2>1, <2>2
<1>12. /\ Append(blockIndex[p], g) \in Seq(Header(n + c))
       /\ Len(Append(blockIndex[p], g)) = Len(blockIndex[p]) + 1
  BY <1>10, <1>11, AppendProperties
<1>13. entries' \in [Producers -> Seq(IndexEntry)] /\ DOMAIN blockIndex' = Producers
  BY <1>3, <1>5, <1>6 DEF IndexTypes
<1>14. /\ Len(entries'[p]) = n + c
       /\ blockIndex'[p] = Append(blockIndex[p], g)
       /\ \A q \in Producers : q # p => entries'[q] = entries[q] /\ blockIndex'[q] = blockIndex[q]
  BY <1>3, <1>6, <1>7, <1>9 DEF IndexTypes
<1>15. \A q \in Producers : Len(blockIndex[q]) \in Nat /\ Len(entries[q]) \in Nat
  BY LenProperties DEF IndexTypes
<1>16. \A q \in Producers : blockIndex'[q] \in Seq(Header(Len(entries'[q])))
         /\ Len(blockIndex'[q]) > 0
  <2> SUFFICES ASSUME NEW q \in Producers
               PROVE  blockIndex'[q] \in Seq(Header(Len(entries'[q]))) /\ Len(blockIndex'[q]) > 0
    OBVIOUS
  <2>1. CASE q = p
    BY <1>12, <1>14, <1>15, <2>1
  <2>2. CASE q # p
    BY <1>14, <2>2 DEF IndexTypes
  <2> QED
    BY <2>1, <2>2
<1>17. IndexGrows
  <2> SUFFICES ASSUME NEW q \in Producers
               PROVE  /\ Len(blockIndex[q]) \in Nat /\ Len(entries[q]) \in Nat
                      /\ Len(blockIndex'[q]) \in Nat /\ Len(entries'[q]) \in Nat
                      /\ Len(blockIndex[q]) <= Len(blockIndex'[q])
                      /\ Len(entries[q]) <= Len(entries'[q])
    BY DEF IndexGrows
  <2>1. CASE q = p
    BY <1>1, <1>2, <1>12, <1>14, <1>15, <2>1
  <2>2. CASE q # p
    BY <1>14, <1>15, <2>2
  <2> QED
    BY <2>1, <2>2
<1> QED
  BY <1>13, <1>16, <1>17 DEF IndexTypes

\* A step that stores what ProducerTypes wants.
ElementTyped(t) ==
  /\ (\E l : Go(t, l)) \/ pc' = pc
  /\ ql' = ql \/ \E w \in ElementLocals : Remember(t, w)
  /\ pc'[t] = "entry" => ql'[t].header \in 1 .. Len(blockIndex'[ql'[t].p])
  /\ pc'[t] = "take" => ql'[t].entry \in 1 .. Len(entries'[ql'[t].p])
  /\ elements' \in [Addresses -> [0 .. BLOCK_SIZE - 1 -> Contents]]
  /\ dequeuedIn' \in [Addresses -> Nat]
  /\ CountersInv'
  /\ tailBlock' \in [Producers -> Addresses]
  /\ IndexTypes' /\ IndexGrows

\* Typed assignments keep the types of the producers.
LEMMA TypedElement ==
  ASSUME TableInv, RangeInv, ProducerTypes, NEW t \in Threads, ElementTyped(t)
  PROVE  ProducerTypes'
<1>1. ql' \in [Threads -> ElementLocals]
  BY DEF ElementTyped, ProducerTypes, Remember
<1>2. ASSUME NEW u \in Threads, u # t
      PROVE  /\ pc'[u] = "entry" => ql'[u].header \in 1 .. Len(blockIndex'[ql'[u].p])
             /\ pc'[u] = "take" => ql'[u].entry \in 1 .. Len(entries'[ql'[u].p])
  <2>1. pc'[u] = pc[u] /\ ql'[u] = ql[u]
    BY <1>2 DEF ElementTyped, ProducerTypes, TableInv, Go, Remember
  <2>2. pc[u] \in {"entry", "take"} => ql[u].p \in Producers
    BY ProducerAssumption DEF RangeInv, Ranged, ProducerLabels, Producers
  <2>3. pc[u] = "entry" => ql[u].header \in 1 .. Len(blockIndex[ql[u].p])
    BY DEF ProducerTypes
  <2>4. pc[u] = "take" => ql[u].entry \in 1 .. Len(entries[ql[u].p])
    BY DEF ProducerTypes
  <2>5. ASSUME pc[u] \in {"entry", "take"}
        PROVE  /\ Len(blockIndex[ql[u].p]) \in Nat /\ Len(entries[ql[u].p]) \in Nat
               /\ Len(blockIndex'[ql[u].p]) \in Nat /\ Len(entries'[ql[u].p]) \in Nat
               /\ Len(blockIndex[ql[u].p]) <= Len(blockIndex'[ql[u].p])
               /\ Len(entries[ql[u].p]) <= Len(entries'[ql[u].p])
    BY <2>2, <2>5 DEF ElementTyped, IndexGrows
  <2> QED
    BY <2>1, <2>3, <2>4, <2>5
<1>3. \A u \in Threads :
        /\ pc'[u] = "entry" => ql'[u].header \in 1 .. Len(blockIndex'[ql'[u].p])
        /\ pc'[u] = "take" => ql'[u].entry \in 1 .. Len(entries'[ql'[u].p])
  BY <1>2 DEF ElementTyped
<1> QED
  BY <1>1, <1>3 DEF ElementTyped, ProducerTypes

\* No step but those of ImplicitProducer reaches these two labels.
LEMMA CalmTypes ==
  ASSUME TableInv, RangeInv, ProducerTypes, NEW t \in Threads, CalmStep(t)
  PROVE  ProducerTypes'
<1>1. UNCHANGED producerVars /\ pc'[t] \notin {"entry", "take"}
  BY DEF CalmStep, CalmLabels
<1>2. IndexTypes' /\ IndexGrows
  BY <1>1, IndexSame DEF producerVars, ProducerTypes
<1>3. ql'[t] \in ElementLocals
  <2>1. ql[t] \in ElementLocals
    BY DEF ProducerTypes
  <2>2. NoElement \in ElementLocals
    BY DEF NoElement, ElementLocals
  <2>3. \A x \in 1 .. producers : [NoElement EXCEPT !.p = x] \in ElementLocals
    <3> SUFFICES ASSUME NEW x \in 1 .. producers PROVE [NoElement EXCEPT !.p = x] \in ElementLocals
      OBVIOUS
    <3>1. x \in Nat
      BY DEF RangeInv
    <3> QED
      BY <2>2, <3>1 DEF ElementLocals
  <2> QED
    BY <2>1, <2>2, <2>3 DEF CalmStep
<1>4. ql' \in [Threads -> ElementLocals]
  <2>1. ql \in [Threads -> ElementLocals]
    BY DEF ProducerTypes
  <2>2. ASSUME NEW w, Remember(t, w) PROVE ql' \in [Threads -> ElementLocals]
    <3>1. ql'[t] = w
      BY <2>1, <2>2 DEF Remember
    <3> QED
      BY <1>3, <2>1, <2>2, <3>1 DEF Remember
  <2> QED
    BY <2>1, <2>2 DEF CalmStep
<1>5. \A u \in Threads :
        /\ pc'[u] = "entry" => ql'[u].header \in 1 .. Len(blockIndex'[ql'[u].p])
        /\ pc'[u] = "take" => ql'[u].entry \in 1 .. Len(entries'[ql'[u].p])
  <2>1. \A u \in Threads : u # t => pc'[u] = pc[u] /\ ql'[u] = ql[u]
    BY DEF CalmStep
  <2>2. blockIndex' = blockIndex /\ entries' = entries
    BY <1>1 DEF producerVars
  <2> QED
    BY <1>1, <2>1, <2>2 DEF ProducerTypes
<1> QED
  BY <1>1, <1>2, <1>4, <1>5 DEF ProducerTypes, producerVars, CountersInv

\* The steps of BlockPool keep the types of the producers.
LEMMA PoolKeepsProducerTypes ==
  ASSUME TableInv, WriterInv, RangeInv, ProducerTypes, NEW t \in Threads, Pool(t)
  PROVE  ProducerTypes'
<1>1. Works(t) /\ UNCHANGED <<ql, producerVars>>
  BY PoolWorks
<1>2. pc'[t] \notin {"entry", "take"}
  BY Assigned DEF Pool, PoolTest, PoolIncrement, GetLoad, GetRefs, GetIncrement, GetNext, GetCas,
    GetDone, GetDecrement, Create, AddBlock, AddHead, AddNext, AddRefs, AddCas, AddRetry, Add,
      Added,
    TryHead
<1>3. IndexTypes' /\ IndexGrows
  BY <1>1, IndexSame DEF producerVars, ProducerTypes
<1> QED
  BY <1>1, <1>2, <1>3, TypedElement DEF ElementTyped, ProducerTypes, producerVars, CountersInv,
     Works

\* The steps of ImplicitProducer keep the types of the producers.
LEMMA ProducerTypesKept ==
  ASSUME TableInv, WriterInv, RangeInv, PoolTypes, ProducerTypes, NEW t \in Threads, Producer(t)
  PROVE  ProducerTypes'
<1> DEFINE p == ql[t].p
<1>0. /\ Works(t) /\ p \in Producers /\ ql[t] \in ElementLocals /\ fl[t].block \in Addresses
      /\ 0 \in Addresses
  <2>1. Works(t) /\ ql[t] \in ElementLocals
    BY ProducerWorks DEF ProducerTypes
  <2>2. p \in Producers
    BY <2>1, ProducerAssumption DEF Works, RangeInv, Ranged, Producers
  <2>3. fl[t].block \in Addresses /\ 0 \in Addresses
    BY DEF PoolTypes, PoolLocals, Addresses
  <2> QED
    BY <2>1, <2>2, <2>3
<1>a. /\ CountersInv /\ IndexTypes /\ tailIndex[p] \in Nat /\ headIndex[p] \in Nat
      /\ optimistic[p] \in Nat /\ overcommit[p] \in Nat /\ tailBlock[p] \in Addresses
      /\ ql[t].index \in Nat
  BY <1>0 DEF CountersInv, ProducerTypes, ElementLocals
<1>b. UNCHANGED <<entries, blockIndex>> => IndexTypes' /\ IndexGrows
  BY <1>a, IndexSame
<1>c. \A l : Go(t, l) => pc'[t] = l
  BY Assigned
<1>d. (\E l : Go(t, l)) \/ pc' = pc
  BY <1>0 DEF Works
<1>1. CASE Enqueue(t)
  <2>1. [ql[t] EXCEPT !.index = tailIndex[p]] \in ElementLocals
    BY <1>0, <1>a DEF ElementLocals
  <2>2. Remember(t, [ql[t] EXCEPT !.index = tailIndex[p]]) /\ UNCHANGED producerVars
        /\ pc'[t] \notin {"entry", "take"}
    BY <1>1, <1>c DEF Enqueue
  <2> QED
    BY <1>b, <1>d, <2>1, <2>2, TypedElement
    DEF ElementTyped, producerVars, ProducerTypes, CountersInv
<1>2. CASE Insert(t)
  <2>0. UNCHANGED <<elements, dequeuedIn, counters>> /\ pc[t] = "insert"
    BY <1>2 DEF Insert
  <2>1. PICK e : e = Slot(Current(p), Current(p).tail + 1)
    OBVIOUS
  <2>2. e \in Nat
    <3>1. PICK h, n : h = Current(p) /\ n = Len(entries[p])
      OBVIOUS
    <3>2. h \in Header(n) /\ n \in Nat
      BY <1>0, <1>a, <3>1, CurrentIs
    <3>3. h.tail + 1 \in Int
      BY <3>2 DEF Header
    <3>4. Slot(h, h.tail + 1) \in 1 .. n
      BY ONLY <3>2, <3>3, SlotIs
    <3> QED
      BY <2>1, <3>1, <3>2, <3>4
  <2>3. CASE /\ entries' = [entries EXCEPT ![p][e].key = ql[t].index]
             /\ Remember(t, [ql[t] EXCEPT !.entry = e])
             /\ Go(t, "settail")
             /\ UNCHANGED blockIndex
    <3>1. [ql[t] EXCEPT !.entry = e] \in ElementLocals
      BY <1>0, <2>2 DEF ElementLocals
    <3>2. IndexTypes' /\ IndexGrows
      BY <1>0, <1>a, <2>3, EntryWritten, IndexKept
    <3> QED
      BY <1>c, <2>0, <2>3, <3>1, <3>2, TypedElement
      DEF ElementTyped, counters, ProducerTypes, CountersInv
  <2>4. CASE NewBlockIndex(p) /\ UNCHANGED <<pc, ql>>
    <3>1. IndexTypes' /\ IndexGrows
      BY <1>0, <1>a, <2>4, IndexGrown
    <3> QED
      BY <2>0, <2>4, <3>1, TypedElement
      DEF ElementTyped, counters, ProducerTypes, CountersInv
  <2> QED
    BY <1>2, <2>1, <2>3, <2>4 DEF Insert
<1>3. CASE InsertTail(t)
  <2>1. UNCHANGED <<elements, dequeuedIn, counters, entries, ql>> /\ MoveTail(p, 1)
        /\ pc'[t] = "requisition"
    BY <1>3, <1>c DEF InsertTail
  <2>2. IndexTypes' /\ IndexGrows
    BY <1>0, <1>a, <2>1, TailMoved, IndexKept
  <2> QED
    BY <1>d, <2>1, <2>2, TypedElement
    DEF ElementTyped, counters, ProducerTypes, CountersInv
<1>4. CASE GotNoBlock(t)
  <2>1. UNCHANGED <<elements, dequeuedIn, counters, ql>> /\ MoveTail(p, -1)
        /\ pc'[t] = "failed" /\ entries' = [entries EXCEPT ![p][ql[t].entry].value = 0]
    BY <1>4, <1>c DEF GotNoBlock
  <2>2. IndexTypes' /\ IndexGrows
    <3>1. EntriesKept
      BY <1>0, <1>a, <2>1, EntryWritten
    <3>2. HeadersKept
      BY <1>0, <1>a, <2>1, TailMoved
    <3> QED
      BY <1>a, <3>1, <3>2, IndexKept
  <2> QED
    BY <1>d, <2>1, <2>2, TypedElement
    DEF ElementTyped, counters, ProducerTypes, CountersInv
<1>5. CASE GotBlock(t)
  <2>1. /\ UNCHANGED <<elements, tailIndex, headIndex, optimistic, overcommit, blockIndex, ql>>
        /\ pc'[t] = "construct"
        /\ entries' = [entries EXCEPT ![p][ql[t].entry].value = fl[t].block]
        /\ dequeuedIn' = [dequeuedIn EXCEPT ![fl[t].block] = 0]
        /\ tailBlock' = [tailBlock EXCEPT ![p] = fl[t].block]
    BY <1>5, <1>c DEF GotBlock, ResetEmpty
  <2>2. IndexTypes' /\ IndexGrows
    BY <1>0, <1>a, <2>1, EntryWritten, IndexKept
  <2>3. dequeuedIn' \in [Addresses -> Nat] /\ tailBlock' \in [Producers -> Addresses]
    BY <1>0, <2>1 DEF ProducerTypes
  <2> QED
    BY <1>d, <2>1, <2>2, <2>3, TypedElement
    DEF ElementTyped, ProducerTypes, CountersInv
<1>6. CASE Construct(t)
  <2>1. /\ UNCHANGED <<dequeuedIn, counters, entries, blockIndex, ql>> /\ pc'[t] = "publish"
        /\ elements' = [elements EXCEPT ![tailBlock[p]][PlaceOf(ql[t].index)] = <<p, ql[t].index>>]
    BY <1>6, <1>c DEF Construct
  <2>2. elements' \in [Addresses -> [0 .. BLOCK_SIZE - 1 -> Contents]]
    <3>1. <<p, ql[t].index>> \in Contents
      BY <1>0, <1>a, ProducerAssumption DEF Contents, Producers
    <3> QED
      BY <1>a, <2>1, <3>1 DEF ProducerTypes
  <2> QED
    BY <1>b, <1>d, <2>1, <2>2, TypedElement
    DEF ElementTyped, counters, ProducerTypes, CountersInv
<1>7. CASE Publish(t)
  <2>1. /\ UNCHANGED <<elements, dequeuedIn, headIndex, optimistic, overcommit, tailBlock, entries,
                       blockIndex, ql>>
        /\ pc'[t] = "enqueued"
        /\ tailIndex' = [tailIndex EXCEPT ![p] = ql[t].index + 1]
    BY <1>7, <1>c DEF Publish
  <2>2. CountersInv'
    <3>1. ql[t].index + 1 \in Nat
      BY <1>a
    <3> QED
      BY <1>a, <2>1, <3>1 DEF CountersInv
  <2> QED
    BY <1>b, <1>d, <2>1, <2>2, TypedElement DEF ElementTyped, ProducerTypes
<1>8. CASE Dequeue(t)
  <2>1. [ql[t] EXCEPT !.over = overcommit[p]] \in ElementLocals
    BY <1>0, <1>a DEF ElementLocals
  <2>2. Remember(t, [ql[t] EXCEPT !.over = overcommit[p]]) /\ UNCHANGED producerVars
        /\ pc'[t] \notin {"entry", "take"}
    BY <1>8, <1>c DEF Dequeue
  <2> QED
    BY <1>b, <1>d, <2>1, <2>2, TypedElement
    DEF ElementTyped, producerVars, ProducerTypes, CountersInv
<1>9. CASE CountIn(t)
  <2>1. [ql[t] EXCEPT !.mine = optimistic[p]] \in ElementLocals
    BY <1>0, <1>a DEF ElementLocals
  <2>2. /\ Remember(t, [ql[t] EXCEPT !.mine = optimistic[p]])
        /\ UNCHANGED <<elements, dequeuedIn, tailIndex, headIndex, overcommit, tailBlock, entries,
                       blockIndex>>
        /\ pc'[t] = "recheck" /\ optimistic' = [optimistic EXCEPT ![p] = @ + 1]
    BY <1>9, <1>c DEF CountIn
  <2>3. CountersInv'
    <3>1. optimistic[p] + 1 \in Nat /\ optimistic' = [optimistic EXCEPT ![p] = optimistic[p] + 1]
      BY <1>a, <2>2
    <3> QED
      BY <1>a, <2>2, <3>1 DEF CountersInv
  <2> QED
    BY <1>b, <1>d, <2>1, <2>2, <2>3, TypedElement DEF ElementTyped, ProducerTypes
<1>10. CASE Recheck(t)
  <2>1. UNCHANGED <<producerVars, ql>> /\ pc'[t] \notin {"entry", "take"}
    BY <1>10, <1>c DEF Recheck
  <2> QED
    BY <1>b, <1>d, <2>1, TypedElement
    DEF ElementTyped, producerVars, ProducerTypes, CountersInv
<1>11. CASE OverCommit(t)
  <2>2. /\ UNCHANGED <<elements, dequeuedIn, tailIndex, headIndex, optimistic, tailBlock, entries,
                       blockIndex, ql>>
        /\ pc'[t] = "missed" /\ overcommit' = [overcommit EXCEPT ![p] = @ + 1]
    BY <1>11, <1>c DEF OverCommit
  <2>3. CountersInv'
    <3>1. overcommit[p] + 1 \in Nat /\ overcommit' = [overcommit EXCEPT ![p] = overcommit[p] + 1]
      BY <1>a, <2>2
    <3> QED
      BY <1>a, <2>2, <3>1 DEF CountersInv
  <2> QED
    BY <1>b, <1>d, <2>2, <2>3, TypedElement DEF ElementTyped, ProducerTypes
<1>12. CASE Claim(t)
  <2>1. [NoElement EXCEPT !.p = p, !.index = headIndex[p]] \in ElementLocals
    <3>1. NoElement \in ElementLocals
      BY DEF NoElement, ElementLocals
    <3>2. p \in Nat
      BY <1>0 DEF ElementLocals
    <3> HIDE DEF p
    <3> QED
      BY <1>a, <3>1, <3>2 DEF ElementLocals
  <2>2. /\ Remember(t, [NoElement EXCEPT !.p = p, !.index = headIndex[p]])
        /\ UNCHANGED <<elements, dequeuedIn, tailIndex, overcommit, optimistic, tailBlock, entries,
                       blockIndex>>
        /\ pc'[t] = "lookup" /\ headIndex' = [headIndex EXCEPT ![p] = @ + 1]
    BY <1>12, <1>c DEF Claim
  <2>3. CountersInv'
    <3>1. headIndex[p] + 1 \in Nat /\ headIndex' = [headIndex EXCEPT ![p] = headIndex[p] + 1]
      BY <1>a, <2>2
    <3> QED
      BY <1>a, <2>2, <3>1 DEF CountersInv
  <2> QED
    BY <1>b, <1>d, <2>1, <2>2, <2>3, TypedElement DEF ElementTyped, ProducerTypes
<1>13. CASE Lookup(t)
  <2>0. /\ Len(blockIndex[p]) \in Nat \ {0} /\ Current(p).tail \in Nat
    BY <1>0, <1>a, CurrentIs DEF Header
  <2>1. PICK w : w = [ql[t] EXCEPT !.header = Len(blockIndex[p]), !.tail = Current(p).tail]
    OBVIOUS
  <2>2. w \in ElementLocals /\ w.header = Len(blockIndex[p]) /\ w.p = p
    BY <1>0, <2>0, <2>1 DEF ElementLocals
  <2>3. Remember(t, w) /\ UNCHANGED producerVars /\ pc'[t] = "entry"
    BY <1>13, <1>c, <2>1 DEF Lookup
  <2>4. ql'[t] = w
    BY <2>3, Assigned
  <2>5. ql'[t].header \in 1 .. Len(blockIndex'[ql'[t].p])
    BY <2>0, <2>2, <2>3, <2>4 DEF producerVars
  <2> QED
    BY <1>b, <1>d, <2>2, <2>3, <2>5, TypedElement
    DEF ElementTyped, producerVars, ProducerTypes, CountersInv
<1>14. CASE Entry(t)
  <2>1. PICK e : e = EntryOf(p, blockIndex[p][ql[t].header], ql[t].tail, ql[t].index)
    OBVIOUS
  <2>2. e \in 1 .. Len(entries[p])
    <3>1. PICK h, n : h = blockIndex[p][ql[t].header] /\ n = Len(entries[p])
      OBVIOUS
    <3>2. ql[t].header \in 1 .. Len(blockIndex[p])
      BY <1>14 DEF Entry, ProducerTypes
    <3>3. h \in Header(n) /\ n \in Nat
      BY <1>0, <1>a, <3>1, <3>2, CurrentIs
    <3>4. ql[t].tail \in Int /\ ql[t].index \in Int
      BY <1>0 DEF ElementLocals
    <3>5. Slot(h, ql[t].tail) \in 1 .. n
      BY <3>3, <3>4, SlotIs
    <3>6. entries[p][Slot(h, ql[t].tail)].key \in Nat
      <4>1. entries[p] \in Seq(IndexEntry)
        BY <1>0, <1>a DEF IndexTypes
      <4>2. entries[p][Slot(h, ql[t].tail)] \in IndexEntry
        BY <3>1, <3>5, <4>1, ElementOfSeq
      <4> QED
        BY <4>2 DEF IndexEntry
    <3>7. PICK d : d = ((ql[t].index - (ql[t].index % BLOCK_SIZE))
                          - entries[p][Slot(h, ql[t].tail)].key) \div BLOCK_SIZE
      OBVIOUS
    <3>8. ql[t].index % BLOCK_SIZE \in Int
      BY <3>4, BlockIs
    <3>9. d \in Int
      <4>1. PICK a : a = (ql[t].index - (ql[t].index % BLOCK_SIZE))
                          - entries[p][Slot(h, ql[t].tail)].key
        OBVIOUS
      <4>2. a \in Int
        BY <3>4, <3>6, <3>8, <4>1
      <4>3. d = Of(a)
        BY <3>7, <4>1 DEF Of
      <4> QED
        BY <4>2, <4>3, BlockIs
    <3>10. e = Slot(h, ql[t].tail + d)
      BY <2>1, <3>1, <3>7 DEF EntryOf
    <3>11. ql[t].tail + d \in Int
      BY <3>4, <3>9
    <3> QED
      BY <3>1, <3>3, <3>10, <3>11, SlotIs
  <2>3. PICK w : w = [ql[t] EXCEPT !.header = 0, !.tail = 0, !.entry = e]
    OBVIOUS
  <2>4. e \in Nat
    BY <2>2
  <2>5. w \in ElementLocals /\ w.entry = e /\ w.p = p
    BY <1>0, <2>3, <2>4 DEF ElementLocals
  <2>6. Remember(t, w) /\ UNCHANGED producerVars /\ pc'[t] = "take"
    BY <1>14, <1>c, <2>1, <2>3 DEF Entry
  <2>7. ql'[t] = w
    BY <2>6, Assigned
  <2>8. ql'[t].entry \in 1 .. Len(entries'[ql'[t].p])
    BY <2>2, <2>5, <2>6, <2>7 DEF producerVars
  <2> QED
    BY <1>b, <1>d, <2>5, <2>6, <2>8, TypedElement
    DEF ElementTyped, producerVars, ProducerTypes, CountersInv
<1>15. CASE Take(t)
  <2>1. PICK b, k : b = entries[p][ql[t].entry].value /\ k = PlaceOf(ql[t].index)
    OBVIOUS
  <2>2. b \in Addresses /\ k \in 0 .. BLOCK_SIZE - 1
    <3>1. ql[t].entry \in 1 .. Len(entries[p]) /\ entries[p] \in Seq(IndexEntry)
      BY <1>0, <1>a, <1>15 DEF Take, ProducerTypes, IndexTypes
    <3>2. entries[p][ql[t].entry] \in IndexEntry
      BY <3>1, ElementOfSeq
    <3>3. ql[t].index \in Int
      BY <1>a
    <3> QED
      BY <2>1, <3>2, <3>3, BlockIs DEF IndexEntry
  <2>3. PICK x : x = elements[b][k]
    OBVIOUS
  <2>4. x \in Contents
    BY <2>2, <2>3 DEF ProducerTypes
  <2>5. PICK w : w = [ql[t] EXCEPT !.block = b, !.element = x]
    OBVIOUS
  <2>6. w \in ElementLocals
    BY <1>0, <2>2, <2>4, <2>5 DEF ElementLocals, Contents, Addresses
  <2>7. /\ Remember(t, w) /\ UNCHANGED <<dequeuedIn, counters, entries, blockIndex>>
        /\ pc'[t] = "setempty" /\ elements' = [elements EXCEPT ![b][k] = <<>>]
    BY <1>15, <1>c, <2>1, <2>3, <2>5 DEF Take
  <2>8. elements' \in [Addresses -> [0 .. BLOCK_SIZE - 1 -> Contents]]
    <3>1. <<>> \in Contents
      BY DEF Contents
    <3> QED
      BY <2>2, <2>7, <3>1 DEF ProducerTypes
  <2> QED
    BY <1>b, <1>d, <2>6, <2>7, <2>8, TypedElement
    DEF ElementTyped, counters, ProducerTypes, CountersInv
<1>16. CASE SetEmpty(t)
  <2>1. /\ UNCHANGED <<elements, counters, entries, blockIndex, ql>>
        /\ pc'[t] \in {"release", "dequeued"}
        /\ dequeuedIn' = [dequeuedIn EXCEPT ![ql[t].block] = @ + 1]
    BY <1>16, <1>c DEF SetEmpty
  <2>2. dequeuedIn' \in [Addresses -> Nat]
    <3>1. ql[t].block \in Addresses
      BY <1>0 DEF ElementLocals, Addresses
    <3>2. dequeuedIn[ql[t].block] + 1 \in Nat
      BY <3>1 DEF ProducerTypes
    <3> QED
      BY <2>1, <3>2 DEF ProducerTypes
  <2> QED
    BY <1>b, <1>d, <2>1, <2>2, TypedElement
    DEF ElementTyped, counters, ProducerTypes, CountersInv
<1>17. CASE Release(t)
  <2>1. /\ UNCHANGED <<elements, dequeuedIn, counters, blockIndex, ql>> /\ pc'[t] = "addblock"
        /\ entries' = [entries EXCEPT ![p][ql[t].entry].value = 0]
    BY <1>17, <1>c DEF Release
  <2>2. IndexTypes' /\ IndexGrows
    BY <1>0, <1>a, <2>1, EntryWritten, IndexKept
  <2> QED
    BY <1>d, <2>1, <2>2, TypedElement
    DEF ElementTyped, counters, ProducerTypes, CountersInv
<1> QED
  BY <1>1, <1>2, <1>3, <1>4, <1>5, <1>6, <1>7, <1>8, <1>9, <1>10, <1>11, <1>12, <1>13, <1>14,
     <1>15, <1>16, <1>17 DEF Producer

\* What the later invariants rest on.
BaseInv == QueueInv /\ WriterInv /\ RangeInv /\ PoolTypes /\ ProducerTypes

\* After the destructor nothing happens.
LEMMA DestroyedRests ==
  ASSUME QueueInv, destroyed, [Next]_vars
  PROVE  UNCHANGED vars
<1>1. \A t \in Threads : pc[t] = "idle"
  BY DEF QueueInv, DestroyedInv, Quiet
<1>2. ASSUME NEW t \in Threads, Step(t) PROVE FALSE
  <2>1. pc[t] = "idle"
    BY <1>1
  <2>2. ~ Pool(t)
    BY <2>1 DEF Pool, PoolTest, PoolIncrement, GetLoad, GetRefs, GetIncrement, GetNext, GetCas,
       GetDone,
      GetDecrement, Create, AddBlock, AddHead, AddNext, AddRefs, AddCas, AddRetry
  <2>3. ~ Producer(t)
    BY <2>1 DEF Producer, Enqueue, Insert, InsertTail, GotNoBlock, GotBlock, Construct, Publish,
      Dequeue, CountIn, Recheck, OverCommit, Claim, Lookup, Entry, Take, SetEmpty, Release
  <2>4. ~ Table(t)
    BY <2>1 DEF Table, Find, Relink, NewCount, Resize, Grow, Room, Recycle, AddProducer, Subscribe,
      Place, EnqueueReturns, WaitDequeue, Scan, Scanned, Missed, DequeueReturns, Exit, Leave,
      ExitReturns, Calls
  <2> QED
    BY <1>2, <2>2, <2>3, <2>4 DEF Step
<1>3. ~ Destroy
  BY DEF Destroy
<1> QED
  BY <1>2, <1>3 DEF Next

\* What the destructor and a stuttering step leave alone keeps its type.
LEMMA BaseSame ==
  ASSUME RangeInv, PoolTypes, ProducerTypes,
         UNCHANGED <<pc, hl, ql, fl, producers, poolSize, poolIndex, freeListHead, freeListRefs,
                     freeListNext, producerVars>>,
         heap' \in [Blocks -> Int]
  PROVE  RangeInv' /\ PoolTypes' /\ ProducerTypes'
<1>1. RangeInv'
  BY DEF RangeInv, Ranged
<1>2. PoolTypes'
  BY DEF PoolTypes
<1>3. ProducerTypes'
  BY DEF ProducerTypes, producerVars, CountersInv, IndexTypes
<1> QED
  BY <1>1, <1>2, <1>3

\* The steps of ImplicitProducer keep the types of the pool.
LEMMA ProducerKeepsPoolTypes ==
  ASSUME TableInv, WriterInv, PoolTypes, ProducerTypes, NEW t \in Threads, Producer(t)
  PROVE  PoolTypes'
<1>1. Works(t)
  BY ProducerWorks DEF ProducerTypes
<1>2. UNCHANGED <<poolVars, poolSize>>
  BY <1>1 DEF Works, outsideProducer, fixed, Producer, Enqueue, Insert, InsertTail, GotNoBlock,
     GotBlock,
    Construct, Publish, Dequeue, CountIn, Recheck, OverCommit, Claim, Lookup, Entry, Take, SetEmpty,
    Release
<1>3. pc'[t] \notin {"getrefs", "getinc", "getnext"}
  BY Assigned DEF Producer, Enqueue, Insert, InsertTail, GotNoBlock, GotBlock,
    Construct, Publish, Dequeue, CountIn, Recheck, OverCommit, Claim, Lookup, Entry, Take, SetEmpty,
    Release
<1>4. fl' = fl \/ \E v \in PoolLocals : Locals(t, v)
  <2>1. ql[t].block \in Addresses
    BY DEF ProducerTypes, ElementLocals, Addresses
  <2>2. [NoBlock EXCEPT !.block = ql[t].block] \in PoolLocals
    BY <2>1, NoBlockIs DEF PoolLocals
  <2>3. GotBlock(t) => \E v \in PoolLocals : Locals(t, v)
    BY NoBlockIs DEF GotBlock
  <2>4. Release(t) => \E v \in PoolLocals : Locals(t, v)
    BY <2>2 DEF Release
  <2>5. Producer(t) /\ ~ GotBlock(t) /\ ~ Release(t) => fl' = fl
    BY DEF Producer, Enqueue, Insert, InsertTail, GotNoBlock, Construct, Publish, Dequeue, CountIn,
      Recheck, OverCommit, Claim, Lookup, Entry, Take, SetEmpty
  <2> QED
    BY <2>3, <2>4, <2>5
<1>5. fl' \in [Threads -> PoolLocals]
  BY <1>4 DEF PoolTypes, Locals
<1>6. ASSUME NEW u \in Threads, u # t PROVE pc'[u] = pc[u] /\ fl'[u] = fl[u]
  BY <1>1, <1>6, WorksWork DEF WorkStep
<1> QED
  BY <1>2, <1>3, <1>5, <1>6 DEF PoolTypes, poolVars

\* Every step keeps the tables, the writers, the ranges and the types.
LEMMA BaseNext ==
  ASSUME BaseInv, [Next]_vars
  PROVE  BaseInv'
<1>0. QueueInv /\ WriterInv /\ RangeInv /\ PoolTypes /\ ProducerTypes /\ TableInv /\ CountersInv
  BY DEF BaseInv, QueueInv, ProducerTypes
<1>1. QueueInv' /\ WriterInv'
  BY <1>0, QueueNext, WriterNext
<1>2. CASE Destroy
  <2>1. heap' \in [Blocks -> Int]
    <3>1. heap' = [b \in Blocks |-> IF b <= poolSize THEN heap[b]
             ELSE heap[b] - Cardinality({p \in 1 .. producers : b \in GivenBack(p)})]
      BY <1>2 DEF Destroy
    <3>2. \A b \in Blocks : Cardinality({p \in 1 .. producers : b \in GivenBack(p)}) \in Nat
      <4> SUFFICES ASSUME NEW b \in Blocks
                   PROVE  Cardinality({p \in 1 .. producers : b \in GivenBack(p)}) \in Nat
        OBVIOUS
      <4>1. IsFiniteSet(1 .. producers)
        BY <1>0, FS_Interval DEF RangeInv
      <4>2. IsFiniteSet({p \in 1 .. producers : b \in GivenBack(p)})
        BY <4>1, FS_Subset
      <4> QED
        BY <4>2, FS_CardinalityType
    <3> QED
      BY <1>0, <3>1, <3>2 DEF PoolTypes
  <2>2. UNCHANGED <<pc, hl, ql, fl, producers, poolSize, poolIndex, freeListHead, freeListRefs,
                    freeListNext, producerVars>>
    BY <1>2 DEF Destroy, fixed
  <2> QED
    BY <1>0, <1>1, <2>1, <2>2, BaseSame DEF BaseInv
<1>3. ASSUME NEW t \in Threads, Pool(t) PROVE BaseInv'
  <2>1. Works(t)
    BY <1>0, <1>3, PoolWorks
  <2>2. RangeInv'
    BY <1>0, <2>1, WorksWork, RangeWork
  <2>3. PoolTypes' /\ ProducerTypes'
    BY <1>0, <1>3, PoolTypesKept, PoolKeepsProducerTypes
  <2> QED
    BY <1>1, <2>2, <2>3 DEF BaseInv
<1>4. ASSUME NEW t \in Threads, Producer(t) PROVE BaseInv'
  <2>1. Works(t)
    BY <1>0, <1>4, ProducerWorks DEF ProducerTypes
  <2>2. RangeInv'
    BY <1>0, <2>1, WorksWork, RangeWork
  <2>3. ProducerTypes'
    BY <1>0, <1>4, ProducerTypesKept
  <2>4. PoolTypes'
    BY <1>0, <1>4, ProducerKeepsPoolTypes
  <2> QED
    BY <1>1, <2>2, <2>3, <2>4 DEF BaseInv
<1>5. ASSUME NEW t \in Threads, Table(t) PROVE BaseInv'
  <2>1. CalmStep(t) /\ RangeInv'
    BY <1>0, <1>5, TableCalm, RangeTable
  <2>2. ProducerTypes'
    BY <1>0, <2>1, CalmTypes
  <2>3. PoolTypes'
    <3>1. pc'[t] \notin {"getrefs", "getinc", "getnext"}
      BY <2>1 DEF CalmStep, CalmLabels
    <3>2. UNCHANGED <<poolVars, fl, poolSize>> /\ \A u \in Threads : u # t => pc'[u] = pc[u]
      BY <2>1 DEF CalmStep
    <3> QED
      BY <1>0, <3>1, <3>2 DEF PoolTypes, poolVars
  <2> QED
    BY <1>1, <2>1, <2>2, <2>3 DEF BaseInv
<1>6. CASE UNCHANGED vars
  <2>1. UNCHANGED <<pc, hl, ql, fl, producers, poolSize, poolIndex, freeListHead, freeListRefs,
                    freeListNext, producerVars, heap>>
    BY <1>6 DEF vars, poolVars, outsidePool, outsideProducer, tableVars, fixed
  <2> QED
    BY <1>0, <1>1, <2>1, BaseSame DEF BaseInv, PoolTypes
<1> QED
  BY <1>2, <1>3, <1>4, <1>5, <1>6 DEF Next, Step

\* They hold at first.
LEMMA BaseStarts ==
  ASSUME Init
  PROVE  BaseInv
<1>1. QueueInv /\ WriterInv
  BY QueueStarts, WriterStarts
<1>2. /\ pc = [t \in Threads |-> "idle"] /\ producers = 0 /\ PoolInit /\ ProducerInit
      /\ \E w \in Workloads : poolSize = w.pool
  BY DEF Init, InitialPool
<1>3. \A t \in Threads : pc[t] = "idle"
  BY <1>2
<1>4. RangeInv
  <2>1. "idle" \notin ProducerLabels \cup ScanLabels
    BY DEF ProducerLabels, ScanLabels, EnqueueLabels, AddLabels
  <2> QED
    BY <1>2, <1>3, <2>1, ProducerAssumption DEF RangeInv, Ranged
<1>5. PoolTypes
  <2>1. fl \in [Threads -> PoolLocals]
    BY <1>2, NoBlockIs DEF PoolInit
  <2>2. 0 \in Addresses /\ 0 \in Int /\ poolSize \in 0 .. MaxBlocks
    BY <1>2, WorkloadAssumption DEF Addresses
  <2> QED
    BY <1>2, <1>3, <2>1, <2>2 DEF PoolInit, PoolTypes
<1>6. ProducerTypes
  <2> DEFINE N == IMPLICIT_INITIAL_INDEX_SIZE
  <2>1. N \in Nat \ {0, 1} /\ 0 \in Addresses /\ <<>> \in Contents
    BY ProducerAssumption DEF Addresses, Contents
  <2>2. CountersInv
    BY <1>2 DEF ProducerInit, CountersInv
  <2>3. NewEntries(N) \in Seq(IndexEntry) /\ Len(NewEntries(N)) = N
    <3>1. [key |-> INVALID_BLOCK_BASE, value |-> 0] \in IndexEntry
      BY DEF INVALID_BLOCK_BASE, IndexEntry, Addresses
    <3> QED
      BY <2>1, <3>1 DEF NewEntries
  <2>4. PICK h : h = [tail |-> N - 1, slots |-> [i \in 1 .. N |-> i]]
    OBVIOUS
  <2>5. h \in Header(N)
    <3>1. PICK s : s = [i \in 1 .. N |-> i]
      OBVIOUS
    <3>2. s \in [1 .. N -> 1 .. N] /\ N \in Nat
      BY <2>1, <3>1
    <3>3. s \in Seq(1 .. N) /\ Len(s) = N
      BY ONLY <3>2
    <3>4. N - 1 \in Nat /\ N > 0
      BY <2>1
    <3> QED
      BY ONLY <2>4, <3>1, <3>3, <3>4 DEF Header
  <2>6. IndexTypes
    <3>1. /\ entries = [p \in Producers |-> NewEntries(N)]
          /\ blockIndex = [p \in Producers |-> << h >>]
      BY <1>2, <2>4 DEF ProducerInit
    <3>2. << h >> \in Seq(Header(N)) /\ Len(<< h >>) = 1
      BY <2>5
    <3> QED
      BY <2>3, <3>1, <3>2 DEF IndexTypes
  <2>7. NoElement \in ElementLocals
    BY DEF NoElement, ElementLocals
  <2> QED
    BY <1>2, <1>3, <2>1, <2>2, <2>6, <2>7 DEF ProducerInit, ProducerTypes, Addresses
<1> QED
  BY <1>1, <1>4, <1>5, <1>6 DEF BaseInv

-----------------------------------------------------------------------------
(* The counts of dequeue.                                                  *)

\* The index that an enqueue fills is the tail of its producer.
AtTail == \A t \in Threads : Enqueuing(t) /\ pc[t] # "enqueue" => ql[t].index = tailIndex[ql[t].p]

\* Only enqueue itself begins one.
LEMMA PoolEnqueuing ==
  ASSUME TableInv, WriterInv, PoolTypes, NEW t \in Threads, Pool(t)
  PROVE  /\ pc[t] # "enqueue"
         /\ Enqueuing(t)' => Enqueuing(t)
<1>0. /\ \A l : Go(t, l) => pc'[t] = l
      /\ \A v : Locals(t, v) => fl'[t] = v
  BY Assigned
<1>1. CASE pc[t] \in EnqueueLabels
  <2>1. pc[t] # "enqueue"
    BY DEF Pool, PoolTest, PoolIncrement, GetLoad, GetRefs, GetIncrement, GetNext, GetCas, GetDone,
      GetDecrement, Create, AddBlock, AddHead, AddNext, AddRefs, AddCas, AddRetry
  <2> QED
    BY <1>1, <2>1 DEF Enqueuing
<1>2. CASE pc[t] \notin EnqueueLabels
  <2>1. /\ AddBlock(t) \/ AddHead(t) \/ AddNext(t) \/ AddRefs(t) \/ AddCas(t) \/ AddRetry(t)
        /\ pc[t] \in AddLabels
    BY <1>2 DEF Pool, PoolTest, PoolIncrement, GetLoad, GetRefs, GetIncrement, GetNext, GetCas,
       GetDone,
      GetDecrement, Create, AddBlock, AddHead, AddNext, AddRefs, AddCas, AddRetry, EnqueueLabels,
      AddLabels
  <2>2. fl[t].getting \/ pc'[t] = "dequeued" \/ fl'[t].getting = fl[t].getting
    <3>1. \A x : [fl[t] EXCEPT !.to = x].getting = fl[t].getting
      BY PoolRecordsKept DEF WriterInv
    <3>2. UNCHANGED fl => fl'[t].getting = fl[t].getting
      OBVIOUS
    <3>3. \A x : Locals(t, [fl[t] EXCEPT !.to = x]) => fl'[t].getting = fl[t].getting
      BY <1>0, <3>1
    <3>4. Added(t) => fl[t].getting \/ pc'[t] = "dequeued"
      BY <1>0 DEF Added
    <3> QED
      BY <2>1, <3>2, <3>3, <3>4 DEF AddBlock, Add, AddHead, AddNext, AddRefs, AddCas, AddRetry
  <2>3. pc'[t] \in EnqueueLabels => fl[t].getting
    <3>1. {"dequeued", "addblock", "addhead", "addnext", "addrefs", "addcas", "addretry"}
            \cap EnqueueLabels = {}
      BY DEF EnqueueLabels
    <3>2. Added(t) => fl[t].getting \/ pc'[t] = "dequeued"
      BY <1>0 DEF Added
    <3> QED
      BY <1>0, <2>1, <3>1, <3>2 DEF AddBlock, Add, AddHead, AddNext, AddRefs, AddCas, AddRetry
  <2>4. "dequeued" \notin EnqueueLabels \cup AddLabels /\ "enqueue" \notin AddLabels
    BY DEF EnqueueLabels, AddLabels
  <2> QED
    BY <1>2, <2>1, <2>2, <2>3, <2>4 DEF Enqueuing
<1> QED
  BY <1>1, <1>2

\* No producer has two threads inside enqueue.
LEMMA WriterAlone ==
  ASSUME QueueInv, WriterInv, NEW t \in Threads, NEW u \in Threads, Enqueuing(t), Enqueuing(u),
         ql[t].p = ql[u].p
  PROVE  t = u
<1>1. ql[t].p \in listeners[t] /\ ql[u].p \in listeners[u]
  BY DEF WriterInv
<1>2. t # u => listeners[t] \cap listeners[u] = {}
  BY DEF QueueInv, OwnersInv
<1> QED
  BY <1>1, <1>2

\* A step of t that leaves t as AtTail wants it, and the tails of the others.
LEMMA AtTailKept ==
  ASSUME AtTail, NEW t \in Threads,
         \A u \in Threads : u # t => pc'[u] = pc[u] /\ ql'[u] = ql[u] /\ fl'[u] = fl[u],
         Enqueuing(t)' /\ pc'[t] # "enqueue" => ql'[t].index = tailIndex'[ql'[t].p],
         \A u \in Threads : u # t /\ Enqueuing(u) => tailIndex'[ql[u].p] = tailIndex[ql[u].p]
  PROVE  AtTail'
BY DEF AtTail, Enqueuing

\* Every step keeps the writer at the tail.
LEMMA AtTailNext ==
  ASSUME BaseInv, AtTail, NEW t \in Threads, Step(t)
  PROVE  AtTail'
<1>0. QueueInv /\ WriterInv /\ RangeInv /\ PoolTypes /\ ProducerTypes /\ TableInv
  BY DEF BaseInv, QueueInv
<1>1. CASE Table(t)
  <2>1. CalmStep(t)
    BY <1>0, <1>1, TableCalm
  <2>2. /\ \A u \in Threads : u # t => pc'[u] = pc[u] /\ ql'[u] = ql[u]
        /\ fl' = fl /\ tailIndex' = tailIndex /\ pc'[t] \in CalmLabels
    BY <2>1 DEF CalmStep, producerVars
  <2>3. Enqueuing(t)' => pc'[t] = "enqueue"
    BY <2>2 DEF Enqueuing, CalmLabels, EnqueueLabels, AddLabels
  <2> QED
    BY <2>2, <2>3, AtTailKept
<1>2. CASE Pool(t)
  <2>1. Works(t) /\ UNCHANGED <<ql, producerVars>> /\ WorkStep(t)
    BY <1>0, <1>2, PoolWorks, WorksWork
  <2>2. /\ \A u \in Threads : u # t => pc'[u] = pc[u] /\ ql'[u] = ql[u] /\ fl'[u] = fl[u]
        /\ ql' = ql /\ tailIndex' = tailIndex
    BY <2>1 DEF WorkStep, producerVars
  <2>3. Enqueuing(t)' => Enqueuing(t) /\ pc[t] # "enqueue"
    BY <1>0, <1>2, PoolEnqueuing
  <2> QED
    BY <2>2, <2>3, AtTailKept DEF AtTail
<1>3. CASE Producer(t)
  <2>1. WorkStep(t)
    BY <1>0, <1>3, ProducerWorks, WorksWork DEF ProducerTypes
  <2>2. \A u \in Threads : u # t => pc'[u] = pc[u] /\ ql'[u] = ql[u] /\ fl'[u] = fl[u]
    BY <2>1 DEF WorkStep
  <2>3. \A l : Go(t, l) => pc'[t] = l
    BY <1>0, Assigned
  <2>4. CASE Publish(t)
    <3>1. pc[t] = "publish" /\ pc'[t] = "enqueued"
          /\ tailIndex' = [tailIndex EXCEPT ![ql[t].p] = ql[t].index + 1]
      BY <2>3, <2>4 DEF Publish
    <3>2. ~ Enqueuing(t)' /\ Enqueuing(t)
      BY <3>1 DEF Enqueuing, EnqueueLabels, AddLabels
    <3>3. \A u \in Threads : u # t /\ Enqueuing(u) => tailIndex'[ql[u].p] = tailIndex[ql[u].p]
      BY <1>0, <3>1, <3>2, WriterAlone DEF ProducerTypes, CountersInv
    <3> QED
      BY <2>2, <3>2, <3>3, AtTailKept
  <2>5. CASE ~ Publish(t)
    <3>1. tailIndex' = tailIndex
      BY <1>3, <2>5 DEF Producer, Enqueue, Insert, InsertTail, GotNoBlock, GotBlock,
        Construct, Dequeue, CountIn, Recheck, OverCommit, Claim, Lookup, Entry, Take, SetEmpty,
        Release, producerVars, counters
    <3>2. Enqueuing(t)' /\ pc'[t] # "enqueue" => ql'[t].index = tailIndex'[ql'[t].p]
      <4>1. CASE Enqueue(t)
        <5>1. ql'[t] = [ql[t] EXCEPT !.index = tailIndex[ql[t].p]]
          BY <1>0, <4>1, Assigned DEF Enqueue
        <5>2. ql[t] \in ElementLocals
          BY <1>0 DEF ProducerTypes
        <5>3. ql'[t].index = tailIndex[ql[t].p] /\ ql'[t].p = ql[t].p
          BY ONLY <5>1, <5>2 DEF ElementLocals
        <5> QED
          BY <3>1, <5>3
      <4>2. CASE Insert(t) \/ InsertTail(t) \/ GotNoBlock(t) \/ GotBlock(t) \/ Construct(t)
        <5>1. Enqueuing(t) /\ pc[t] # "enqueue"
          BY <4>2 DEF Insert, InsertTail, GotNoBlock, GotBlock, Construct, Enqueuing, EnqueueLabels
        <5>2. ql'[t].index = ql[t].index /\ ql'[t].p = ql[t].p
          <6>1. ql[t] \in ElementLocals
            BY <1>0 DEF ProducerTypes
          <6>2. ql' = ql \/ \E e : ql'[t] = [ql[t] EXCEPT !.entry = e]
            BY <1>0, <4>2, Assigned DEF Insert, InsertTail, GotNoBlock, GotBlock, Construct
          <6> QED
            BY <6>1, <6>2 DEF ElementLocals
        <5> QED
          BY <3>1, <5>1, <5>2 DEF AtTail
      <4>3. CASE Release(t)
        <5>1. pc'[t] = "addblock" /\ fl'[t] = [NoBlock EXCEPT !.block = ql[t].block]
          BY <1>0, <4>3, Assigned DEF Release
        <5>2. ~ fl'[t].getting
          BY <5>1, PoolRecords
        <5> QED
          BY <5>1, <5>2 DEF Enqueuing, EnqueueLabels
      <4>4. CASE \/ Dequeue(t) \/ CountIn(t) \/ Recheck(t) \/ OverCommit(t) \/ Claim(t)
                 \/ Lookup(t) \/ Entry(t) \/ Take(t) \/ SetEmpty(t)
        <5>1. pc'[t] \in {"count", "missed", "recheck", "claim", "overcommit", "lookup", "entry",
                          "take", "setempty", "release", "dequeued"}
          BY <2>3, <4>4 DEF Dequeue, CountIn, Recheck, OverCommit, Claim, Lookup, Entry, Take,
             SetEmpty
        <5> QED
          BY <5>1 DEF Enqueuing, EnqueueLabels, AddLabels
      <4> QED
        BY <1>3, <2>5, <4>1, <4>2, <4>3, <4>4 DEF Producer
    <3> QED
      BY <2>2, <3>1, <3>2, AtTailKept
  <2> QED
    BY <2>4, <2>5
<1> QED
  BY <1>1, <1>2, <1>3 DEF Step

-----------------------------------------------------------------------------
(* Tickets: the counts of dequeue.                                         *)

\* A thread that has drawn a ticket: its count of dequeueOptimisticCount.
Drawn == {"recheck", "claim", "overcommit"}
Draws(t, p) == pc[t] \in Drawn /\ ql[t].p = p
FailedBelow(F, m) == {k \in F : k < m}

\* C: the tickets that have claimed an index, F: those that have failed.  No more
\* tickets below a claiming one lead to a claim than there are elements.
Ticket(t, p, C, F) ==
  /\ pc[t] = "count" /\ ql[t].p = p => ql[t].over <= overcommit[p]
  /\ Draws(t, p) =>
       /\ ql[t].mine \in 0 .. optimistic[p] - 1
       /\ ql[t].mine \notin C \cup F
       /\ \A u \in Threads : u # t /\ Draws(u, p) => ql[u].mine # ql[t].mine
       /\ pc[t] = "recheck" => ql[t].over <= Cardinality(FailedBelow(F, ql[t].mine))
       /\ pc[t] = "claim" => ql[t].mine - Cardinality(FailedBelow(F, ql[t].mine)) < tailIndex[p]
Counted(p, C, F) ==
  /\ C \cup F \subseteq 0 .. optimistic[p] - 1
  /\ C \cap F = {}
  /\ Cardinality(C) = headIndex[p]
  /\ Cardinality(F) = overcommit[p]
  /\ \A m \in C : m - Cardinality(FailedBelow(F, m)) < tailIndex[p]
Tickets(p, C, F) == Counted(p, C, F) /\ \A t \in Threads : Ticket(t, p, C, F)
TicketInv == \A p \in Producers : \E C, F : Tickets(p, C, F)

\* Sets of tickets are finite, and more have failed below m the more have failed.
LEMMA Failures ==
  ASSUME NEW n \in Nat, NEW F \in SUBSET (0 .. n - 1), NEW G \in SUBSET F, NEW m \in Nat
  PROVE  /\ IsFiniteSet(F) /\ IsFiniteSet(G)
         /\ Cardinality(FailedBelow(F, m)) \in Nat /\ Cardinality(FailedBelow(G, m)) \in Nat
         /\ Cardinality(FailedBelow(G, m)) <= Cardinality(FailedBelow(F, m))
         /\ m >= n => FailedBelow(F, m) = F
<1>1. IsFiniteSet(0 .. n - 1)
  BY FS_Interval
<1>2. IsFiniteSet(F)
  BY <1>1, FS_Subset
<1>3. IsFiniteSet(G)
  BY <1>2, FS_Subset
<1>4. FailedBelow(F, m) \subseteq F /\ FailedBelow(G, m) \subseteq FailedBelow(F, m)
  BY DEF FailedBelow
<1>5. IsFiniteSet(FailedBelow(F, m))
  BY <1>2, <1>4, FS_Subset
<1>6. Cardinality(FailedBelow(G, m)) \in Nat
        /\ Cardinality(FailedBelow(G, m)) <= Cardinality(FailedBelow(F, m))
  <2>1. IsFiniteSet(FailedBelow(G, m)) /\ Cardinality(FailedBelow(G,
          m)) <= Cardinality(FailedBelow(F, m))
    BY <1>4, <1>5, FS_Subset
  <2> QED
    BY <2>1, FS_CardinalityType
<1>7. Cardinality(FailedBelow(F, m)) \in Nat /\ Cardinality(FailedBelow(G, m)) \in Nat
  BY <1>5, <1>6, FS_CardinalityType
<1>8. m >= n => FailedBelow(F, m) = F
  <2>1. m >= n => \A k \in F : k < m
    OBVIOUS
  <2> QED
    BY ONLY <2>1 DEF FailedBelow
<1> QED
  BY <1>2, <1>3, <1>6, <1>7, <1>8

\* The counts of p stay, and t draws no ticket, or looks at its ticket again.
LEMMA TicketsKept ==
  ASSUME ProducerTypes, ProducerTypes', NEW p \in Producers, NEW C, NEW F, Tickets(p, C, F),
         NEW t \in Threads,
         optimistic'[p] = optimistic[p], overcommit'[p] = overcommit[p],
         headIndex'[p] = headIndex[p], tailIndex[p] <= tailIndex'[p],
         \A u \in Threads : u # t => pc'[u] = pc[u] /\ ql'[u] = ql[u],
         pc'[t] \in Drawn \cup {"count"} /\ ql'[t].p = p =>
           \/ pc'[t] = pc[t] /\ ql'[t] = ql[t]
           \/ pc'[t] = "count" /\ ql'[t].over <= overcommit[p]
           \/ /\ pc[t] = "recheck" /\ ql'[t] = ql[t]
              /\ \/ pc'[t] = "overcommit"
                 \/ pc'[t] = "claim" /\ ql[t].mine - ql[t].over < tailIndex[p]
  PROVE  Tickets(p, C, F)'
<1>0. /\ optimistic[p] \in Nat /\ tailIndex[p] \in Nat /\ tailIndex'[p] \in Nat
      /\ overcommit[p] \in Nat
      /\ F \subseteq 0 .. optimistic[p] - 1 /\ C \subseteq 0 .. optimistic[p] - 1
  BY DEF ProducerTypes, CountersInv, Tickets, Counted
<1>1. \A m \in Nat : Cardinality(FailedBelow(F, m)) \in Nat
  BY <1>0, Failures
<1>2. Counted(p, C, F)'
  <2>1. \A m \in C : m \in Nat
    BY <1>0
  <2> QED
    BY <1>0, <1>1, <2>1 DEF Tickets, Counted
<1>3. \A u, w \in Threads : Draws(u, p)' => Draws(u, p) /\ ql'[u] = ql[u]
  BY DEF Draws, Drawn
<1>4. ASSUME NEW u \in Threads PROVE Ticket(u, p, C, F)'
  <2>1. Ticket(u, p, C, F)
    BY DEF Tickets
  <2>2. pc'[u] = "count" /\ ql'[u].p = p => ql'[u].over <= overcommit'[p]
    BY <2>1 DEF Ticket
  <2>3. ASSUME Draws(u, p)'
        PROVE  /\ ql'[u].mine \in 0 .. optimistic'[p] - 1
               /\ ql'[u].mine \notin C \cup F
               /\ \A w \in Threads : w # u /\ Draws(w, p)' => ql'[w].mine # ql'[u].mine
               /\ pc'[u] = "recheck" => ql'[u].over <= Cardinality(FailedBelow(F, ql'[u].mine))
               /\ pc'[u] = "claim" =>
                    ql'[u].mine - Cardinality(FailedBelow(F, ql'[u].mine)) < tailIndex'[p]
    <3>1. Draws(u, p) /\ ql'[u] = ql[u]
      BY <1>3, <2>3
    <3>2. /\ ql'[u].mine \in 0 .. optimistic'[p] - 1
          /\ ql'[u].mine \notin C \cup F
          /\ \A w \in Threads : w # u /\ Draws(w, p)' => ql'[w].mine # ql'[u].mine
      BY <1>3, <2>1, <3>1 DEF Ticket
    <3>3. PICK m, k, c : m = ql[u].mine /\ k = ql[u].over /\ c = Cardinality(FailedBelow(F, m))
      OBVIOUS
    <3>4. m \in Nat /\ k \in Nat /\ c \in Nat
      BY <1>1, <3>3 DEF ProducerTypes, ElementLocals
    <3>5. pc'[u] = "recheck" => k <= c
      BY <2>1, <3>1, <3>3 DEF Ticket, Drawn, Draws
    <3>6. pc'[u] = "claim" => m - c < tailIndex'[p]
      <4>1. CASE pc[u] = "claim"
        BY <1>0, <2>1, <3>1, <3>3, <3>4, <4>1 DEF Ticket
      <4>2. CASE pc[u] = "recheck" /\ m - k < tailIndex[p]
        <5>1. k <= c
          BY <2>1, <3>1, <3>3, <4>2 DEF Ticket
        <5> QED
          BY <1>0, <3>4, <4>2, <5>1
      <4>3. pc'[u] = "claim" => pc[u] = "claim" \/ (pc[u] = "recheck" /\ m - k < tailIndex[p])
        BY <2>3, <3>1, <3>3 DEF Draws, Drawn
      <4> QED
        BY <4>1, <4>2, <4>3
    <3> QED
      BY <3>1, <3>2, <3>3, <3>5, <3>6
  <2> QED
    BY <2>2, <2>3 DEF Ticket
<1> QED
  BY <1>2, <1>4 DEF Tickets

\* A ticket is drawn: nobody has it yet.
LEMMA TicketDrawn ==
  ASSUME TableInv, WriterInv, ProducerTypes, ProducerTypes', NEW t \in Threads, CountIn(t),
         NEW p \in Producers, p = ql[t].p, NEW C, NEW F, Tickets(p, C, F),
         \A u \in Threads : u # t => pc'[u] = pc[u] /\ ql'[u] = ql[u]
  PROVE  Tickets(p, C, F)'
<1>0. /\ optimistic[p] \in Nat /\ overcommit[p] \in Nat
      /\ F \subseteq 0 .. optimistic[p] - 1 /\ C \subseteq 0 .. optimistic[p] - 1
  BY DEF ProducerTypes, CountersInv, Tickets, Counted
<1>1. /\ optimistic'[p] = optimistic[p] + 1
      /\ tailIndex' = tailIndex /\ headIndex' = headIndex /\ overcommit' = overcommit
      /\ pc[t] = "count" /\ pc'[t] = "recheck"
      /\ ql'[t] = [ql[t] EXCEPT !.mine = optimistic[p]]
  BY Assigned DEF CountIn, ProducerTypes, CountersInv
<1>2. ql'[t].p = p /\ ql'[t].mine = optimistic[p] /\ ql'[t].over = ql[t].over
  <2>1. ql[t] \in ElementLocals
    BY DEF ProducerTypes
  <2> QED
    BY <1>1, <2>1 DEF ElementLocals
<1>3. Counted(p, C, F)'
  <2>1. 0 .. optimistic[p] - 1 \subseteq 0 .. optimistic'[p] - 1
    BY <1>0, <1>1
  <2> QED
    BY <1>1, <2>1 DEF Tickets, Counted
<1>4. FailedBelow(F, optimistic[p]) = F
  <2>1. \A k \in F : k < optimistic[p]
    BY <1>0
  <2> QED
    BY ONLY <2>1 DEF FailedBelow
<1>5. \A u \in Threads : u # t /\ Draws(u, p)' =>
        /\ Draws(u, p) /\ ql'[u] = ql[u] /\ pc'[u] = pc[u] /\ Ticket(u, p, C, F)
        /\ ql[u].mine \in 0 .. optimistic[p] - 1
  <2> SUFFICES ASSUME NEW u \in Threads, u # t, Draws(u, p)'
               PROVE  /\ Draws(u, p) /\ ql'[u] = ql[u] /\ pc'[u] = pc[u] /\ Ticket(u, p, C, F)
                      /\ ql[u].mine \in 0 .. optimistic[p] - 1
    OBVIOUS
  <2>1. Draws(u, p) /\ ql'[u] = ql[u] /\ pc'[u] = pc[u] /\ Ticket(u, p, C, F)
    BY DEF Draws, Tickets
  <2> QED
    BY <2>1 DEF Ticket
<1>6. Ticket(t, p, C, F)'
  <2>1. ql'[t].over <= Cardinality(FailedBelow(F, ql'[t].mine))
    BY <1>1, <1>2, <1>4 DEF Tickets, Ticket, Counted
  <2>2. ql'[t].mine \in 0 .. optimistic'[p] - 1 /\ ql'[t].mine \notin C \cup F
    BY <1>0, <1>1, <1>2
  <2>3. \A u \in Threads : u # t /\ Draws(u, p)' => ql'[u].mine # ql'[t].mine
    BY <1>0, <1>2, <1>5
  <2> QED
    BY <1>1, <2>1, <2>2, <2>3 DEF Ticket
<1>7. ASSUME NEW u \in Threads, u # t PROVE Ticket(u, p, C, F)'
  <2>1. pc'[u] = "count" /\ ql'[u].p = p => ql'[u].over <= overcommit'[p]
    BY <1>1, <1>7 DEF Tickets, Ticket
  <2>2. ASSUME Draws(u, p)'
        PROVE  /\ ql'[u].mine \in 0 .. optimistic'[p] - 1
               /\ ql'[u].mine \notin C \cup F
               /\ \A w \in Threads : w # u /\ Draws(w, p)' => ql'[w].mine # ql'[u].mine
               /\ pc'[u] = "recheck" => ql'[u].over <= Cardinality(FailedBelow(F, ql'[u].mine))
               /\ pc'[u] = "claim" =>
                    ql'[u].mine - Cardinality(FailedBelow(F, ql'[u].mine)) < tailIndex'[p]
    <3>1. /\ Draws(u, p) /\ ql'[u] = ql[u] /\ pc'[u] = pc[u] /\ Ticket(u, p, C, F)
          /\ ql[u].mine \in 0 .. optimistic[p] - 1
      BY <1>5, <1>7, <2>2
    <3>2. ql'[u].mine \in 0 .. optimistic'[p] - 1
      BY <1>0, <1>1, <3>1
    <3>3. ASSUME NEW w \in Threads, w # u, Draws(w, p)' PROVE ql'[w].mine # ql'[u].mine
      <4>1. CASE w = t
        BY <1>0, <1>2, <3>1, <4>1
      <4>2. CASE w # t
        BY <1>5, <3>1, <3>3, <4>2 DEF Ticket
      <4> QED
        BY <4>1, <4>2
    <3>4. /\ ql'[u].mine \notin C \cup F
          /\ pc'[u] = "recheck" => ql'[u].over <= Cardinality(FailedBelow(F, ql'[u].mine))
          /\ pc'[u] = "claim" =>
               ql'[u].mine - Cardinality(FailedBelow(F, ql'[u].mine)) < tailIndex'[p]
      BY <1>1, <3>1 DEF Ticket
    <3> QED
      BY <3>2, <3>3, <3>4
  <2> QED
    BY <2>1, <2>2 DEF Ticket
<1> QED
  BY <1>3, <1>6, <1>7 DEF Tickets

\* A ticket leaves: it has failed, or it has claimed an index.
LEMMA TicketLeaves ==
  ASSUME ProducerTypes, ProducerTypes', NEW p \in Producers, NEW C, NEW F, Tickets(p, C, F),
         NEW t \in Threads, Draws(t, p), ~ Draws(t, p)', pc'[t] # "count",
         \A u \in Threads : u # t => pc'[u] = pc[u] /\ ql'[u] = ql[u],
         NEW C1, NEW F1, NEW m, m = ql[t].mine,
         \/ /\ C1 = C /\ F1 = F \cup {m}
            /\ headIndex'[p] = headIndex[p] /\ overcommit'[p] = overcommit[p] + 1
         \/ /\ C1 = C \cup {m} /\ F1 = F /\ pc[t] = "claim"
            /\ headIndex'[p] = headIndex[p] + 1 /\ overcommit'[p] = overcommit[p],
         optimistic'[p] = optimistic[p], tailIndex'[p] = tailIndex[p]
  PROVE  Tickets(p, C1, F1)'
<1>0. /\ optimistic[p] \in Nat /\ overcommit[p] \in Nat /\ headIndex[p] \in Nat
      /\ tailIndex[p] \in Nat /\ overcommit'[p] \in Nat
      /\ F \subseteq 0 .. optimistic[p] - 1 /\ C \subseteq 0 .. optimistic[p] - 1
      /\ m \in 0 .. optimistic[p] - 1 /\ m \notin C \cup F
  BY DEF ProducerTypes, CountersInv, Tickets, Counted, Ticket
<1>1. F1 \in SUBSET (0 .. optimistic[p] - 1) /\ F \in SUBSET F1
        /\ C1 \subseteq 0 .. optimistic[p] - 1
  BY <1>0
<1>2. \A k \in Nat : /\ Cardinality(FailedBelow(F, k)) \in Nat
                     /\ Cardinality(FailedBelow(F1, k)) \in Nat
                     /\ Cardinality(FailedBelow(F, k)) <= Cardinality(FailedBelow(F1, k))
  BY <1>0, <1>1, Failures
<1>3. overcommit[p] <= overcommit'[p]
  BY <1>0
<1>4. Counted(p, C1, F1)'
  <2>1. Cardinality(C1) = headIndex'[p] /\ Cardinality(F1) = overcommit'[p]
    <3>1. IsFiniteSet(C) /\ IsFiniteSet(F)
      BY <1>0, Failures
    <3>2. Cardinality(C \cup {m}) = Cardinality(C) + 1
            /\ Cardinality(F \cup {m}) = Cardinality(F) + 1
      BY <1>0, <3>1, FS_AddElement
    <3>3. Cardinality(C) = headIndex[p] /\ Cardinality(F) = overcommit[p]
      BY DEF Tickets, Counted
    <3> QED
      BY <3>2, <3>3
  <2>2. C1 \cap F1 = {}
    BY <1>0 DEF Tickets, Counted
  <2>3. ASSUME NEW k \in C1 PROVE k - Cardinality(FailedBelow(F1, k)) < tailIndex'[p]
    <3>1. k - Cardinality(FailedBelow(F, k)) < tailIndex[p]
      <4>1. CASE k \in C
        BY <4>1 DEF Tickets, Counted
      <4>2. CASE k \notin C
        <5>1. k = m /\ pc[t] = "claim"
          BY <2>3, <4>2
        <5> QED
          BY <5>1 DEF Tickets, Ticket
      <4> QED
        BY <4>1, <4>2
    <3>2. k \in Nat
      BY <1>0, <1>1, <2>3
    <3> QED
      BY <1>0, <1>2, <3>1, <3>2
  <2> QED
    BY <1>1, <2>1, <2>2, <2>3 DEF Counted
<1>5. \A u \in Threads : Draws(u, p)' =>
        u # t /\ Draws(u, p) /\ ql'[u] = ql[u] /\ pc'[u] = pc[u] /\ ql[u].mine # m
  BY DEF Draws, Tickets, Ticket
<1>6. ASSUME NEW u \in Threads PROVE Ticket(u, p, C1, F1)'
  <2>1. Ticket(u, p, C, F)
    BY DEF Tickets
  <2>2. ASSUME pc'[u] = "count", ql'[u].p = p PROVE ql'[u].over <= overcommit'[p]
    <3>1. u # t /\ pc[u] = "count" /\ ql'[u] = ql[u]
      BY <2>2
    <3>2. ql[u].over \in Nat /\ ql[u].over <= overcommit[p]
      BY <2>1, <2>2, <3>1 DEF Ticket, ProducerTypes, ElementLocals
    <3> QED
      BY <1>0, <1>3, <3>1, <3>2
  <2>3. ASSUME Draws(u, p)'
        PROVE  /\ ql'[u].mine \in 0 .. optimistic'[p] - 1
               /\ ql'[u].mine \notin C1 \cup F1
               /\ \A w \in Threads : w # u /\ Draws(w, p)' => ql'[w].mine # ql'[u].mine
               /\ pc'[u] = "recheck" => ql'[u].over <= Cardinality(FailedBelow(F1, ql'[u].mine))
               /\ pc'[u] = "claim" =>
                    ql'[u].mine - Cardinality(FailedBelow(F1, ql'[u].mine)) < tailIndex'[p]
    <3>1. u # t /\ Draws(u, p) /\ ql'[u] = ql[u] /\ pc'[u] = pc[u] /\ ql[u].mine # m
      BY <1>5, <2>3
    <3>2. PICK k, o, c, d : /\ k = ql[u].mine /\ o = ql[u].over
                            /\ c = Cardinality(FailedBelow(F, k))
                                 /\ d = Cardinality(FailedBelow(F1, k))
      OBVIOUS
    <3>3. k \in Nat /\ o \in Nat /\ c \in Nat /\ d \in Nat /\ c <= d
      BY <1>2, <3>2 DEF ProducerTypes, ElementLocals
    <3>4. /\ k \in 0 .. optimistic'[p] - 1 /\ k \notin C1 \cup F1
          /\ \A w \in Threads : w # u /\ Draws(w, p)' => ql'[w].mine # k
      BY <1>5, <2>1, <3>1, <3>2 DEF Ticket
    <3>5. (pc'[u] = "recheck" => o <= c) /\ (pc'[u] = "claim" => k - c < tailIndex'[p])
      BY <2>1, <3>1, <3>2 DEF Ticket
    <3>6. (pc'[u] = "recheck" => o <= d) /\ (pc'[u] = "claim" => k - d < tailIndex'[p])
      BY <1>0, <3>3, <3>5
    <3> QED
      BY <3>1, <3>2, <3>4, <3>6
  <2> QED
    BY <2>2, <2>3 DEF Ticket
<1> QED
  BY <1>4, <1>6 DEF Tickets

\* The tickets of a producer at a step of one of its threads.
LEMMA TicketNext ==
  ASSUME BaseInv, BaseInv', AtTail, TicketInv, NEW t \in Threads, Step(t)
  PROVE  TicketInv'
<1>0. /\ QueueInv /\ WriterInv /\ RangeInv /\ TableInv /\ ProducerTypes /\ ProducerTypes'
      /\ PoolTypes
  BY DEF BaseInv, QueueInv
<1> SUFFICES ASSUME NEW p \in Producers PROVE (\E C, F : Tickets(p, C, F))'
  BY DEF TicketInv
<1>1. PICK C, F : Tickets(p, C, F)
  BY DEF TicketInv
<1>2. \A u \in Threads : u # t => pc'[u] = pc[u] /\ ql'[u] = ql[u]
  <2>1. CalmStep(t) \/ WorkStep(t)
    BY <1>0, TableCalm, PoolWorks, ProducerWorks, WorksWork DEF Step, ProducerTypes
  <2> QED
    BY <2>1 DEF CalmStep, WorkStep
<1>a. /\ tailIndex[p] \in Nat /\ optimistic[p] \in Nat /\ overcommit[p] \in Nat
      /\ headIndex[p] \in Nat /\ ql[t] \in ElementLocals
  BY <1>0 DEF ProducerTypes, CountersInv
\* Most steps leave the counts of p alone.
<1>3. ASSUME UNCHANGED <<optimistic, overcommit, headIndex, tailIndex>>,
             pc'[t] \in Drawn \cup {"count"} /\ ql'[t].p = p =>
               \/ pc'[t] = "count" /\ ql'[t].over <= overcommit[p]
               \/ /\ pc[t] = "recheck" /\ ql'[t] = ql[t]
                  /\ \/ pc'[t] = "overcommit"
                     \/ pc'[t] = "claim" /\ ql[t].mine - ql[t].over < tailIndex[p]
      PROVE  (\E D, E : Tickets(p, D, E))'
  <2>1. Tickets(p, C, F)'
    BY <1>0, <1>1, <1>2, <1>3, <1>a, TicketsKept
  <2> QED
    BY <2>1
<1>4. CASE Table(t)
  <2>1. CalmStep(t)
    BY <1>0, <1>4, TableCalm
  <2>2. pc'[t] \notin Drawn \cup {"count"}
          /\ UNCHANGED <<optimistic, overcommit, headIndex, tailIndex>>
    BY <2>1 DEF CalmStep, CalmLabels, Drawn, producerVars
  <2> QED
    BY <1>3, <2>2
<1>5. CASE Pool(t)
  <2>1. UNCHANGED <<optimistic, overcommit, headIndex, tailIndex>>
    BY <1>0, <1>5, PoolWorks DEF producerVars
  <2>2. pc'[t] \notin Drawn \cup {"count"}
    <3>1. \A l \in Drawn \cup {"count"} : l \in ScanLabels /\ l \notin EnqueueLabels \cup AddLabels
      BY DEF Drawn, ScanLabels, EnqueueLabels, AddLabels
    <3>2. pc[t] \notin ScanLabels
      BY <1>5 DEF ScanLabels, Pool, PoolTest, PoolIncrement, GetLoad, GetRefs, GetIncrement,
         GetNext,
        GetCas, GetDone, GetDecrement, Create, AddBlock, AddHead, AddNext, AddRefs, AddCas, AddRetry
    <3>3. WorkStep(t)
      BY <1>0, <1>5, PoolWorks, WorksWork
    <3> QED
      BY <3>1, <3>2, <3>3 DEF WorkStep
  <2> QED
    BY <1>3, <2>1, <2>2
<1>6. CASE Producer(t)
  <2>0. \A l : Go(t, l) => pc'[t] = l
    BY <1>0, Assigned
  <2>1. CASE Dequeue(t)
    <3>1. ql'[t] = [ql[t] EXCEPT !.over = overcommit[ql[t].p]] /\ pc'[t] \in {"count", "missed"}
      BY <1>0, <2>1, Assigned DEF Dequeue
    <3>2. ql'[t].p = p => ql'[t].over = overcommit[p]
      BY <1>a, <3>1 DEF ElementLocals
    <3>3. UNCHANGED <<optimistic, overcommit, headIndex, tailIndex>> /\ pc'[t] \notin Drawn
      BY <2>1, <3>1 DEF Dequeue, producerVars, Drawn
    <3> QED
      BY <1>3, <1>a, <3>1, <3>2, <3>3
  <2>2. CASE CountIn(t)
    <3>1. CASE p = ql[t].p
      BY <1>0, <1>1, <1>2, <2>2, <3>1, TicketDrawn
    <3>2. CASE p # ql[t].p
      <4>1. ql'[t].p # p
        BY <1>0, <2>2, <3>2, WorksWork, ProducerWorks DEF Producer, ProducerTypes, WorkStep
      <4>2. /\ optimistic'[p] = optimistic[p] /\ overcommit' = overcommit /\ headIndex' = headIndex
            /\ tailIndex' = tailIndex
        BY <2>2, <3>2 DEF CountIn
      <4>3. Tickets(p, C, F)'
        BY <1>0, <1>1, <1>2, <1>a, <4>1, <4>2, TicketsKept
      <4> QED
        BY <4>3
    <3> QED
      BY <3>1, <3>2
  <2>3. CASE Recheck(t)
    <3>1. /\ pc[t] = "recheck" /\ ql'[t] = ql[t]
          /\ pc'[t] = IF ql[t].mine - ql[t].over < tailIndex[ql[t].p] THEN "claim" ELSE "overcommit"
          /\ UNCHANGED <<optimistic, overcommit, headIndex, tailIndex>>
      BY <2>0, <2>3 DEF Recheck, producerVars
    <3> QED
      BY <1>3, <3>1
  <2>4. CASE OverCommit(t) \/ Claim(t)
    <3>1. pc'[t] \in {"missed", "lookup"} /\ pc[t] \in Drawn /\ optimistic' = optimistic
          /\ tailIndex' = tailIndex
      BY <2>0, <2>4 DEF OverCommit, Claim, Drawn
    <3>2. CASE p # ql[t].p
      <4>1. overcommit'[p] = overcommit[p] /\ headIndex'[p] = headIndex[p]
        BY <1>0, <2>4, <3>2 DEF OverCommit, Claim, ProducerTypes, CountersInv
      <4>2. pc'[t] \notin Drawn \cup {"count"}
        BY <3>1 DEF Drawn
      <4>3. Tickets(p, C, F)'
        BY <1>0, <1>1, <1>2, <1>a, <3>1, <4>1, <4>2, TicketsKept
      <4> QED
        BY <4>3
    <3>3. CASE p = ql[t].p
      <4>1. Draws(t, p) /\ ~ Draws(t, p)' /\ pc'[t] # "count"
        BY <3>1, <3>3 DEF Draws, Drawn
      <4>2. PICK m : m = ql[t].mine
        OBVIOUS
      <4>3. CASE OverCommit(t)
        <5>1. headIndex'[p] = headIndex[p] /\ overcommit'[p] = overcommit[p] + 1
          BY <1>0, <3>3, <4>3 DEF OverCommit, ProducerTypes, CountersInv
        <5>2. PICK G : G = F \cup {m}
          OBVIOUS
        <5>3. Tickets(p, C, G)'
          BY <1>0, <1>1, <1>2, <3>1, <4>1, <4>2, <5>1, <5>2, TicketLeaves
        <5> QED
          BY <5>3
      <4>4. CASE Claim(t)
        <5>1. /\ headIndex'[p] = headIndex[p] + 1 /\ overcommit'[p] = overcommit[p]
              /\ pc[t] = "claim"
          BY <1>0, <3>3, <4>4 DEF Claim, ProducerTypes, CountersInv
        <5>2. PICK D : D = C \cup {m}
          OBVIOUS
        <5>3. Tickets(p, D, F)'
          BY <1>0, <1>1, <1>2, <3>1, <4>1, <4>2, <5>1, <5>2, TicketLeaves
        <5> QED
          BY <5>3
      <4> QED
        BY <2>4, <4>3, <4>4
    <3> QED
      BY <3>2, <3>3
  <2>5. CASE Publish(t)
    <3>1. /\ pc[t] = "publish" /\ pc'[t] = "enqueued"
          /\ tailIndex' = [tailIndex EXCEPT ![ql[t].p] = ql[t].index + 1]
          /\ optimistic' = optimistic /\ overcommit' = overcommit /\ headIndex' = headIndex
      BY <2>0, <2>5 DEF Publish
    <3>2. ql[t].index = tailIndex[ql[t].p]
      BY <3>1 DEF AtTail, Enqueuing, EnqueueLabels
    <3>3. tailIndex[p] <= tailIndex'[p]
      BY <1>0, <1>a, <3>1, <3>2 DEF ProducerTypes, CountersInv
    <3>4. Tickets(p, C, F)'
      BY <1>0, <1>1, <1>2, <3>1, <3>3, TicketsKept DEF Drawn
    <3> QED
      BY <3>4
  <2>6. CASE \/ Enqueue(t) \/ Insert(t) \/ InsertTail(t) \/ GotNoBlock(t) \/ GotBlock(t)
             \/ Construct(t) \/ Lookup(t) \/ Entry(t) \/ Take(t) \/ SetEmpty(t) \/ Release(t)
    <3>1. UNCHANGED <<optimistic, overcommit, headIndex, tailIndex>>
      BY <2>6 DEF Enqueue, Insert, InsertTail, GotNoBlock, GotBlock, Construct, Lookup, Entry,
        Take, SetEmpty, Release, producerVars, counters
    <3>2. pc'[t] \in EnqueueLabels \cup {"failed", "entry", "take", "setempty", "release",
            "dequeued",
                                         "addblock"}
      <4>1. Insert(t) => pc'[t] \in {"insert", "settail"}
        BY <2>0 DEF Insert
      <4>2. Insert(t) \/ pc'[t] \in EnqueueLabels \cup {"failed", "entry", "take", "setempty",
              "release",
                                                      "dequeued", "addblock"}
        BY <2>0, <2>6 DEF Enqueue, InsertTail, GotNoBlock, GotBlock, Construct, Lookup, Entry,
          Take, SetEmpty, Release, EnqueueLabels
      <4> QED
        BY <4>1, <4>2 DEF EnqueueLabels
    <3>3. pc'[t] \notin Drawn \cup {"count"}
      BY <3>2 DEF Drawn, EnqueueLabels
    <3> QED
      BY <1>3, <3>1, <3>3
  <2> QED
    BY <1>6, <2>1, <2>2, <2>3, <2>4, <2>5, <2>6 DEF Producer
<1> QED
  BY <1>4, <1>5, <1>6 DEF Step

\* A set of natural numbers has a least element, and one below a bound a greatest.
LEMMA Least ==
  ASSUME NEW T, T \subseteq Nat, T # {}
  PROVE  \E x \in T : \A y \in T : x <= y
<1>1. IsWellFoundedOn(OpToRel(<,Nat), Nat)
  BY NatLessThanWellFounded
<1>2. PICK x \in T : \A y \in T : ~ (<<y, x>> \in OpToRel(<,Nat))
  BY <1>1, WFMin
<1>3. \A y \in T : <<y,x>> \in Nat \X Nat /\ ~ (y < x)
  BY <1>2 DEF OpToRel
<1>4. \A y \in T : y \in Nat /\ ~ (y < x)
  BY <1>3, Zenon
<1> HIDE <1>2
<1>5. x \in T /\ x \in Nat
  BY <1>2
<1> QED
  BY ONLY <1>4, <1>5

\* A bounded set of natural numbers has a greatest element.
LEMMA Greatest ==
  ASSUME NEW n \in Nat, NEW T \in SUBSET (0 .. n - 1), T # {}
  PROVE  \E x \in T : \A y \in T : y <= x
<1>1. PICK S : S = {n - y : y \in T}
  OBVIOUS
<1>2. S \subseteq Nat /\ S # {}
  <2>1. \A y \in T : n - y \in Nat
    OBVIOUS
  <2> QED
    BY <1>1, <2>1
<1>3. PICK z \in S : \A y \in S : z <= y
  BY <1>2, Least
<1>4. PICK x \in T : z = n - x
  BY <1>1
<1>5. ASSUME NEW y \in T PROVE y <= x
  <2>1. n - y \in S
    BY <1>1
  <2>2. z <= n - y
    BY <1>3, <2>1
  <2> QED
    BY <1>4, <2>2
<1> QED
  BY <1>5

\* Nobody claims an index that is not published yet: the count of failures that a
\* dequeue has read may be too old, but never too high.
LEMMA ClaimedPublished ==
  ASSUME ProducerTypes, TicketInv, NEW p \in Producers
  PROVE  headIndex[p] <= tailIndex[p]
<1>1. PICK C, F : Counted(p, C, F)
  BY DEF TicketInv, Tickets
<1>2. /\ optimistic[p] \in Nat /\ headIndex[p] \in Nat /\ tailIndex[p] \in Nat
      /\ F \in SUBSET (0 .. optimistic[p] - 1) /\ C \in SUBSET (0 .. optimistic[p] - 1)
      /\ C \cap F = {} /\ Cardinality(C) = headIndex[p]
  BY <1>1 DEF ProducerTypes, CountersInv, Counted
<1>3. IsFiniteSet(C) /\ IsFiniteSet(F)
  BY <1>2, Failures
<1>4. CASE C = {}
  BY <1>2, <1>4, FS_EmptySet
<1>5. CASE C # {}
  <2>1. PICK m \in C : \A k \in C : k <= m
    BY <1>2, <1>5, Greatest
  <2>2. m \in Nat /\ \A k \in C \cup F : k \in Nat
    BY <1>2
  <2>3. PICK B : B = FailedBelow(F, m)
    OBVIOUS
  <2>4. IsFiniteSet(B) /\ C \cap B = {} /\ C \cup B \subseteq 0 .. m
    <3>1. B \subseteq F
      BY <2>3 DEF FailedBelow
    <3>2. \A k \in C \cup B : k \in 0 .. m
      BY <2>1, <2>2, <2>3 DEF FailedBelow
    <3> QED
      BY <1>2, <1>3, <3>1, <3>2, FS_Subset
  <2>5. Cardinality(C \cup B) = Cardinality(C) + Cardinality(B)
    <3>1. Cardinality(C \cup B) = Cardinality(C) + Cardinality(B) - Cardinality(C \cap B)
      BY <1>3, <2>4, FS_Union
    <3>2. Cardinality(C \cap B) = 0
      BY <2>4, FS_EmptySet
    <3>3. Cardinality(C) \in Nat /\ Cardinality(B) \in Nat
      BY <1>3, <2>4, FS_CardinalityType
    <3> QED
      BY <3>1, <3>2, <3>3
  <2>6. Cardinality(C \cup B) <= m + 1
    <3>1. IsFiniteSet(0 .. m) /\ Cardinality(0 .. m) = m + 1
      BY <2>2, FS_Interval
    <3> QED
      BY <2>4, <3>1, FS_Subset
  <2>7. m - Cardinality(B) < tailIndex[p]
    BY <1>1, <2>3 DEF Counted
  <2>8. Cardinality(B) \in Nat
    BY <2>4, FS_CardinalityType
  <2> QED
    BY <1>2, <2>2, <2>5, <2>6, <2>7, <2>8
<1> QED
  BY <1>4, <1>5

\* No ticket has been drawn at first.
LEMMA TicketStarts ==
  ASSUME Init
  PROVE  TicketInv /\ AtTail
<1>1. \A p \in Producers : optimistic[p] = 0 /\ overcommit[p] = 0 /\ headIndex[p] = 0
  BY DEF Init, ProducerInit
<1>2. \A t \in Threads : pc[t] = "idle"
  BY DEF Init
<1>3. \A p \in Producers : Tickets(p, {}, {})
  BY <1>1, <1>2, FS_EmptySet DEF Tickets, Counted, Ticket, Draws, Drawn
<1>4. AtTail
  BY <1>2 DEF AtTail, Enqueuing, EnqueueLabels, AddLabels
<1> QED
  BY <1>3, <1>4 DEF TicketInv

\* A step that leaves what the two speak of.
LEMMA TicketSame ==
  ASSUME TicketInv, AtTail, UNCHANGED <<pc, fl, ql, counters>>
  PROVE  TicketInv' /\ AtTail'
<1>1. AtTail'
  BY DEF AtTail, Enqueuing, counters
<1>2. ASSUME NEW p \in Producers, NEW C, NEW F, Tickets(p, C, F) PROVE Tickets(p, C, F)'
  BY <1>2 DEF Tickets, Counted, Ticket, Draws, counters
<1> QED
  BY <1>1, <1>2 DEF TicketInv

\* No index is claimed that has not been published: the optimistic counts let no more
\* threads through than there are elements (concurrentqueue.h, ImplicitProducer::dequeue).
Published == \A p \in Producers : headIndex[p] <= tailIndex[p]

\* Without FewThreads: the types, the writers, the tables and the tickets.
TicketsSafe == BaseInv /\ AtTail /\ TicketInv

\* They hold throughout.
LEMMA TicketsAreSafe == Spec => [](TicketsSafe /\ Published)
<1>1. Init => TicketsSafe
  BY BaseStarts, TicketStarts DEF TicketsSafe
<1>2. TicketsSafe /\ [Next]_vars => TicketsSafe'
  <2> SUFFICES ASSUME TicketsSafe, [Next]_vars PROVE TicketsSafe'
    OBVIOUS
  <2>0. BaseInv /\ AtTail /\ TicketInv
    BY DEF TicketsSafe
  <2>1. BaseInv'
    BY <2>0, BaseNext
  <2>2. CASE UNCHANGED <<pc, fl, ql, counters>>
    BY <2>0, <2>1, <2>2, TicketSame DEF TicketsSafe
  <2>3. ASSUME NEW t \in Threads, Step(t) PROVE TicketsSafe'
    BY <2>0, <2>1, <2>3, AtTailNext, TicketNext DEF TicketsSafe
  <2>4. CASE Destroy
    BY <2>2, <2>4 DEF Destroy, producerVars, counters
  <2>5. CASE UNCHANGED vars
    BY <2>2, <2>5 DEF vars, outsidePool, producerVars, counters
  <2> QED
    BY <2>3, <2>4, <2>5 DEF Next
<1>3. TicketsSafe => Published
  BY ClaimedPublished DEF TicketsSafe, Published, BaseInv
<1> QED
  BY <1>1, <1>2, <1>3, PTL DEF Spec

\* No index is claimed whose element has not been published: the optimistic counts let
\* no more dequeues through than there are elements, however they race
\* (ImplicitProducer::dequeue).
THEOREM ClaimsArePublished == Spec => []Published
BY TicketsAreSafe, PTL
=============================================================================
