------------------------------ MODULE CsimProofs ------------------------------
(***************************************************************************)
(* csim implements LRUCache for caches of any size and traces of any       *)
(* length.  First what push, front and pop do to a queue that orders its   *)
(* lines; then the inductive invariant; then the refinement, action by     *)
(* action; last, that what it counts are the hits the trace alone defines. *)
(***************************************************************************)
EXTENDS Csim, WellFoundedInduction, FiniteSetTheorems, TLAPS

Queues == Seq(Lines \union {Dummy})

\* A nonempty set of positions has a first one.
LEMMA FirstPosition ==
  ASSUME NEW P \in SUBSET Nat, P # {}
  PROVE  \E m \in P : \A k \in P : m <= k
<1>1. \E m \in P : \A k \in P : <<k, m>> \notin OpToRel(<, Nat)
  BY NatLessThanWellFounded, WFMin
<1>2. \A k, m \in P : <<k, m>> \notin OpToRel(<, Nat) => m <= k
  BY DEF OpToRel
<1>3. QED  BY <1>1, <1>2

\* Line indices are never the dummy.
LEMMA LinesAreNotDummy == Lines \subseteq Nat /\ Dummy \notin Lines /\ Dummy \in Int
BY CacheAssumption DEF Lines, Dummy

-------------------------------------------------------------------------------
(* The queue. *)

\* push entry by entry.
LEMMA PushEntries ==
  ASSUME NEW q \in Queues, NEW i \in Lines
  PROVE  /\ push(q, i) \in Queues /\ Len(push(q, i)) = Len(q) + 1
         /\ push(q, i)[Len(q) + 1] = i
         /\ \A k \in 1 .. Len(q) :
              push(q, i)[k] = IF k < Len(q) /\ q[k] = i THEN Dummy ELSE q[k]
<1> DEFINE r == [k \in DOMAIN q |-> IF k < Len(q) /\ q[k] = i THEN Dummy ELSE q[k]]
<1>1. Len(q) \in Nat /\ DOMAIN q = 1 .. Len(q) /\ \A k \in 1 .. Len(q) : q[k] \in Lines \union {Dummy}
  BY DEF Queues
<1>2. r \in [1 .. Len(q) -> Lines \union {Dummy}]
  BY <1>1
<1>3. r \in Queues /\ Len(r) = Len(q)
  BY <1>1, <1>2 DEF Queues
<1>4. \A k \in 1 .. Len(q) : r[k] = IF k < Len(q) /\ q[k] = i THEN Dummy ELSE q[k]
  BY <1>1
<1>5. push(q, i) = Append(r, i)
  BY DEF push
<1> HIDE DEF r
<1>6. QED  BY <1>1, <1>3, <1>4, <1>5 DEF Queues

\* Pushing a line keeps a queue in order and adds the line to it.
LEMMA PushOrdered ==
  ASSUME NEW q \in Queues, NEW L, Ordered(q, L), NEW i \in Lines
  PROVE  Ordered(push(q, i), L \union {i})
<1> DEFINE p == push(q, i)
           n == Len(q)
<1>1. /\ p \in Queues /\ Len(p) = n + 1 /\ p[n + 1] = i
      /\ \A k \in 1 .. n : p[k] = IF k < n /\ q[k] = i THEN Dummy ELSE q[k]
  BY PushEntries
<1>2. /\ n \in Nat /\ DOMAIN q = 1 .. n /\ DOMAIN p = 1 .. n + 1
  BY <1>1 DEF Queues
<1> HIDE DEF p, n
<1>3. Entries(p) = L \union {i}
  <2>1. ASSUME NEW x, x \in Entries(p) PROVE x \in L \union {i}
    <3>1. PICK k \in 1 .. n + 1 : x = p[k] /\ x # Dummy
      BY <1>2, <2>1 DEF Entries
    <3>2. CASE k = n + 1
      BY <1>1, <3>1, <3>2
    <3>3. CASE k \in 1 .. n
      <4>1. x = q[k]
        BY <1>1, <3>1, <3>3
      <4>2. QED  BY <1>2, <3>1, <3>3, <4>1 DEF Ordered, Entries
    <3>4. QED  BY <1>2, <3>1, <3>2, <3>3
  <2>2. ASSUME NEW x \in L PROVE x \in Entries(p) \union {i}
    <3>1. PICK k \in 1 .. n : x = q[k] /\ x # Dummy
      BY <1>2, <2>2 DEF Ordered, Entries
    <3>2. CASE x # i
      <4>1. p[k] = x
        BY <1>1, <3>1, <3>2
      <4>2. QED  BY <1>2, <3>1, <4>1 DEF Entries
    <3>3. QED  BY <3>2
  <2>3. i \in Entries(p)
    BY <1>1, <1>2, LinesAreNotDummy DEF Entries
  <2>4. QED  BY <2>1, <2>2, <2>3
<1>4. \A j, k \in DOMAIN p : p[j] = p[k] /\ p[j] # Dummy /\ j < k => k = j + 1
  <2> SUFFICES ASSUME NEW j \in 1 .. n + 1, NEW k \in 1 .. n + 1,
                      p[j] = p[k], p[j] # Dummy, j < k
               PROVE  k = j + 1
    BY <1>2
  <2>1. j \in 1 .. n /\ p[j] = q[j]
    BY <1>1, <1>2
  <2>2. CASE k \in 1 .. n
    <3>1. p[k] = q[k]
      BY <1>1, <2>2
    <3>2. QED  BY <1>2, <2>1, <2>2, <3>1 DEF Ordered
  <2>3. CASE k = n + 1
    <3>1. q[j] = i
      BY <1>1, <2>1, <2>3
    <3>2. ~(j < n)
      BY <1>1, <2>1, <3>1
    <3>3. QED  BY <1>2, <2>1, <2>3, <3>2
  <2>4. QED  BY <1>2, <2>2, <2>3
<1>5. p # <<>> => p[Len(p)] # Dummy
  BY <1>1, LinesAreNotDummy
<1>6. QED  BY <1>3, <1>4, <1>5 DEF Ordered, p

\* Afterwards the line pushed comes last and the others keep their order.
LEMMA PushPrecedes ==
  ASSUME NEW q \in Queues, NEW L, Ordered(q, L), NEW i \in Lines
  PROVE  Precedes(push(q, i)) = {p \in Precedes(q) : p[1] # i /\ p[2] # i}
                                  \union {<<x, i>> : x \in L \ {i}}
<1> DEFINE r == push(q, i)
           n == Len(q)
           Old == {p \in Precedes(q) : p[1] # i /\ p[2] # i}
           New == {<<x, i>> : x \in L \ {i}}
<1>1. /\ r \in Queues /\ Len(r) = n + 1 /\ r[n + 1] = i
      /\ \A k \in 1 .. n : r[k] = IF k < n /\ q[k] = i THEN Dummy ELSE q[k]
  BY PushEntries
<1>2. /\ n \in Nat /\ DOMAIN q = 1 .. n /\ DOMAIN r = 1 .. n + 1
      /\ \A k \in 1 .. n : q[k] \in Lines \union {Dummy}
  BY <1>1 DEF Queues
<1>3. \A x \in L : x \in Lines /\ \E k \in 1 .. n : q[k] = x
  BY <1>2 DEF Ordered, Entries
<1>4. \A k \in 1 .. n : q[k] \in Lines => q[k] \in L
  BY <1>2, LinesAreNotDummy DEF Ordered, Entries
<1> HIDE DEF r, n
<1>5. \A k \in 1 .. n : r[k] \in Lines => r[k] = q[k]
  BY <1>1, LinesAreNotDummy
<1>6. \A k \in 1 .. n : r[k] = i => k = n
  BY <1>1, <1>2, LinesAreNotDummy
<1>7. ASSUME NEW x, NEW y, <<x, y>> \in Precedes(r) PROVE <<x, y>> \in Old \union New
  <2>1. /\ x \in Lines /\ y \in Lines /\ x # y
        /\ \E j, k \in DOMAIN r : j < k /\ r[j] = x /\ r[k] = y
    BY <1>7 DEF Precedes
  <2>2. PICK j \in 1 .. n + 1, k \in 1 .. n + 1 : j < k /\ r[j] = x /\ r[k] = y
    BY <1>2, <2>1
  <2>3. j \in 1 .. n /\ q[j] = x
    BY <1>2, <1>5, <2>1, <2>2
  <2>4. x # i
    <3>1. SUFFICES ASSUME x = i PROVE FALSE
      OBVIOUS
    <3>2. j = n /\ k = n + 1
      BY <1>2, <1>6, <2>2, <2>3, <3>1
    <3>3. QED  BY <1>1, <2>1, <2>2, <3>1, <3>2
  <2>5. CASE k = n + 1
    <3>1. y = i /\ x \in L
      BY <1>1, <1>4, <2>1, <2>2, <2>3, <2>5
    <3>2. QED  BY <2>4, <3>1
  <2>6. CASE k \in 1 .. n
    <3>1. q[k] = y
      BY <1>5, <2>1, <2>2, <2>6
    <3>2. <<x, y>> \in Precedes(q)
      BY <1>2, <2>1, <2>2, <2>3, <2>6, <3>1 DEF Precedes
    <3>3. CASE y = i
      BY <1>4, <2>1, <2>3, <2>4, <3>3
    <3>4. CASE y # i
      BY <2>4, <3>2, <3>4
    <3>5. QED  BY <3>3, <3>4
  <2>7. QED  BY <1>2, <2>2, <2>5, <2>6
<1>8. ASSUME NEW x, NEW y, <<x, y>> \in Old PROVE <<x, y>> \in Precedes(r)
  <2>1. /\ x \in Lines /\ y \in Lines /\ x # y /\ x # i /\ y # i
        /\ \E j, k \in DOMAIN q : j < k /\ q[j] = x /\ q[k] = y
    BY <1>8 DEF Precedes
  <2>2. PICK j \in 1 .. n, k \in 1 .. n : j < k /\ q[j] = x /\ q[k] = y
    BY <1>2, <2>1
  <2>3. r[j] = x /\ r[k] = y
    BY <1>1, <2>1, <2>2
  <2>4. j \in DOMAIN r /\ k \in DOMAIN r
    BY <1>2
  <2>5. QED  BY <2>1, <2>2, <2>3, <2>4 DEF Precedes
<1>9. ASSUME NEW x \in L \ {i} PROVE <<x, i>> \in Precedes(r)
  <2>1. PICK k \in 1 .. n : q[k] = x
    BY <1>3
  <2>2. r[k] = x /\ r[n + 1] = i
    BY <1>1, <2>1
  <2>3. k \in DOMAIN r /\ n + 1 \in DOMAIN r /\ k < n + 1
    BY <1>2
  <2>4. QED  BY <1>3, <2>2, <2>3 DEF Precedes
<1>10. /\ \A p \in Precedes(r) : p = <<p[1], p[2]>>
       /\ \A p \in Precedes(q) : p = <<p[1], p[2]>>
  BY DEF Precedes
<1> HIDE DEF Old, New
<1>11. Precedes(r) \subseteq Old \union New
  BY <1>7, <1>10
<1>12. Old \subseteq Precedes(r)
  BY <1>8, <1>10 DEF Old
<1>13. New \subseteq Precedes(r)
  BY <1>9 DEF New
<1>14. QED  BY <1>11, <1>12, <1>13 DEF r, Old, New

\* front returns a line of the queue, and the entries before it are dummies.
LEMMA FrontEntry ==
  ASSUME NEW q \in Queues, NEW L, Ordered(q, L), L # {}
  PROVE  /\ FirstEntry(q) \in 1 .. Len(q) /\ front(q) = q[FirstEntry(q)] /\ front(q) \in L
         /\ \A j \in 1 .. FirstEntry(q) - 1 : q[j] = Dummy
<1> DEFINE P == {k \in 1 .. Len(q) : q[k] # Dummy}
<1>1. Len(q) \in Nat /\ DOMAIN q = 1 .. Len(q)
  BY DEF Queues
<1>2. P # {}
  BY <1>1 DEF Ordered, Entries
<1>3. PICK m \in P : \A k \in P : m <= k
  <2>1. P \in SUBSET Nat
    BY <1>1
  <2> HIDE DEF P
  <2>2. QED  BY <1>2, <2>1, FirstPosition
<1>4. m \in DOMAIN q /\ q[m] # Dummy /\ \A j \in 1 .. m - 1 : q[j] = Dummy
  BY <1>1, <1>3
<1>5. /\ FirstEntry(q) \in DOMAIN q /\ q[FirstEntry(q)] # Dummy
      /\ \A j \in 1 .. FirstEntry(q) - 1 : q[j] = Dummy
  BY <1>4 DEF FirstEntry
<1>6. QED  BY <1>1, <1>5 DEF front, Ordered, Entries

\* What is left of the queue once the victim is popped.
LEMMA PopEntries ==
  ASSUME NEW q \in Queues, NEW L, Ordered(q, L), L # {}
  PROVE  /\ pop(Trimmed(q)) \in Queues
         /\ Len(pop(Trimmed(q))) = Len(q) - FirstEntry(q)
         /\ \A k \in 1 .. Len(q) - FirstEntry(q) : pop(Trimmed(q))[k] = q[FirstEntry(q) + k]
<1> DEFINE f == FirstEntry(q)
           t == SubSeq(q, f, Len(q))
<1>1. Len(q) \in Nat /\ f \in 1 .. Len(q) /\ \A k \in 1 .. Len(q) : q[k] \in Lines \union {Dummy}
  BY FrontEntry DEF Queues
<1> HIDE DEF f
<1>2. /\ t \in Queues /\ Len(t) = Len(q) - f + 1
      /\ \A k \in 1 .. Len(q) - f + 1 : t[k] = q[f + k - 1]
  BY <1>1 DEF Queues
<1> HIDE DEF t
<1>3. t # <<>>
  BY <1>1, <1>2
<1>4. Tail(t) \in Queues /\ Len(Tail(t)) = Len(q) - f
  BY <1>1, <1>2, <1>3 DEF Queues
<1>5. \A k \in 1 .. Len(q) - f : Tail(t)[k] = t[k + 1]
  BY <1>1, <1>2, <1>3, <1>4 DEF Queues
<1>6. \A k \in 1 .. Len(q) - f : Tail(t)[k] = q[f + k]
  BY <1>1, <1>2, <1>5
<1>7. pop(Trimmed(q)) = Tail(t)
  BY DEF pop, Trimmed, t, f
<1>8. QED  BY <1>4, <1>6, <1>7 DEF f

\* It is in order, holds all lines but perhaps the victim, and no line was
\* used before the victim.
LEMMA PopOrdered ==
  ASSUME NEW q \in Queues, NEW L, Ordered(q, L), L # {}
  PROVE  LET r == pop(Trimmed(q))
             v == front(q)
         IN  /\ Ordered(r, Entries(r)) /\ Entries(r) \union {v} = L
             /\ {p \in Precedes(r) : p[1] # v /\ p[2] # v} =
                  {p \in Precedes(q) : p[1] # v /\ p[2] # v}
             /\ \A x : <<x, v>> \notin Precedes(q)
<1> DEFINE r == pop(Trimmed(q))
           v == front(q)
           f == FirstEntry(q)
           n == Len(q)
<1>1. /\ f \in 1 .. n /\ v = q[f] /\ v \in L /\ \A j \in 1 .. f - 1 : q[j] = Dummy
  BY FrontEntry
<1>2. /\ r \in Queues /\ Len(r) = n - f /\ \A k \in 1 .. n - f : r[k] = q[f + k]
  BY PopEntries
<1>3. n \in Nat /\ DOMAIN q = 1 .. n /\ DOMAIN r = 1 .. n - f
  BY <1>2 DEF Queues
<1> HIDE DEF r, v, f, n
<1>4. Entries(r) \union {v} = L
  <2>1. ASSUME NEW x \in Entries(r) PROVE x \in L
    <3>1. PICK k \in 1 .. n - f : x = q[f + k] /\ x # Dummy
      BY <1>2, <1>3 DEF Entries
    <3>2. f + k \in DOMAIN q
      BY <1>1, <1>3
    <3>3. QED  BY <3>1, <3>2 DEF Ordered, Entries
  <2>2. ASSUME NEW x \in L, x # v PROVE x \in Entries(r)
    <3>1. PICK k \in 1 .. n : x = q[k] /\ x # Dummy
      BY <1>3 DEF Ordered, Entries
    <3>2. k > f
      BY <1>1, <1>3, <2>2, <3>1
    <3>3. k - f \in 1 .. n - f /\ r[k - f] = x
      <4>1. k - f \in 1 .. n - f /\ f + (k - f) = k
        BY <1>1, <1>3, <3>2
      <4>2. QED  BY <1>2, <3>1, <4>1
    <3>4. QED  BY <1>3, <3>1, <3>3 DEF Entries
  <2>3. QED  BY <1>1, <2>1, <2>2
<1>5. Ordered(r, Entries(r))
  <2>1. ASSUME NEW j \in 1 .. n - f, NEW k \in 1 .. n - f, r[j] = r[k], r[j] # Dummy, j < k
        PROVE  k = j + 1
    <3>1. f + j \in DOMAIN q /\ f + k \in DOMAIN q /\ f + j < f + k
      BY <1>1, <1>3, <2>1
    <3>2. q[f + j] = q[f + k] /\ q[f + j] # Dummy
      BY <1>2, <2>1
    <3>3. f + k = f + j + 1
      BY <3>1, <3>2 DEF Ordered
    <3>4. QED  BY <1>1, <1>3, <3>3
  <2>2. ASSUME r # <<>> PROVE r[Len(r)] # Dummy
    <3>1. n - f \in 1 .. n - f
      BY <1>1, <1>2, <1>3, <2>2 DEF Queues
    <3>2. r[n - f] = q[n]
      BY <1>1, <1>2, <1>3, <3>1
    <3>3. q # <<>>
      BY <1>1, <1>3
    <3>4. QED  BY <1>2, <3>2, <3>3 DEF Ordered, n
  <2>3. QED  BY <1>3, <2>1, <2>2 DEF Ordered
<1>6. \A x : <<x, v>> \notin Precedes(q)
  <2>1. SUFFICES ASSUME NEW x, <<x, v>> \in Precedes(q) PROVE FALSE
    OBVIOUS
  <2>2. x \in Lines /\ x # v /\ \E j, k \in DOMAIN q : j < k /\ q[j] = x /\ q[k] = v
    BY <2>1 DEF Precedes
  <2>3. PICK j \in 1 .. n, k \in 1 .. n : j < k /\ q[j] = x /\ q[k] = v
    BY <1>3, <2>2
  <2>4. j > f
    BY <1>1, <1>3, <2>2, <2>3, LinesAreNotDummy
  <2>5. v # Dummy
    BY <1>1 DEF Ordered, Entries
  <2>6. k = f + 1
    BY <1>1, <1>3, <2>3, <2>4, <2>5 DEF Ordered
  <2>7. QED  BY <1>1, <1>3, <2>3, <2>4, <2>6
<1>7. ASSUME NEW x, NEW y, x # v, y # v
      PROVE  <<x, y>> \in Precedes(r) <=> <<x, y>> \in Precedes(q)
  <2>1. ASSUME <<x, y>> \in Precedes(r) PROVE <<x, y>> \in Precedes(q)
    <3>1. /\ x \in Lines /\ y \in Lines /\ x # y
          /\ \E j, k \in DOMAIN r : j < k /\ r[j] = x /\ r[k] = y
      BY <2>1 DEF Precedes
    <3>2. PICK j \in 1 .. n - f, k \in 1 .. n - f : j < k /\ r[j] = x /\ r[k] = y
      BY <1>3, <3>1
    <3>3. f + j \in DOMAIN q /\ f + k \in DOMAIN q /\ f + j < f + k
      BY <1>1, <1>3, <3>2
    <3>4. QED  BY <1>2, <3>1, <3>2, <3>3 DEF Precedes
  <2>2. ASSUME <<x, y>> \in Precedes(q) PROVE <<x, y>> \in Precedes(r)
    <3>1. /\ x \in Lines /\ y \in Lines /\ x # y
          /\ \E j, k \in DOMAIN q : j < k /\ q[j] = x /\ q[k] = y
      BY <2>2 DEF Precedes
    <3>2. PICK j \in 1 .. n, k \in 1 .. n : j < k /\ q[j] = x /\ q[k] = y
      BY <1>3, <3>1
    <3>3. j > f
      BY <1>1, <1>3, <1>7, <3>1, <3>2, LinesAreNotDummy
    <3>4. /\ j - f \in DOMAIN r /\ k - f \in DOMAIN r /\ j - f < k - f
          /\ f + (j - f) = j /\ f + (k - f) = k
      BY <1>1, <1>3, <3>2, <3>3
    <3>5. r[j - f] = x /\ r[k - f] = y
      BY <1>2, <1>3, <3>2, <3>4
    <3>6. QED  BY <3>1, <3>4, <3>5 DEF Precedes
  <2>3. QED  BY <2>1, <2>2
<1>8. {p \in Precedes(r) : p[1] # v /\ p[2] # v} = {p \in Precedes(q) : p[1] # v /\ p[2] # v}
  <2>1. /\ \A p \in Precedes(r) : p = <<p[1], p[2]>>
        /\ \A p \in Precedes(q) : p = <<p[1], p[2]>>
    BY DEF Precedes
  <2>2. QED  BY <1>7, <2>1
<1>9. QED  BY <1>4, <1>5, <1>6, <1>8 DEF r, v

\* The whole of an eviction's work on the queue.
LEMMA EvictQueue ==
  ASSUME NEW q \in Queues, NEW L, Ordered(q, L), L # {}
  PROVE  LET v == front(q)
             r == push(pop(Trimmed(q)), v)
         IN  /\ v \in L /\ r \in Queues /\ Ordered(r, L)
             /\ \A x : <<x, v>> \notin Precedes(q)
             /\ Precedes(r) = {p \in Precedes(q) : p[1] # v /\ p[2] # v}
                                \union {<<x, v>> : x \in L \ {v}}
<1> DEFINE t == pop(Trimmed(q))
           v == front(q)
           M == Entries(t)
<1>1. v \in L /\ v \in Lines
  <2>1. \A k \in DOMAIN q : q[k] \in Lines \union {Dummy}
    BY DEF Queues
  <2>2. QED  BY <2>1, FrontEntry DEF Ordered, Entries
<1>2. t \in Queues
  BY PopEntries
<1>3. /\ Ordered(t, M) /\ M \union {v} = L /\ \A x : <<x, v>> \notin Precedes(q)
      /\ {p \in Precedes(t) : p[1] # v /\ p[2] # v} = {p \in Precedes(q) : p[1] # v /\ p[2] # v}
  BY PopOrdered
<1> HIDE DEF t, v, M
<1>4. push(t, v) \in Queues
  BY <1>1, <1>2, PushEntries
<1>5. Ordered(push(t, v), L)
  <2>1. Ordered(push(t, v), M \union {v})
    BY <1>1, <1>2, <1>3, PushOrdered
  <2>2. QED  BY <1>3, <2>1
<1>6. Precedes(push(t, v)) = {p \in Precedes(t) : p[1] # v /\ p[2] # v}
                               \union {<<x, v>> : x \in M \ {v}}
  BY <1>1, <1>2, <1>3, PushPrecedes
<1>7. M \ {v} = L \ {v}
  BY <1>3
<1>8. QED  BY <1>1, <1>3, <1>4, <1>5, <1>6, <1>7 DEF t, v

-------------------------------------------------------------------------------
(* The cache. *)

\* Every address has a set, and a tag that no empty line has.
LEMMA AddressSplit ==
  ASSUME NoSentinelTag, NEW a \in Addresses
  PROVE  SetOf(a) \in Sets /\ TagOf(a) \in Addresses \ {Empty}
<1> DEFINE k == S * B
<1>1. /\ S \in Nat /\ S > 0 /\ B \in Nat /\ B > 0 /\ Memory \in Nat /\ Memory > 1
      /\ a \in Nat /\ a <= Memory - 1
  BY CacheAssumption DEF Addresses, NoSentinelTag
<1>2. k \in Nat /\ k > 1
  BY <1>1 DEF NoSentinelTag
<1>3. SetOf(a) \in Sets
  <2>1. a \div B \in Int
    BY <1>1
  <2>2. QED  BY <1>1, <2>1 DEF SetOf, Sets
<1> HIDE DEF k
<1>4. a \div k \in Nat /\ (a > 0 => a \div k < a) /\ (a = 0 => a \div k = 0)
  <2> DEFINE d == a \div k
  <2>1. d \in Int /\ k * d <= a /\ a < k * d + k
    BY <1>1, <1>2
  <2> HIDE DEF d
  <2>2. d >= 0
    <3>1. d < 0 => k * d <= -k
      BY <1>2, <2>1
    <3>2. QED  BY <1>1, <1>2, <2>1, <3>1
  <2>3. d > 0 => k * d > d
    BY <1>2, <2>1
  <2>4. k * d >= d
    BY <1>2, <2>1, <2>2
  <2>5. QED  BY <1>1, <1>2, <2>1, <2>2, <2>3, <2>4 DEF d
<1>5. TagOf(a) = a \div k
  BY DEF TagOf, k
<1>6. QED  BY <1>1, <1>3, <1>4, <1>5 DEF Addresses, Empty

\* A search of a set finds a line if one qualifies.
LEMMA SearchFinds ==
  ASSUME NEW n \in Sets, NEW t, Holds(n, t)
  PROVE  LineOf(n, t) \in Lines /\ cache[n][LineOf(n, t)] = t
<1> DEFINE P == {i \in Lines : cache[n][i] = t}
<1>1. P \in SUBSET Nat /\ P # {}
  BY LinesAreNotDummy DEF Holds
<1> HIDE DEF P
<1>2. PICK m \in P : \A k \in P : m <= k
  BY <1>1, FirstPosition
<1>3. m \in Lines /\ cache[n][m] = t
  BY <1>2 DEF P
<1>4. \A k \in 0 .. m - 1 : cache[n][k] # t
  <2>1. SUFFICES ASSUME NEW k \in 0 .. m - 1, cache[n][k] = t PROVE FALSE
    OBVIOUS
  <2>2. k \in Lines /\ k < m
    BY <1>3, CacheAssumption DEF Lines
  <2>3. QED  BY <1>2, <2>1, <2>2, LinesAreNotDummy, <1>3 DEF P
<1>5. QED  BY <1>3, <1>4 DEF LineOf

\* The part of the invariant that proc_instr is about.
CacheOK ==
  /\ cache \in [Sets -> [Lines -> Addresses]]
  /\ lru \in [Sets -> Queues]
  /\ OneLinePerTag /\ QueueOrdersLines

\* What a hit, a fill and an eviction have in common: line i of set n holds
\* tag t, no other line does, and r, the set's queue, has i last.
UsesLine(n, t, i, r) ==
  /\ i \in Lines /\ r \in Queues
  /\ cache' = [cache EXCEPT ![n] = [@ EXCEPT ![i] = t]]
  /\ lru' = [lru EXCEPT ![n] = r]
  /\ \A k \in Lines \ {i} : cache[n][k] # t
  /\ Ordered(r, Loaded(n) \union {i})
  /\ Precedes(r) = {p \in Precedes(lru[n]) : p[1] # i /\ p[2] # i}
                     \union {<<x, i>> : x \in Loaded(n) \ {i}}

LEMMA HitUses ==
  ASSUME CacheOK, NEW n \in Sets, NEW t \in Addresses \ {Empty}, Hit(n, t)
  PROVE  UsesLine(n, t, LineOf(n, t), push(lru[n], LineOf(n, t))) /\ LineOf(n, t) \in Loaded(n)
<1> DEFINE i == LineOf(n, t)
<1>1. i \in Lines /\ cache[n][i] = t
  BY SearchFinds DEF Hit
<1> HIDE DEF i
<1>2. i \in Loaded(n)
  BY <1>1 DEF Loaded
<1>3. lru[n] \in Queues /\ Ordered(lru[n], Loaded(n)) /\ cache[n] \in [Lines -> Addresses]
  BY DEF CacheOK, QueueOrdersLines
<1>4. push(lru[n], i) \in Queues
  BY <1>1, <1>3, PushEntries
<1>5. Ordered(push(lru[n], i), Loaded(n) \union {i})
  BY <1>1, <1>3, PushOrdered
<1>6. Precedes(push(lru[n], i)) = {p \in Precedes(lru[n]) : p[1] # i /\ p[2] # i}
                                    \union {<<x, i>> : x \in Loaded(n) \ {i}}
  BY <1>1, <1>3, PushPrecedes
<1>7. \A k \in Lines \ {i} : cache[n][k] # t
  BY <1>1, <1>2 DEF CacheOK, OneLinePerTag, Loaded
<1>8. cache' = [cache EXCEPT ![n] = [@ EXCEPT ![i] = t]]
  <2>1. [cache[n] EXCEPT ![i] = t] = cache[n]
    BY <1>1, <1>3
  <2>2. cache' = cache
    BY DEF Hit
  <2>3. QED  BY <2>1, <2>2 DEF CacheOK
<1>9. lru' = [lru EXCEPT ![n] = push(lru[n], i)]
  BY DEF Hit, i
<1>10. QED  BY <1>1, <1>2, <1>4, <1>5, <1>6, <1>7, <1>8, <1>9 DEF UsesLine, i

LEMMA FillUses ==
  ASSUME CacheOK, NEW n \in Sets, NEW t \in Addresses \ {Empty}, Fill(n, t)
  PROVE  /\ UsesLine(n, t, LineOf(n, Empty), push(lru[n], LineOf(n, Empty)))
         /\ LineOf(n, Empty) \in Lines \ Loaded(n)
<1> DEFINE i == LineOf(n, Empty)
<1>1. i \in Lines /\ cache[n][i] = Empty
  BY SearchFinds DEF Fill
<1> HIDE DEF i
<1>2. i \in Lines \ Loaded(n)
  BY <1>1 DEF Loaded
<1>3. lru[n] \in Queues /\ Ordered(lru[n], Loaded(n))
  BY DEF CacheOK, QueueOrdersLines
<1>4. push(lru[n], i) \in Queues
  BY <1>1, <1>3, PushEntries
<1>5. Ordered(push(lru[n], i), Loaded(n) \union {i})
  BY <1>1, <1>3, PushOrdered
<1>6. Precedes(push(lru[n], i)) = {p \in Precedes(lru[n]) : p[1] # i /\ p[2] # i}
                                    \union {<<x, i>> : x \in Loaded(n) \ {i}}
  BY <1>1, <1>3, PushPrecedes
<1>7. \A k \in Lines \ {i} : cache[n][k] # t
  BY DEF Fill, Holds
<1>8. cache' = [cache EXCEPT ![n] = [@ EXCEPT ![i] = t]]
  BY DEF Fill, i
<1>9. lru' = [lru EXCEPT ![n] = push(lru[n], i)]
  BY DEF Fill, i
<1>10. QED  BY <1>1, <1>2, <1>4, <1>5, <1>6, <1>7, <1>8, <1>9 DEF UsesLine, i

LEMMA EvictUses ==
  ASSUME CacheOK, NEW n \in Sets, NEW t \in Addresses \ {Empty}, Evict(n, t)
  PROVE  LET v == front(lru[n])
         IN  /\ UsesLine(n, t, v, push(pop(Trimmed(lru[n])), v))
             /\ Loaded(n) = Lines /\ v \in Lines
             /\ \A x : <<x, v>> \notin Precedes(lru[n])
<1> DEFINE v == front(lru[n])
           r == push(pop(Trimmed(lru[n])), v)
<1>1. Loaded(n) = Lines /\ Lines # {}
  <2>1. 0 \in Lines
    BY CacheAssumption DEF Lines
  <2>2. QED  BY <2>1 DEF Evict, Holds, Loaded
<1>2. lru[n] \in Queues /\ Ordered(lru[n], Loaded(n))
  BY DEF CacheOK, QueueOrdersLines
<1>3. /\ v \in Lines /\ r \in Queues /\ Ordered(r, Lines)
      /\ \A x : <<x, v>> \notin Precedes(lru[n])
      /\ Precedes(r) = {p \in Precedes(lru[n]) : p[1] # v /\ p[2] # v}
                         \union {<<x, v>> : x \in Lines \ {v}}
  BY <1>1, <1>2, EvictQueue
<1>4. cache' = [cache EXCEPT ![n] = [@ EXCEPT ![v] = t]] /\ lru' = [lru EXCEPT ![n] = r]
  BY DEF Evict
<1>5. \A k \in Lines \ {v} : cache[n][k] # t
  BY DEF Evict, Holds
<1> HIDE DEF v, r
<1>6. Lines \union {v} = Lines
  BY <1>3
<1>7. UsesLine(n, t, v, r)
  BY <1>1, <1>3, <1>4, <1>5, <1>6 DEF UsesLine
<1>8. QED  BY <1>1, <1>3, <1>7 DEF v, r

\* Using a line changes what its set has loaded as one expects.
LEMMA UsesLoaded ==
  ASSUME CacheOK, NEW n \in Sets, NEW t \in Addresses \ {Empty}, NEW i, NEW r, UsesLine(n, t, i, r)
  PROVE  /\ cache' \in [Sets -> [Lines -> Addresses]] /\ lru' \in [Sets -> Queues]
         /\ cache'[n][i] = t /\ lru'[n] = r
         /\ \A k \in Lines \ {i} : cache'[n][k] = cache[n][k]
         /\ \A m \in Sets \ {n} : cache'[m] = cache[m] /\ lru'[m] = lru[m]
         /\ Loaded(n)' = Loaded(n) \union {i}
         /\ \A m \in Sets \ {n} : Loaded(m)' = Loaded(m)
<1>1. /\ cache \in [Sets -> [Lines -> Addresses]] /\ lru \in [Sets -> Queues]
      /\ i \in Lines /\ r \in Queues /\ t \in Addresses
  BY DEF CacheOK, UsesLine
<1>2. [cache[n] EXCEPT ![i] = t] \in [Lines -> Addresses]
  BY <1>1
<1>3. cache' = [cache EXCEPT ![n] = [cache[n] EXCEPT ![i] = t]]
  BY DEF UsesLine
<1>4. cache' \in [Sets -> [Lines -> Addresses]]
  BY <1>1, <1>2, <1>3
<1>5. lru' \in [Sets -> Queues] /\ lru'[n] = r /\ \A m \in Sets \ {n} : lru'[m] = lru[m]
  BY <1>1 DEF UsesLine
<1>6. cache'[n] = [cache[n] EXCEPT ![i] = t] /\ \A m \in Sets \ {n} : cache'[m] = cache[m]
  BY <1>1, <1>3
<1>7. cache'[n][i] = t /\ \A k \in Lines \ {i} : cache'[n][k] = cache[n][k]
  BY <1>1, <1>6
<1>8. Loaded(n)' = Loaded(n) \union {i}
  BY <1>1, <1>7 DEF Loaded
<1>9. \A m \in Sets \ {n} : Loaded(m)' = Loaded(m)
  BY <1>6 DEF Loaded
<1>10. QED  BY <1>4, <1>5, <1>6, <1>7, <1>8, <1>9

LEMMA UsesKeepsCacheOK ==
  ASSUME CacheOK, NEW n \in Sets, NEW t \in Addresses \ {Empty}, NEW i, NEW r, UsesLine(n, t, i, r)
  PROVE  CacheOK'
<1>1. /\ cache' \in [Sets -> [Lines -> Addresses]] /\ lru' \in [Sets -> Queues]
      /\ cache'[n][i] = t /\ lru'[n] = r
      /\ \A k \in Lines \ {i} : cache'[n][k] = cache[n][k]
      /\ \A m \in Sets \ {n} : cache'[m] = cache[m] /\ lru'[m] = lru[m]
      /\ Loaded(n)' = Loaded(n) \union {i}
      /\ \A m \in Sets \ {n} : Loaded(m)' = Loaded(m)
  BY UsesLoaded
<1>2. Loaded(n) \subseteq Lines
  BY DEF Loaded
<1>3. OneLinePerTag'
  <2> SUFFICES ASSUME NEW m \in Sets, NEW j \in Loaded(m)', NEW k \in Loaded(m)',
                      cache'[m][j] = cache'[m][k]
               PROVE  j = k
    BY DEF OneLinePerTag
  <2>1. CASE m # n
    BY <1>1, <2>1 DEF CacheOK, OneLinePerTag
  <2>2. CASE m = n
    <3>1. j \in Loaded(n) \union {i} /\ k \in Loaded(n) \union {i}
      BY <1>1, <2>2
    <3>2. \A x \in Loaded(n) \ {i} : x \in Lines \ {i} /\ cache'[n][x] = cache[n][x] /\ cache[n][x] # t
      BY <1>1, <1>2 DEF UsesLine
    <3>3. CASE j = i \/ k = i
      BY <1>1, <2>2, <3>1, <3>2, <3>3
    <3>4. CASE j # i /\ k # i
      BY <2>2, <3>1, <3>2, <3>4 DEF CacheOK, OneLinePerTag
    <3>5. QED  BY <3>3, <3>4
  <2>3. QED  BY <2>1, <2>2
<1>4. QueueOrdersLines'
  <2> SUFFICES ASSUME NEW m \in Sets PROVE Ordered(lru'[m], Loaded(m)')
    BY DEF QueueOrdersLines
  <2>1. CASE m = n
    BY <1>1, <2>1 DEF UsesLine
  <2>2. CASE m # n
    BY <1>1, <2>2 DEF CacheOK, QueueOrdersLines
  <2>3. QED  BY <2>1, <2>2
<1>5. QED  BY <1>1, <1>3, <1>4 DEF CacheOK

LEMMA ProcInstrKeepsCacheOK ==
  ASSUME NoSentinelTag, CacheOK, NEW a \in Addresses, proc_instr(a)
  PROVE  CacheOK'
<1>1. SetOf(a) \in Sets /\ TagOf(a) \in Addresses \ {Empty}
  BY AddressSplit
<1>2. CASE Hit(SetOf(a), TagOf(a))
  BY <1>1, <1>2, HitUses, UsesKeepsCacheOK
<1>3. CASE Fill(SetOf(a), TagOf(a))
  BY <1>1, <1>3, FillUses, UsesKeepsCacheOK
<1>4. CASE Evict(SetOf(a), TagOf(a))
  BY <1>1, <1>4, EvictUses, UsesKeepsCacheOK
<1>5. QED  BY <1>2, <1>3, <1>4 DEF proc_instr

-------------------------------------------------------------------------------
(* The inductive invariant. *)

IInv == TypeOK /\ OneLinePerTag /\ QueueOrdersLines

LEMMA IInvIsCacheOK == IInv => CacheOK
BY DEF IInv, TypeOK, CacheOK, Queues

LEMMA InitIInv == Init => IInv
<1> SUFFICES ASSUME Init PROVE IInv
  OBVIOUS
<1>1. Empty \in Addresses
  BY CacheAssumption DEF Empty, Addresses
<1>2. TypeOK
  BY <1>1 DEF Init, TypeOK
<1>3. \A n \in Sets : Loaded(n) = {}
  BY DEF Init, Loaded
<1>4. OneLinePerTag
  BY <1>3 DEF OneLinePerTag
<1>5. QueueOrdersLines
  <2>1. Ordered(<<>>, {})
    <3>1. DOMAIN <<>> = {}
      OBVIOUS
    <3>2. QED  BY <3>1 DEF Ordered, Entries
  <2>2. QED  BY <1>3, <2>1 DEF Init, QueueOrdersLines
<1>6. QED  BY <1>2, <1>4, <1>5 DEF IInv

\* proc_instr keeps the types of what only it writes.
LEMMA ProcInstrTypes ==
  ASSUME TypeOK, NEW a \in Addresses, proc_instr(a)
  PROVE  /\ hit_count' \in Nat /\ miss_count' \in Nat /\ eviction_count' \in Nat
         /\ trace' \in Seq(Addresses)
<1>1. trace' \in Seq(Addresses)
  BY DEF proc_instr, TypeOK
<1>2. CASE Hit(SetOf(a), TagOf(a))
  BY <1>1, <1>2 DEF Hit, TypeOK
<1>3. CASE Fill(SetOf(a), TagOf(a))
  BY <1>1, <1>3 DEF Fill, TypeOK
<1>4. CASE Evict(SetOf(a), TagOf(a))
  BY <1>1, <1>4 DEF Evict, TypeOK
<1>5. QED  BY <1>2, <1>3, <1>4 DEF proc_instr

LEMMA NextIInv ==
  ASSUME NoSentinelTag, IInv, [Next]_vars
  PROVE  IInv'
<1>0. TypeOK /\ CacheOK
  BY IInvIsCacheOK DEF IInv
<1>1. ASSUME NEW a \in Addresses, proc_instr(a), again' \in Addresses \union {None}
      PROVE  IInv'
  <2>1. CacheOK'
    BY <1>0, <1>1, ProcInstrKeepsCacheOK
  <2>2. /\ hit_count' \in Nat /\ miss_count' \in Nat /\ eviction_count' \in Nat
        /\ trace' \in Seq(Addresses)
    BY <1>0, <1>1, ProcInstrTypes
  <2>3. QED  BY <1>1, <2>1, <2>2 DEF IInv, TypeOK, CacheOK, Queues
<1>2. ASSUME NEW a \in Addresses, LoadOrStore(a) PROVE IInv'
  BY <1>0, <1>1, <1>2 DEF LoadOrStore, TypeOK
<1>3. ASSUME NEW a \in Addresses, Modify(a) PROVE IInv'
  BY <1>1, <1>3 DEF Modify
<1>4. CASE ModifyAgain
  BY <1>0, <1>1, <1>4 DEF ModifyAgain, TypeOK
<1>5. CASE UNCHANGED vars
  BY <1>5 DEF IInv, TypeOK, OneLinePerTag, QueueOrdersLines, Loaded, vars, counts
<1>6. QED  BY <1>2, <1>3, <1>4, <1>5 DEF Next

\* For every cache in which no address has the tag of an empty line, every
\* variable of csim keeps its type, no tag is in two lines of a set, and the
\* queue of a set orders its loaded lines by their last use.
THEOREM Invariance == ASSUME NoSentinelTag PROVE Spec => []IInv
<1>1. Init => IInv
  BY InitIInv
<1>2. IInv /\ [Next]_vars => IInv'
  BY NextIInv
<1>3. QED  BY <1>1, <1>2, PTL DEF Spec

\* Every variable of csim keeps its type.
THEOREM TypeCorrectness == ASSUME NoSentinelTag PROVE Spec => []TypeOK
<1>1. IInv => TypeOK
  BY DEF IInv
<1>2. QED  BY <1>1, Invariance, PTL

\* A search by tag has at most one answer in each set.
THEOREM TagsAreUnique == ASSUME NoSentinelTag PROVE Spec => []OneLinePerTag
<1>1. IInv => OneLinePerTag
  BY DEF IInv
<1>2. QED  BY <1>1, Invariance, PTL

\* The queue with its dummies and repeated entries orders exactly the loaded lines.
THEOREM QueuesAreOrdered == ASSUME NoSentinelTag PROVE Spec => []QueueOrdersLines
<1>1. IInv => QueueOrdersLines
  BY DEF IInv
<1>2. QED  BY <1>1, Invariance, PTL

-------------------------------------------------------------------------------
(* The second access of an 'M'. *)

AgainLoaded == again # None => Holds(SetOf(again), TagOf(again))

LEMMA ProcInstrLoads ==
  ASSUME NoSentinelTag, CacheOK, NEW a \in Addresses, proc_instr(a)
  PROVE  Holds(SetOf(a), TagOf(a))'
<1> DEFINE n == SetOf(a)
           t == TagOf(a)
<1>1. n \in Sets /\ t \in Addresses \ {Empty}
  BY AddressSplit
<1>2. SetOf(a)' = n /\ TagOf(a)' = t
  BY DEF SetOf, TagOf
<1>3. Hit(n, t) \/ Fill(n, t) \/ Evict(n, t)
  BY DEF proc_instr
<1> HIDE DEF n, t
<1>4. \E i, r : UsesLine(n, t, i, r)
  BY <1>1, <1>3, HitUses, FillUses, EvictUses
<1>5. PICK i, r : UsesLine(n, t, i, r)
  BY <1>4
<1>6. i \in Lines /\ cache'[n][i] = t
  <2>1. cache'[n][i] = t
    BY <1>1, <1>5, UsesLoaded
  <2>2. QED  BY <1>5, <2>1 DEF UsesLine
<1>7. QED  BY <1>2, <1>6 DEF Holds, n, t

\* csim.c:102: when an 'M' accesses its address again it finds the block the
\* first access left there, for every cache.
THEOREM SecondAccessesHit == ASSUME NoSentinelTag PROVE Spec => SecondAccessHits
<1>1. Init => AgainLoaded
  BY DEF Init, AgainLoaded
<1>2. IInv /\ AgainLoaded /\ [Next]_vars => AgainLoaded'
  <2> SUFFICES ASSUME IInv, AgainLoaded, [Next]_vars PROVE AgainLoaded'
    OBVIOUS
  <2>1. CASE \E a \in Addresses : LoadOrStore(a)
    BY <2>1 DEF LoadOrStore, MoreTrace, AgainLoaded
  <2>2. CASE \E a \in Addresses : Modify(a)
    <3>1. PICK a \in Addresses : proc_instr(a) /\ again' = a
      BY <2>2 DEF Modify
    <3>2. Holds(SetOf(a), TagOf(a))'
      BY <3>1, IInvIsCacheOK, ProcInstrLoads
    <3>3. QED  BY <3>1, <3>2 DEF AgainLoaded, Holds, SetOf, TagOf
  <2>3. CASE ModifyAgain
    BY <2>3 DEF ModifyAgain, AgainLoaded
  <2>4. CASE UNCHANGED vars
    BY <2>4 DEF AgainLoaded, Holds, vars
  <2>5. QED  BY <2>1, <2>2, <2>3, <2>4 DEF Next
<1>3. IInv /\ AgainLoaded /\ [Next]_vars => [again # None => hit_count' = hit_count + 1]_vars
  <2> SUFFICES ASSUME AgainLoaded, Next, again # None PROVE hit_count' = hit_count + 1
    OBVIOUS
  <2>1. proc_instr(again)
    BY DEF Next, LoadOrStore, Modify, MoreTrace, ModifyAgain
  <2>2. QED  BY <2>1 DEF AgainLoaded, proc_instr, Hit, Fill, Evict
<1>4. QED  BY <1>1, <1>2, <1>3, Invariance, PTL DEF Spec, SecondAccessHits

-------------------------------------------------------------------------------
(* The refinement of LRUCache. *)

\* A set has as many resident tags as loaded lines, and E lines.
LEMMA ResidentCardinality ==
  ASSUME CacheOK, NEW n \in Sets
  PROVE  /\ IsFiniteSet(Resident(n)) /\ Cardinality(Resident(n)) \in 0 .. E
         /\ Loaded(n) = Lines => Cardinality(Resident(n)) = E
         /\ Loaded(n) # Lines => Cardinality(Resident(n)) < E
<1>1. IsFiniteSet(Lines) /\ Cardinality(Lines) = E
  <2>1. 0 \in Int /\ E - 1 \in Int /\ ~(0 > E - 1) /\ (E - 1) - 0 + 1 = E
    BY CacheAssumption
  <2>2. QED  BY <2>1, FS_Interval DEF Lines
<1>2. Loaded(n) \subseteq Lines
  BY DEF Loaded
<1>3. /\ IsFiniteSet(Loaded(n)) /\ Cardinality(Loaded(n)) <= E
      /\ Loaded(n) # Lines => Cardinality(Loaded(n)) # E
  BY <1>1, <1>2, FS_Subset
<1>4. IsFiniteSet(Resident(n)) /\ Cardinality(Resident(n)) = Cardinality(Loaded(n))
  <2> DEFINE f == [i \in Loaded(n) |-> cache[n][i]]
  <2>1. f \in Bijection(Loaded(n), Resident(n))
    BY DEF CacheOK, OneLinePerTag, Resident, Bijection, Injection, Surjection, IsInjective
  <2>2. ExistsBijection(Loaded(n), Resident(n))
    BY <2>1 DEF ExistsBijection
  <2>3. QED  BY <1>3, <2>2, FS_Bijection
<1>5. Cardinality(Loaded(n)) \in Nat
  BY <1>3, FS_CardinalityType
<1>6. QED  BY <1>1, <1>3, <1>4, <1>5, CacheAssumption

\* Using a line is LRUCache's Use of its tag.
LEMMA UsesIsUse ==
  ASSUME CacheOK, NEW n \in Sets, NEW t \in Addresses \ {Empty}, NEW i, NEW r,
         UsesLine(n, t, i, r), NEW R,
         R \ {t} = {cache[n][k] : k \in Loaded(n) \ {i}}, t \in R
  PROVE  LRU!Use(n, t, R)
<1>1. /\ cache'[n][i] = t /\ lru'[n] = r
      /\ \A k \in Lines \ {i} : cache'[n][k] = cache[n][k]
      /\ \A m \in Sets \ {n} : cache'[m] = cache[m] /\ lru'[m] = lru[m]
      /\ Loaded(n)' = Loaded(n) \union {i}
      /\ \A m \in Sets \ {n} : Loaded(m)' = Loaded(m)
  BY UsesLoaded
<1>2. Loaded(n) \subseteq Lines
  BY DEF Loaded
<1>3. Resident(n)' = R
  <2>1. Resident(n)' = {cache'[n][k] : k \in Loaded(n) \union {i}}
    BY <1>1 DEF Resident
  <2>2. \A k \in Loaded(n) \ {i} : cache'[n][k] = cache[n][k]
    BY <1>1, <1>2
  <2>3. Resident(n)' = {cache[n][k] : k \in Loaded(n) \ {i}} \union {t}
    BY <1>1, <2>1, <2>2
  <2>4. QED  BY <2>3
<1>4. \A m \in Sets \ {n} : Resident(m)' = Resident(m) /\ Before(m)' = Before(m)
  BY <1>1 DEF Resident, Before, Precedes
<1>5. Before(n)' = {p \in Before(n) : p[1] \in R \ {t} /\ p[2] \in R \ {t}}
                     \union {<<x, t>> : x \in R \ {t}}
  <2> DEFINE Old == {p \in Precedes(lru[n]) : p[1] # i /\ p[2] # i}
             New == {<<x, i>> : x \in Loaded(n) \ {i}}
             c == cache[n]
             d == cache'[n]
  <2>1. Before(n)' = {<<d[p[1]], d[p[2]]>> : p \in Old \union New}
    BY <1>1 DEF Before, UsesLine, Precedes
  <2>2. \A p \in Precedes(lru[n]) : p[1] \in Loaded(n) /\ p[2] \in Loaded(n)
    <3>1. Entries(lru[n]) = Loaded(n)
      BY DEF CacheOK, QueueOrdersLines, Ordered
    <3>2. QED  BY <3>1, LinesAreNotDummy DEF Precedes, Entries
  <2>3. \A p \in Old : d[p[1]] = c[p[1]] /\ d[p[2]] = c[p[2]]
    BY <1>1, <1>2, <2>2
  <2>4. {<<d[p[1]], d[p[2]]>> : p \in Old} = {<<c[p[1]], c[p[2]]>> : p \in Old}
    BY <2>3
  <2>5. \A p \in Precedes(lru[n]) :
          p \in Old <=> c[p[1]] \in R \ {t} /\ c[p[2]] \in R \ {t}
    <3>1. \A k \in Loaded(n) : k # i <=> c[k] \in R \ {t}
      BY DEF CacheOK, OneLinePerTag
    <3>2. QED  BY <2>2, <3>1
  <2>6. {<<c[p[1]], c[p[2]]>> : p \in Old}
          = {p \in Before(n) : p[1] \in R \ {t} /\ p[2] \in R \ {t}}
    BY <2>5 DEF Before
  <2>7. {<<d[p[1]], d[p[2]]>> : p \in New} = {<<x, t>> : x \in R \ {t}}
    <3>1. \A k \in Loaded(n) \ {i} : d[k] = c[k]
      BY <1>1, <1>2
    <3>2. {<<d[p[1]], d[p[2]]>> : p \in New} = {<<d[k], d[i]>> : k \in Loaded(n) \ {i}}
      <4>1. \A p \in New : \E k \in Loaded(n) \ {i} : p[1] = k /\ p[2] = i
        OBVIOUS
      <4>2. \A k \in Loaded(n) \ {i} : \E p \in New : p[1] = k /\ p[2] = i
        <5> TAKE k \in Loaded(n) \ {i}
        <5>1. <<k, i>> \in New /\ <<k, i>>[1] = k /\ <<k, i>>[2] = i
          OBVIOUS
        <5>2. QED  BY <5>1
      <4> HIDE DEF New, c, d
      <4>3. QED  BY <4>1, <4>2
    <3>3. {<<d[k], d[i]>> : k \in Loaded(n) \ {i}} = {<<c[k], t>> : k \in Loaded(n) \ {i}}
      BY <1>1, <3>1
    <3>4. QED  BY <3>2, <3>3
  <2> HIDE DEF Old, New
  <2>8. QED  BY <2>1, <2>4, <2>6, <2>7
<1>6. [m \in Sets |-> Resident(m)]' = [[m \in Sets |-> Resident(m)] EXCEPT ![n] = R]
  BY <1>3, <1>4
<1>7. [m \in Sets |-> Before(m)]' =
        [[m \in Sets |-> Before(m)] EXCEPT
           ![n] = {p \in @ : p[1] \in R \ {t} /\ p[2] \in R \ {t}} \union {<<x, t>> : x \in R \ {t}}]
  BY <1>4, <1>5
<1>8. QED  BY <1>6, <1>7 DEF LRU!Use

\* LRUCache's instance of FiniteSets counts as this module's does.
LEMMA SameCardinality == \A X : LRU!Cardinality(X) = Cardinality(X)
BY DEF LRU!Cardinality, Cardinality

LEMMA InitImplementsInit == Init => LRU!Init
<1> SUFFICES ASSUME Init PROVE LRU!Init
  OBVIOUS
<1>1. \A n \in Sets : Resident(n) = {}
  BY DEF Init, Resident, Loaded
<1>2. \A n \in Sets : Before(n) = {}
  <2>1. \A n \in Sets : Precedes(lru[n]) = {}
    BY DEF Init, Precedes
  <2>2. QED  BY <2>1 DEF Before
<1>3. QED  BY <1>1, <1>2 DEF Init, LRU!Init

LEMMA HitImplementsHit ==
  ASSUME CacheOK, NEW n \in Sets, NEW t \in Addresses \ {Empty}, Hit(n, t)
  PROVE  LRU!Hit(n, t)
<1> DEFINE i == LineOf(n, t)
<1>1. UsesLine(n, t, i, push(lru[n], i)) /\ i \in Loaded(n)
  BY HitUses
<1>2. i \in Lines /\ cache[n][i] = t
  BY SearchFinds DEF Hit
<1> HIDE DEF i
<1>3. t \in Resident(n)
  BY <1>1, <1>2 DEF Resident
<1>4. Resident(n) \ {t} = {cache[n][k] : k \in Loaded(n) \ {i}}
  BY <1>1, <1>2 DEF Resident, CacheOK, OneLinePerTag
<1>5. LRU!Use(n, t, Resident(n))
  BY <1>1, <1>3, <1>4, UsesIsUse
<1>6. QED  BY <1>3, <1>5 DEF LRU!Hit, Hit

LEMMA FillImplementsFill ==
  ASSUME CacheOK, NEW n \in Sets, NEW t \in Addresses \ {Empty}, Fill(n, t)
  PROVE  LRU!Fill(n, t)
<1> DEFINE i == LineOf(n, Empty)
           R == Resident(n) \union {t}
<1>1. UsesLine(n, t, i, push(lru[n], i)) /\ i \in Lines \ Loaded(n)
  BY FillUses
<1>2. t \notin Resident(n)
  BY DEF Fill, Holds, Resident, Loaded
<1> HIDE DEF i
<1>3. R \ {t} = {cache[n][k] : k \in Loaded(n) \ {i}}
  BY <1>1, <1>2 DEF Resident
<1>4. t \in R
  OBVIOUS
<1> HIDE DEF R
<1>5. LRU!Use(n, t, R)
  BY <1>1, <1>3, <1>4, UsesIsUse
<1>6. Cardinality(Resident(n)) < E
  BY <1>1, ResidentCardinality
<1> DEFINE res == [m \in Sets |-> Resident(m)]
<1>7. res[n] = Resident(n)
  OBVIOUS
<1>8. LRU!Use(n, t, res[n] \union {t})
  BY <1>5, <1>7 DEF R
<1>9. t \notin res[n] /\ LRU!Cardinality(res[n]) < E
  BY <1>2, <1>6, <1>7, SameCardinality
<1>10. miss_count' = miss_count + 1 /\ UNCHANGED <<hit_count, eviction_count>>
  BY DEF Fill
<1>11. QED  BY <1>8, <1>9, <1>10, Zenon DEF LRU!Fill

LEMMA EvictImplementsEvict ==
  ASSUME CacheOK, NEW n \in Sets, NEW t \in Addresses \ {Empty}, Evict(n, t)
  PROVE  LRU!Evict(n, t)
<1> DEFINE i == front(lru[n])
           r == push(pop(Trimmed(lru[n])), i)
           v == cache[n][i]
           R == (Resident(n) \ {v}) \union {t}
<1>1. /\ UsesLine(n, t, i, r) /\ Loaded(n) = Lines /\ i \in Lines
      /\ \A x : <<x, i>> \notin Precedes(lru[n])
  BY EvictUses
<1>2. t \notin Resident(n)
  BY DEF Evict, Holds, Resident, Loaded
<1> HIDE DEF i, r
<1>3. v \in Resident(n)
  BY <1>1 DEF Resident
<1>4. R \ {t} = {cache[n][k] : k \in Loaded(n) \ {i}}
  BY <1>1, <1>2 DEF Resident, CacheOK, OneLinePerTag
<1>5. \A x \in Resident(n) : <<x, v>> \notin Before(n)
  <2>1. SUFFICES ASSUME NEW x \in Resident(n), <<x, v>> \in Before(n) PROVE FALSE
    OBVIOUS
  <2>2. PICK p \in Precedes(lru[n]) : <<cache[n][p[1]], cache[n][p[2]]>> = <<x, v>>
    BY <2>1 DEF Before
  <2>3. p[2] \in Lines /\ p = <<p[1], p[2]>> /\ cache[n][p[2]] = v
    BY <2>2 DEF Precedes
  <2>4. p[2] = i
    BY <1>1, <2>3 DEF CacheOK, OneLinePerTag
  <2>5. QED  BY <1>1, <2>3, <2>4
<1>6. Cardinality(Resident(n)) = E
  BY <1>1, ResidentCardinality
<1>7. t \in R
  OBVIOUS
<1> HIDE DEF R
<1>8. LRU!Use(n, t, R)
  BY <1>1, <1>4, <1>7, UsesIsUse
<1> DEFINE res == [m \in Sets |-> Resident(m)]
           ord == [m \in Sets |-> Before(m)]
<1>9. res[n] = Resident(n) /\ ord[n] = Before(n)
  OBVIOUS
<1>10. t \notin res[n] /\ LRU!Cardinality(res[n]) = E
  BY <1>2, <1>6, <1>9, SameCardinality
<1>11. v \in res[n] /\ \A x \in res[n] : <<x, v>> \notin ord[n]
  BY <1>3, <1>5, <1>9
<1>12. LRU!Use(n, t, (res[n] \ {v}) \union {t})
  BY <1>8, <1>9 DEF R
<1>13. /\ miss_count' = miss_count + 1 /\ eviction_count' = eviction_count + 1
       /\ UNCHANGED hit_count
  BY DEF Evict
<1> HIDE DEF v
<1>14. QED  BY <1>10, <1>11, <1>12, <1>13, Zenon DEF LRU!Evict

\* csim is an LRU cache: whatever the number of sets, lines and accesses, it
\* hits, fills and evicts as LRUCache does.
THEOREM CsimImplementsLRU == ASSUME NoSentinelTag PROVE Spec => ImplementsLRU
<1>1. Init => LRU!Init
  BY InitImplementsInit
<1>2. IInv /\ [Next]_vars => [LRU!Next]_LRU!lruVars
  <2> SUFFICES ASSUME IInv, [Next]_vars PROVE [LRU!Next]_LRU!lruVars
    OBVIOUS
  <2>1. ASSUME NEW a \in Addresses, proc_instr(a) PROVE LRU!Next
    <3> DEFINE n == SetOf(a)
               t == TagOf(a)
    <3>1. n \in Sets /\ t \in Addresses \ {Empty}
      BY AddressSplit
    <3>2. Hit(n, t) \/ Fill(n, t) \/ Evict(n, t)
      BY <2>1 DEF proc_instr
    <3> HIDE DEF n, t
    <3>3. LRU!Hit(n, t) \/ LRU!Fill(n, t) \/ LRU!Evict(n, t)
      BY <3>1, <3>2, IInvIsCacheOK, HitImplementsHit, FillImplementsFill, EvictImplementsEvict
    <3>4. QED  BY <3>1, <3>3 DEF LRU!Next
  <2>2. CASE \E a \in Addresses : LoadOrStore(a) \/ Modify(a)
    BY <2>1, <2>2 DEF LoadOrStore, Modify
  <2>3. CASE ModifyAgain
    <3>1. again \in Addresses /\ proc_instr(again)
      BY <2>3 DEF ModifyAgain, IInv, TypeOK
    <3>2. QED  BY <2>1, <3>1
  <2>4. CASE UNCHANGED vars
    BY <2>4 DEF LRU!lruVars, vars, counts, Resident, Before, Precedes, Loaded
  <2>5. QED  BY <2>2, <2>3, <2>4 DEF Next
<1>3. QED  BY <1>1, <1>2, Invariance, PTL DEF Spec, ImplementsLRU, LRU!Spec
-------------------------------------------------------------------------------
(* Addresses and blocks. *)

\* Division with remainder, and that it is unique.
LEMMA DivDef ==
  ASSUME NEW a \in Nat, NEW k \in Nat, k > 0
  PROVE  a \div k \in Nat /\ a % k \in Nat /\ a % k < k /\ a = (a \div k) * k + (a % k)
OBVIOUS

LEMMA DivUnique ==
  ASSUME NEW a \in Nat, NEW k \in Nat, k > 0, NEW u \in Nat, NEW s \in Nat,
         s < k, a = u * k + s
  PROVE  a \div k = u /\ a % k = s
OBVIOUS

\* Dividing twice is dividing by the product.
LEMMA DivDiv ==
  ASSUME NEW a \in Nat, NEW k \in Nat, k > 0, NEW m \in Nat, m > 0
  PROVE  a \div (m * k) = (a \div k) \div m
<1> DEFINE q == a \div k
           r == a % k
           u == q \div m
           w == q % m
<1>1. q \in Nat /\ r \in Nat /\ a = q * k + r /\ r < k
  BY DivDef
<1> HIDE DEF q, r
<1>2. u \in Nat /\ w \in Nat /\ q = u * m + w /\ w < m
  BY <1>1, DivDef
<1> HIDE DEF u, w
<1>3. a = u * (m * k) + (w * k + r)
  BY <1>1, <1>2
<1>4. w * k + r \in Nat /\ w * k + r < m * k
  <2>1. (w + 1) * k <= m * k
    BY <1>2
  <2>2. QED  BY <2>1, <1>1, <1>2
<1>5. m * k \in Nat /\ m * k > 0
  OBVIOUS
<1> DEFINE s == w * k + r
           mk == m * k
<1>6. s \in Nat /\ mk \in Nat /\ mk > 0 /\ s < mk /\ a = u * mk + s
  BY <1>3, <1>4, <1>5
<1> HIDE DEF s, mk
<1>7. a \div mk = u
  BY <1>2, <1>6, DivUnique
<1>8. QED  BY <1>7 DEF u, q, mk

\* The block number of an address determines its set and its tag, and they it.
LEMMA BlockSplit ==
  ASSUME NEW a \in Addresses
  PROVE  /\ Block(a) \in Nat /\ SetOf(a) = Block(a) % S /\ TagOf(a) = Block(a) \div S
         /\ SetOf(a) \in Nat /\ TagOf(a) \in Nat /\ Block(a) = TagOf(a) * S + SetOf(a)
<1>1. a \in Nat /\ B \in Nat /\ B > 0 /\ S \in Nat /\ S > 0
  BY CacheAssumption DEF Addresses
<1>2. Block(a) \in Nat
  BY <1>1, DivDef DEF Block
<1>3. TagOf(a) = Block(a) \div S
  BY <1>1, DivDiv DEF TagOf, Block
<1>4. SetOf(a) = Block(a) % S
  BY DEF SetOf, Block
<1>5. QED  BY <1>1, <1>2, <1>3, <1>4, DivDef

-------------------------------------------------------------------------------
(* The trace and the cache. *)

\* The accesses so far to tag t of set n.
Uses(n, t) == {j \in DOMAIN trace : SetOf(trace[j]) = n /\ TagOf(trace[j]) = t}

\* After the access j there was one to tag t of set n.
UsedSince(j, n, t) == \E m \in Uses(n, t) : j < m

\* A set holds only tags that were used; of two of them one was used last before
\* the other, and that is the order of their lines in the queue; a tag that was used
\* and is not there has given way to E tags used since.
HistoryOK ==
  \A n \in Sets :
    /\ \A t \in Resident(n) : Uses(n, t) # {}
    /\ \A x, y \in Resident(n) : x # y => <<x, y>> \in Before(n) \/ <<y, x>> \in Before(n)
    /\ \A x, y \in Resident(n) :
         <<x, y>> \in Before(n) => \A j \in Uses(n, x) : UsedSince(j, n, y)
    /\ \A u \in Addresses \ Resident(n) : \A j \in Uses(n, u) :
         Cardinality(Resident(n)) = E /\ \A y \in Resident(n) : UsedSince(j, n, y)

\* A step of the abstract cache changes what one set holds, and its order.
LEMMA UseEffect ==
  ASSUME NEW n \in Sets, NEW t, NEW R, LRU!Use(n, t, R)
  PROVE  /\ Resident(n)' = R
         /\ Before(n)' = {p \in Before(n) : p[1] \in R \ {t} /\ p[2] \in R \ {t}}
                           \union {<<x, t>> : x \in R \ {t}}
         /\ \A m \in Sets \ {n} : Resident(m)' = Resident(m) /\ Before(m)' = Before(m)
<1> DEFINE res == [m \in Sets |-> Resident(m)]
           ord == [m \in Sets |-> Before(m)]
           O(P) == {p \in P : p[1] \in R \ {t} /\ p[2] \in R \ {t}} \union {<<x, t>> : x \in R \ {t}}
<1>1. /\ res' = [res EXCEPT ![n] = R]
      /\ ord' = [ord EXCEPT ![n] = O(@)]
  BY DEF LRU!Use
<1>2. \A m \in Sets : res'[m] = Resident(m)' /\ ord'[m] = Before(m)'
  OBVIOUS
<1>3. \A m \in Sets : res[m] = Resident(m) /\ ord[m] = Before(m)
  OBVIOUS
<1>4. DOMAIN res = Sets /\ DOMAIN ord = Sets
  OBVIOUS
<1> HIDE DEF res, ord
<1>5. /\ res'[n] = R /\ ord'[n] = O(ord[n])
      /\ \A m \in Sets \ {n} : res'[m] = res[m] /\ ord'[m] = ord[m]
  BY <1>1, <1>4
<1>6. QED  BY <1>2, <1>3, <1>5

\* One more access is one more use of its tag.
LEMMA OneMoreUse ==
  ASSUME TypeOK, NEW a \in Addresses, trace' = Append(trace, a)
  PROVE  /\ Len(trace) \in Nat /\ DOMAIN trace = 1 .. Len(trace)
         /\ DOMAIN trace' = 1 .. Len(trace) + 1 /\ Len(trace') = Len(trace) + 1
         /\ trace'[Len(trace) + 1] = a
         /\ \A j \in 1 .. Len(trace) : trace'[j] = trace[j] /\ trace[j] \in Addresses
         /\ \A n, t : Uses(n, t)' = Uses(n, t) \union
                        (IF n = SetOf(a) /\ t = TagOf(a) THEN {Len(trace) + 1} ELSE {})
<1>1. /\ Len(trace) \in Nat /\ DOMAIN trace = 1 .. Len(trace)
      /\ DOMAIN trace' = 1 .. Len(trace) + 1 /\ Len(trace') = Len(trace) + 1
      /\ trace'[Len(trace) + 1] = a
      /\ \A j \in 1 .. Len(trace) : trace'[j] = trace[j] /\ trace[j] \in Addresses
  BY DEF TypeOK
<1>2. ASSUME NEW n, NEW t
      PROVE  Uses(n, t)' = Uses(n, t) \union
                (IF n = SetOf(a) /\ t = TagOf(a) THEN {Len(trace) + 1} ELSE {})
  <2>1. \A j \in 1 .. Len(trace) + 1 : j \in 1 .. Len(trace) \/ j = Len(trace) + 1
    BY <1>1
  <2>2. Uses(n, t)' = {j \in 1 .. Len(trace) + 1 : SetOf(trace'[j]) = n /\ TagOf(trace'[j]) = t}
    BY <1>1 DEF Uses, SetOf, TagOf
  <2>3. Uses(n, t) = {j \in 1 .. Len(trace) : SetOf(trace[j]) = n /\ TagOf(trace[j]) = t}
    BY <1>1 DEF Uses
  <2>4. 1 .. Len(trace) \subseteq 1 .. Len(trace) + 1 /\ Len(trace) + 1 \in 1 .. Len(trace) + 1
    BY <1>1
  <2>5. QED  BY <1>1, <2>1, <2>2, <2>3, <2>4
<1>3. QED  BY <1>1, <1>2

\* An access keeps the trace and the cache in step, if what a set no longer holds has
\* given way to E tags used since.
LEMMA HistoryStep ==
  ASSUME TypeOK, HistoryOK, NEW a \in Addresses, trace' = Append(trace, a), SetOf(a) \in Sets,
         NEW R, LRU!Use(SetOf(a), TagOf(a), R), TagOf(a) \in R,
         R \subseteq Resident(SetOf(a)) \union {TagOf(a)},
         \A u \in Addresses \ R : \A j \in Uses(SetOf(a), u) :
           Cardinality(R) = E /\ \A y \in R \ {TagOf(a)} : UsedSince(j, SetOf(a), y)
  PROVE  HistoryOK'
<1> DEFINE n == SetOf(a)
           t == TagOf(a)
           K == Len(trace) + 1
<1>1. /\ Resident(n)' = R
      /\ Before(n)' = {p \in Before(n) : p[1] \in R \ {t} /\ p[2] \in R \ {t}}
                        \union {<<x, t>> : x \in R \ {t}}
      /\ \A m \in Sets \ {n} : Resident(m)' = Resident(m) /\ Before(m)' = Before(m)
  BY UseEffect
<1>2. /\ K \in Nat /\ \A m, u : Uses(m, u) \subseteq 1 .. K - 1
      /\ \A m, u : m # n \/ u # t => Uses(m, u)' = Uses(m, u)
      /\ Uses(n, t)' = Uses(n, t) \union {K}
  <2>1. /\ Len(trace) \in Nat /\ DOMAIN trace = 1 .. Len(trace)
        /\ \A m, u : Uses(m, u)' = Uses(m, u) \union (IF m = n /\ u = t THEN {K} ELSE {})
    BY OneMoreUse
  <2>2. QED  BY <2>1 DEF Uses
<1>3. \A m, u, j : UsedSince(j, m, u) => UsedSince(j, m, u)'
  BY <1>2 DEF UsedSince
<1>4. ASSUME NEW j \in 1 .. K - 1 PROVE UsedSince(j, n, t)'
  <2>1. j < K
    BY <1>2
  <2>2. K \in Uses(n, t)'
    BY <1>2
  <2> HIDE DEF K
  <2>3. QED  BY <2>1, <2>2 DEF UsedSince
<1>5. n \in Sets /\ t \in R /\ R \subseteq Resident(n) \union {t}
  OBVIOUS
<1>6. \A u \in Addresses \ R : \A j \in Uses(n, u) :
        Cardinality(R) = E /\ \A y \in R \ {t} : UsedSince(j, n, y)
  OBVIOUS
<1> HIDE DEF n, t, K
<1>7. SUFFICES ASSUME NEW m \in Sets
               PROVE  /\ \A y \in Resident(m)' : Uses(m, y)' # {}
                      /\ \A x, y \in Resident(m)' :
                           x # y => <<x, y>> \in Before(m)' \/ <<y, x>> \in Before(m)'
                      /\ \A x, y \in Resident(m)' :
                           <<x, y>> \in Before(m)' => \A j \in Uses(m, x)' : UsedSince(j, m, y)'
                      /\ \A u \in Addresses \ Resident(m)' : \A j \in Uses(m, u)' :
                           /\ Cardinality(Resident(m)') = E
                           /\ \A y \in Resident(m)' : UsedSince(j, m, y)'
  BY DEF HistoryOK
<1>8. CASE m # n
  <2>1. Resident(m)' = Resident(m) /\ Before(m)' = Before(m) /\ \A u : Uses(m, u)' = Uses(m, u)
    BY <1>1, <1>2, <1>8
  <2>2. QED  BY <1>3, <2>1 DEF HistoryOK
<1>9. CASE m = n
  <2>1. ASSUME NEW y \in R PROVE Uses(n, y)' # {}
    BY <1>2, <1>5 DEF HistoryOK
  <2>2. ASSUME NEW x \in R, NEW y \in R, x # y
        PROVE  <<x, y>> \in Before(n)' \/ <<y, x>> \in Before(n)'
    <3>1. CASE x = t \/ y = t
      BY <1>1, <2>2, <3>1
    <3>2. CASE x # t /\ y # t
      BY <1>1, <1>5, <2>2, <3>2 DEF HistoryOK
    <3>3. QED  BY <3>1, <3>2
  <2>3. ASSUME NEW x \in R, NEW y \in R, <<x, y>> \in Before(n)', NEW j \in Uses(n, x)'
        PROVE  UsedSince(j, n, y)'
    <3>1. x # t
      BY <1>1, <2>3
    <3>2. j \in Uses(n, x) /\ j \in 1 .. K - 1
      BY <1>2, <2>3, <3>1
    <3>3. CASE y = t
      BY <1>4, <3>2, <3>3
    <3>4. CASE y # t
      <4>1. <<x, y>> \in Before(n) /\ x \in Resident(n) /\ y \in Resident(n)
        BY <1>1, <1>5, <2>3, <3>1, <3>4
      <4>2. UsedSince(j, n, y)
        BY <1>5, <3>2, <4>1 DEF HistoryOK
      <4>3. QED  BY <1>3, <4>2
    <3>5. QED  BY <3>3, <3>4
  <2>4. ASSUME NEW u \in Addresses \ R, NEW j \in Uses(n, u)'
        PROVE  Cardinality(R) = E /\ \A y \in R : UsedSince(j, n, y)'
    <3>1. u # t /\ j \in Uses(n, u) /\ j \in 1 .. K - 1
      BY <1>2, <1>5, <2>4
    <3>2. Cardinality(R) = E /\ \A y \in R \ {t} : UsedSince(j, n, y)
      BY <1>6, <3>1
    <3>3. QED  BY <1>3, <1>4, <3>1, <3>2
  <2>5. QED  BY <1>1, <1>9, <2>1, <2>2, <2>3, <2>4
<1>10. QED  BY <1>8, <1>9

-------------------------------------------------------------------------------
(* Hits and LRU hits. *)

\* A set of naturals with an upper bound has a greatest element.
LEMMA GreatestPosition ==
  ASSUME NEW P \in SUBSET Nat, P # {}, NEW m \in Nat, \A k \in P : k <= m
  PROVE  \E g \in P : \A k \in P : k <= g
<1> DEFINE Q == {m - k : k \in P}
<1>1. Q \in SUBSET Nat /\ Q # {}
  <2>1. \A k \in P : m - k \in Nat
    OBVIOUS
  <2>2. QED  BY <2>1
<1>2. PICK q \in Q : \A k \in Q : q <= k
  BY <1>1, FirstPosition
<1>3. PICK g \in P : q = m - g
  BY <1>2
<1>4. \A k \in P : k <= g
  BY <1>2, <1>3
<1>5. QED  BY <1>4

\* The trace alone decides which accesses are LRU hits.
BlocksIn(tr, j, k) == {Block(tr[m]) : m \in j + 1 .. k - 1}
HitIn(tr, k) ==
  \E j \in 1 .. k - 1 :
    /\ Block(tr[j]) = Block(tr[k])
    /\ Block(tr[k]) \notin BlocksIn(tr, j, k)
    /\ Cardinality({x \in BlocksIn(tr, j, k) : x % S = Block(tr[k]) % S}) < E

LEMMA LRUHitIn == \A k : /\ LRUHit(k) <=> HitIn(trace, k)
                         /\ LRUHit(k)' <=> HitIn(trace', k)
BY DEF LRUHit, HitIn, Between, BlocksIn, Block

\* The tags whose blocks of set n were accessed between j and k.
TagsIn(tr, j, k, n) == {TagOf(tr[m]) : m \in {l \in j + 1 .. k - 1 : SetOf(tr[l]) = n}}

\* There are as many of them as blocks.
LEMMA CountTags ==
  ASSUME NEW tr \in Seq(Addresses), NEW j \in DOMAIN tr, NEW k \in DOMAIN tr, NEW n
  PROVE  LET D == {x \in BlocksIn(tr, j, k) : x % S = n}
         IN  /\ IsFiniteSet(D) /\ IsFiniteSet(TagsIn(tr, j, k, n))
             /\ Cardinality(D) \in Nat
             /\ Cardinality(D) = Cardinality(TagsIn(tr, j, k, n))
<1> DEFINE D == {x \in BlocksIn(tr, j, k) : x % S = n}
           T == TagsIn(tr, j, k, n)
           I == {l \in j + 1 .. k - 1 : SetOf(tr[l]) = n}
           f == [x \in D |-> x \div S]
           g == [l \in I |-> Block(tr[l])]
<1>1. \A l \in I : tr[l] \in Addresses /\ l \in 1 .. Len(tr)
  OBVIOUS
<1>2. \A l \in I : /\ Block(tr[l]) \in Nat /\ Block(tr[l]) % S = n
                  /\ TagOf(tr[l]) = Block(tr[l]) \div S
                  /\ Block(tr[l]) = TagOf(tr[l]) * S + n
  BY <1>1, BlockSplit
<1>3. D = {Block(tr[l]) : l \in I}
  <2>1. \A l \in j + 1 .. k - 1 : tr[l] \in Addresses
    OBVIOUS
  <2>2. \A l \in j + 1 .. k - 1 : SetOf(tr[l]) = Block(tr[l]) % S
    BY <2>1, BlockSplit
  <2>3. QED  BY <2>2 DEF BlocksIn
<1>4. T = {TagOf(tr[l]) : l \in I}
  BY DEF TagsIn
<1>5. IsFiniteSet(D)
  <2>1. IsFiniteSet(j + 1 .. k - 1)
    BY FS_Interval
  <2>2. IsFiniteSet(I)
    BY <2>1, FS_Subset
  <2>3. g \in Surjection(I, D)
    BY <1>3 DEF Surjection
  <2>4. QED  BY <2>2, <2>3, FS_Surjection
<1>6. f \in Bijection(D, T)
  <2> HIDE DEF I
  <2>1. f \in [D -> T] /\ \A u \in T : \E x \in D : f[x] = u
    BY <1>2, <1>3, <1>4
  <2>2. \A x, y \in D : f[x] = f[y] => x = y
    BY <1>2, <1>3
  <2>3. QED  BY <2>1, <2>2 DEF Bijection, Injection, Surjection, IsInjective
<1>7. IsFiniteSet(T) /\ Cardinality(T) = Cardinality(D)
  BY <1>5, <1>6, FS_Bijection DEF ExistsBijection
<1>8. QED  BY <1>5, <1>7, FS_CardinalityType

\* An LRU hit in terms of sets and tags.
LEMMA HitByTags ==
  ASSUME NEW tr \in Seq(Addresses), NEW k \in DOMAIN tr
  PROVE  HitIn(tr, k) <=>
           \E j \in 1 .. k - 1 :
             /\ SetOf(tr[j]) = SetOf(tr[k]) /\ TagOf(tr[j]) = TagOf(tr[k])
             /\ TagOf(tr[k]) \notin TagsIn(tr, j, k, SetOf(tr[k]))
             /\ Cardinality(TagsIn(tr, j, k, SetOf(tr[k]))) < E
<1> DEFINE n == SetOf(tr[k])
           t == TagOf(tr[k])
<1>1. Len(tr) \in Nat /\ DOMAIN tr = 1 .. Len(tr) /\ \A j \in DOMAIN tr : tr[j] \in Addresses
  OBVIOUS
<1>2. \A i, j \in DOMAIN tr :
        Block(tr[i]) = Block(tr[j]) <=> SetOf(tr[i]) = SetOf(tr[j]) /\ TagOf(tr[i]) = TagOf(tr[j])
  BY <1>1, BlockSplit
<1>3. ASSUME NEW j \in 1 .. k - 1
      PROVE  /\ Block(tr[j]) = Block(tr[k]) <=> SetOf(tr[j]) = n /\ TagOf(tr[j]) = t
             /\ Block(tr[k]) \notin BlocksIn(tr, j, k) <=> t \notin TagsIn(tr, j, k, n)
             /\ Cardinality({x \in BlocksIn(tr, j, k) : x % S = Block(tr[k]) % S})
                  = Cardinality(TagsIn(tr, j, k, n))
  <2>1. j \in DOMAIN tr /\ k \in DOMAIN tr /\ j + 1 .. k - 1 \subseteq DOMAIN tr
    BY <1>1
  <2>2. Block(tr[j]) = Block(tr[k]) <=> SetOf(tr[j]) = n /\ TagOf(tr[j]) = t
    BY <1>2, <2>1
  <2>3. Block(tr[k]) \in BlocksIn(tr, j, k) <=> t \in TagsIn(tr, j, k, n)
    BY <1>2, <2>1 DEF BlocksIn, TagsIn
  <2>4. n = Block(tr[k]) % S
    BY <1>1, <2>1, BlockSplit
  <2>5. Cardinality({x \in BlocksIn(tr, j, k) : x % S = n}) = Cardinality(TagsIn(tr, j, k, n))
    BY <2>1, CountTags
  <2>6. QED  BY <2>2, <2>3, <2>4, <2>5
<1>4. QED  BY <1>3 DEF HitIn

\* The next access hits in the cache if and only if it is an LRU hit of the trace: what
\* was used since the last use of a resident tag is resident, and a tag that is gone
\* has given way to E tags used since.
LEMMA ResidentIsHit ==
  ASSUME NoSentinelTag, CacheOK, TypeOK, HistoryOK, NEW a \in Addresses,
         SetOf(a) \in Sets, TagOf(a) \in Addresses, trace' = Append(trace, a)
  PROVE  HitIn(trace', Len(trace) + 1) <=> TagOf(a) \in Resident(SetOf(a))
<1> DEFINE n == SetOf(a)
           t == TagOf(a)
           K == Len(trace) + 1
           T(j) == TagsIn(trace', j, K, n)
<1>1. /\ K \in Nat /\ DOMAIN trace = 1 .. K - 1 /\ DOMAIN trace' = 1 .. K
      /\ trace'[K] = a /\ \A j \in 1 .. K - 1 : trace'[j] = trace[j] /\ trace[j] \in Addresses
  BY OneMoreUse
<1>2. trace' \in Seq(Addresses) /\ K \in DOMAIN trace'
  BY <1>1 DEF TypeOK
<1>3. HitIn(trace', K) <=>
        \E j \in 1 .. K - 1 : j \in Uses(n, t) /\ t \notin T(j) /\ Cardinality(T(j)) < E
  <2> HIDE DEF K
  <2>1. HitIn(trace', K) <=>
           \E j \in 1 .. K - 1 :
             /\ SetOf(trace'[j]) = n /\ TagOf(trace'[j]) = t
             /\ t \notin T(j) /\ Cardinality(T(j)) < E
    BY <1>1, <1>2, HitByTags
  <2>2. QED  BY <1>1, <2>1 DEF Uses
<1>4. \A j \in 1 .. K - 1 : \A u : u \in T(j) <=> UsedSince(j, n, u)
  <2>1. \A j \in 1 .. K - 1 : \A l : l \in j + 1 .. K - 1 <=> l \in 1 .. K - 1 /\ j < l
    BY <1>1
  <2> HIDE DEF K
  <2>2. QED  BY <1>1, <2>1 DEF TagsIn, UsedSince, Uses
<1>5. \A j \in 1 .. K - 1 : IsFiniteSet(T(j))
  <2> TAKE j \in 1 .. K - 1
  <2>1. j \in DOMAIN trace'
    BY <1>1
  <2> HIDE DEF K, n
  <2>2. QED  BY <1>2, <2>1, CountTags
<1>6. IsFiniteSet(Resident(n)) /\ Cardinality(Resident(n)) \in 0 .. E
  BY ResidentCardinality
<1>7. E \in Nat /\ Uses(n, t) \subseteq 1 .. K - 1
  BY <1>1, CacheAssumption DEF Uses
<1> HIDE DEF n, t, K, T
<1>8. ASSUME t \in Resident(n) PROVE HitIn(trace', K)
  <2>1. PICK j \in Uses(n, t) : \A k \in Uses(n, t) : k <= j
    <3>1. Uses(n, t) # {} /\ Uses(n, t) \in SUBSET Nat /\ K \in Nat /\ \A k \in Uses(n, t) : k <= K
      BY <1>1, <1>7, <1>8 DEF HistoryOK, n
    <3>2. QED  BY <3>1, GreatestPosition
  <2>2. j \in 1 .. K - 1
    BY <1>7
  <2>3. t \notin T(j)
    <3>1. ~UsedSince(j, n, t)
      BY <1>1, <1>7, <2>1 DEF UsedSince
    <3>2. QED  BY <1>4, <2>2, <3>1
  <2>4. T(j) \subseteq Resident(n) \ {t}
    <3>1. SUFFICES ASSUME NEW u \in T(j), u \notin Resident(n) PROVE FALSE
      BY <2>3
    <3>2. PICK m \in Uses(n, u) : j < m
      BY <1>4, <2>2 DEF UsedSince
    <3>3. u \in Addresses
      <4>1. m \in DOMAIN trace /\ u = TagOf(trace[m])
        BY <3>2 DEF Uses
      <4>2. QED  BY <1>1, <4>1, AddressSplit
    <3>4. UsedSince(m, n, t)
      BY <1>8, <3>1, <3>2, <3>3 DEF HistoryOK, n
    <3>5. PICK l \in Uses(n, t) : m < l
      BY <3>4 DEF UsedSince
    <3>6. m \in Nat
      BY <1>1, <3>2 DEF Uses
    <3>7. QED  BY <1>1, <1>7, <2>1, <2>2, <3>2, <3>5, <3>6
  <2>5. Cardinality(T(j)) < E
    <3>1. /\ IsFiniteSet(Resident(n) \ {t})
          /\ Cardinality(Resident(n) \ {t}) = Cardinality(Resident(n)) - 1
      BY <1>6, <1>8, FS_RemoveElement
    <3>2. Cardinality(T(j)) <= Cardinality(Resident(n) \ {t})
      BY <2>4, <3>1, FS_Subset
    <3>3. Cardinality(T(j)) \in Nat
      BY <1>5, <2>2, FS_CardinalityType
    <3>4. QED  BY <1>6, <1>7, <3>1, <3>2, <3>3
  <2>6. QED  BY <1>3, <2>2, <2>3, <2>5
<1>9. ASSUME t \notin Resident(n) PROVE ~HitIn(trace', K)
  <2>1. SUFFICES ASSUME NEW j \in 1 .. K - 1, j \in Uses(n, t), Cardinality(T(j)) < E PROVE FALSE
    BY <1>3
  <2>2. Cardinality(Resident(n)) = E /\ \A y \in Resident(n) : UsedSince(j, n, y)
    BY <1>9, <2>1 DEF HistoryOK, n, t
  <2>3. Resident(n) \subseteq T(j)
    BY <1>4, <2>2
  <2>4. Cardinality(Resident(n)) <= Cardinality(T(j))
    BY <1>5, <2>3, FS_Subset
  <2>5. Cardinality(T(j)) \in Nat
    BY <1>5, FS_CardinalityType
  <2>6. QED  BY <1>7, <2>1, <2>2, <2>4, <2>5
<1>10. QED  BY <1>8, <1>9 DEF n, t, K

\* An access keeps the trace and the cache in step: a hit throws nothing out, a fill
\* finds a free line only while nothing was thrown out, and the victim of an eviction
\* was used before all others.
LEMMA ProcInstrHistory ==
  ASSUME NoSentinelTag, CacheOK, TypeOK, HistoryOK, NEW a \in Addresses, proc_instr(a)
  PROVE  HistoryOK'
<1> DEFINE n == SetOf(a)
           t == TagOf(a)
           res == [m \in Sets |-> Resident(m)]
           ord == [m \in Sets |-> Before(m)]
           GaveWay(R) == \A u \in Addresses \ R : \A j \in Uses(n, u) :
                           Cardinality(R) = E /\ \A y \in R \ {t} : UsedSince(j, n, y)
<1>1. n \in Sets /\ t \in Addresses \ {Empty}
  BY AddressSplit
<1>2. res[n] = Resident(n) /\ ord[n] = Before(n)
  BY <1>1
<1>3. trace' = Append(trace, a) /\ (Hit(n, t) \/ Fill(n, t) \/ Evict(n, t))
  BY DEF proc_instr
<1>4. \A u \in Addresses \ Resident(n) : \A j \in Uses(n, u) :
        Cardinality(Resident(n)) = E /\ \A y \in Resident(n) : UsedSince(j, n, y)
  BY <1>1 DEF HistoryOK
<1>5. IsFiniteSet(Resident(n)) /\ E \in Nat
  BY <1>1, ResidentCardinality, CacheAssumption
<1>6. ASSUME NEW R, LRU!Use(n, t, R), t \in R, R \subseteq Resident(n) \union {t}, GaveWay(R)
      PROVE  HistoryOK'
  BY <1>1, <1>3, <1>6, HistoryStep
<1> HIDE DEF n, t
<1>7. CASE Hit(n, t)
  <2>1. LRU!Hit(n, t)
    BY <1>1, <1>7, HitImplementsHit
  <2>2. t \in Resident(n) /\ LRU!Use(n, t, res[n])
    BY <2>1, <1>2, Zenon DEF LRU!Hit
  <2> HIDE DEF res
  <2>3. LRU!Use(n, t, Resident(n))
    BY <1>2, <2>2
  <2>4. GaveWay(Resident(n))
    BY <1>4
  <2>5. QED  BY <1>6, <2>2, <2>3, <2>4
<1>8. CASE Fill(n, t)
  <2>1. LRU!Fill(n, t)
    BY <1>1, <1>8, FillImplementsFill
  <2>2. LRU!Cardinality(res[n]) < E /\ LRU!Use(n, t, res[n] \union {t})
    BY <2>1, Zenon DEF LRU!Fill
  <2> HIDE DEF res
  <2> DEFINE R == Resident(n) \union {t}
  <2>3. Cardinality(Resident(n)) < E /\ LRU!Use(n, t, R)
    BY <1>2, <2>2, SameCardinality
  <2>4. GaveWay(R)
    BY <1>4, <1>5, <2>3
  <2>5. t \in R /\ R \subseteq Resident(n) \union {t}
    OBVIOUS
  <2> HIDE DEF R, GaveWay
  <2>6. QED  BY <1>6, <2>3, <2>4, <2>5 DEF GaveWay
<1>9. CASE Evict(n, t)
  <2>1. LRU!Evict(n, t)
    BY <1>1, <1>9, EvictImplementsEvict
  <2>2. /\ t \notin res[n] /\ LRU!Cardinality(res[n]) = E
        /\ \E v \in res[n] : /\ \A x \in res[n] : <<x, v>> \notin ord[n]
                             /\ LRU!Use(n, t, (res[n] \ {v}) \union {t})
    BY <2>1, Zenon DEF LRU!Evict
  <2> HIDE DEF res, ord
  <2>3. /\ t \notin Resident(n) /\ Cardinality(Resident(n)) = E
        /\ \E v \in Resident(n) : /\ \A x \in Resident(n) : <<x, v>> \notin Before(n)
                                  /\ LRU!Use(n, t, (Resident(n) \ {v}) \union {t})
    BY <1>2, <2>2, SameCardinality
  <2>4. PICK v \in Resident(n) : /\ \A x \in Resident(n) : <<x, v>> \notin Before(n)
                                 /\ LRU!Use(n, t, (Resident(n) \ {v}) \union {t})
    BY <2>3
  <2> DEFINE R == (Resident(n) \ {v}) \union {t}
  <2>5. Cardinality(R) = E
    <3>1. IsFiniteSet(Resident(n) \ {v}) /\ Cardinality(Resident(n) \ {v}) = E - 1
      BY <1>5, <2>3, <2>4, FS_RemoveElement
    <3>2. Cardinality(R) = (E - 1) + 1
      BY <2>3, <3>1, FS_AddElement
    <3>3. QED  BY <1>5, <3>2
  <2>6. ASSUME NEW u \in Addresses \ R, NEW j \in Uses(n, u), NEW y \in R \ {t}
        PROVE  UsedSince(j, n, y)
    <3>1. y \in Resident(n) /\ y # v
      BY <2>6
    <3>2. CASE u = v
      <4>1. <<v, y>> \in Before(n)
        BY <1>1, <2>4, <3>1 DEF HistoryOK
      <4>2. QED  BY <1>1, <2>4, <2>6, <3>1, <3>2, <4>1 DEF HistoryOK
    <3>3. CASE u \notin Resident(n)
      BY <1>4, <2>6, <3>1, <3>3
    <3>4. QED  BY <2>6, <3>2, <3>3
  <2>7. t \in R /\ R \subseteq Resident(n) \union {t} /\ LRU!Use(n, t, R)
    BY <2>4
  <2> HIDE DEF R
  <2>8. QED  BY <1>6, <2>5, <2>6, <2>7
<1>10. QED  BY <1>3, <1>7, <1>8, <1>9

-------------------------------------------------------------------------------
(* The counts. *)

LRUHits == {k \in DOMAIN trace : LRUHit(k)}
LoadedLines == UNION {{<<n, i>> : i \in Loaded(n)} : n \in Sets}

CountsOK ==
  /\ IsFiniteSet(LRUHits) /\ hit_count = Cardinality(LRUHits)
  /\ hit_count + miss_count = Len(trace)
  /\ IsFiniteSet(LoadedLines) /\ miss_count - eviction_count = Cardinality(LoadedLines)

\* An access adds itself to the LRU hits of the trace, or nothing.
LEMMA LRUHitsGrow ==
  ASSUME NoSentinelTag, CacheOK, TypeOK, HistoryOK, NEW a \in Addresses, trace' = Append(trace, a)
  PROVE  /\ Len(trace) + 1 \notin LRUHits /\ Len(trace') = Len(trace) + 1
         /\ LRUHits' = IF TagOf(a) \in Resident(SetOf(a)) THEN LRUHits \union {Len(trace) + 1}
                                                          ELSE LRUHits
<1> DEFINE K == Len(trace) + 1
<1>1. /\ K \in Nat /\ DOMAIN trace = 1 .. K - 1 /\ DOMAIN trace' = 1 .. K /\ Len(trace') = K
      /\ \A j \in 1 .. K - 1 : trace'[j] = trace[j]
  BY OneMoreUse
<1>2. HitIn(trace', K) <=> TagOf(a) \in Resident(SetOf(a))
  BY AddressSplit, ResidentIsHit
<1> HIDE DEF K
<1>3. ASSUME NEW k \in 1 .. K - 1 PROVE HitIn(trace', k) <=> HitIn(trace, k)
  <2>1. ASSUME NEW j \in 1 .. k - 1 PROVE j \in 1 .. K - 1 /\ BlocksIn(trace', j, k) = BlocksIn(trace, j, k)
    <3>1. \A m \in j + 1 .. k - 1 : trace'[m] = trace[m]
      BY <1>1
    <3>2. QED  BY <1>1, <3>1 DEF BlocksIn
  <2>2. QED  BY <1>1, <2>1 DEF HitIn
<1>4. LRUHits = {k \in 1 .. K - 1 : HitIn(trace, k)} /\ LRUHits' = {k \in 1 .. K : HitIn(trace', k)}
  BY <1>1, LRUHitIn DEF LRUHits
<1>5. \A k \in 1 .. K : k \in 1 .. K - 1 \/ k = K
  BY <1>1
<1>6. K \in 1 .. K /\ K \notin 1 .. K - 1 /\ 1 .. K - 1 \subseteq 1 .. K
  BY <1>1
<1>7. LRUHits' = IF TagOf(a) \in Resident(SetOf(a)) THEN LRUHits \union {K} ELSE LRUHits
  BY <1>2, <1>3, <1>4, <1>5, <1>6
<1>8. QED  BY <1>1, <1>4, <1>6, <1>7 DEF K

\* What using a line adds to the loaded lines of the cache.
LEMMA LoadedLinesGrow ==
  ASSUME CacheOK, NEW n \in Sets, NEW t \in Addresses \ {Empty}, NEW i, NEW r, UsesLine(n, t, i, r)
  PROVE  /\ LoadedLines' = LoadedLines \union {<<n, i>>}
         /\ <<n, i>> \in LoadedLines <=> i \in Loaded(n)
<1>1. Loaded(n)' = Loaded(n) \union {i} /\ \A m \in Sets \ {n} : Loaded(m)' = Loaded(m)
  BY UsesLoaded
<1>2. \A p : /\ p \in LoadedLines <=> \E m \in Sets : \E k \in Loaded(m) : p = <<m, k>>
             /\ p \in LoadedLines' <=> \E m \in Sets : \E k \in Loaded(m)' : p = <<m, k>>
  BY DEF LoadedLines
<1>3. <<n, i>> \in LoadedLines <=> i \in Loaded(n)
  BY <1>2
<1>4. \A p : p \in LoadedLines' <=> p \in LoadedLines \/ p = <<n, i>>
  BY <1>1, <1>2
<1>5. QED  BY <1>3, <1>4

LEMMA ProcInstrCounts ==
  ASSUME NoSentinelTag, CacheOK, TypeOK, HistoryOK, CountsOK, NEW a \in Addresses, proc_instr(a)
  PROVE  CountsOK'
<1> DEFINE n == SetOf(a)
           t == TagOf(a)
           K == Len(trace) + 1
<1>1. n \in Sets /\ t \in Addresses \ {Empty}
  BY AddressSplit
<1>2. trace' = Append(trace, a) /\ (Hit(n, t) \/ Fill(n, t) \/ Evict(n, t))
  BY DEF proc_instr
<1>3. /\ K \notin LRUHits /\ Len(trace') = K
      /\ LRUHits' = IF t \in Resident(n) THEN LRUHits \union {K} ELSE LRUHits
  BY <1>2, LRUHitsGrow
<1>4. t \in Resident(n) <=> Holds(n, t)
  BY <1>1 DEF Resident, Loaded, Holds
<1>5. hit_count \in Nat /\ miss_count \in Nat /\ eviction_count \in Nat /\ Len(trace) \in Nat
  BY DEF TypeOK
<1>6. Cardinality(LRUHits) \in Nat /\ Cardinality(LoadedLines) \in Nat
  BY FS_CardinalityType DEF CountsOK
<1>7. ASSUME NEW i, NEW r, UsesLine(n, t, i, r)
      PROVE  /\ IsFiniteSet(LoadedLines')
             /\ Cardinality(LoadedLines') =
                  Cardinality(LoadedLines) + (IF i \in Loaded(n) THEN 0 ELSE 1)
  <2>1. LoadedLines' = LoadedLines \union {<<n, i>>} /\ (<<n, i>> \in LoadedLines <=> i \in Loaded(n))
    BY <1>1, <1>7, LoadedLinesGrow
  <2>2. CASE i \in Loaded(n)
    <3>1. LoadedLines' = LoadedLines
      BY <2>1, <2>2
    <3>2. QED  BY <1>6, <2>2, <3>1 DEF CountsOK
  <2>3. CASE i \notin Loaded(n)
    BY <2>1, <2>3, FS_AddElement DEF CountsOK
  <2>4. QED  BY <2>2, <2>3
<1> HIDE DEF n, t, K
<1>8. CASE Hit(n, t)
  <2>1. LRUHits' = LRUHits \union {K} /\ hit_count' = hit_count + 1
        /\ miss_count' = miss_count /\ eviction_count' = eviction_count
    BY <1>3, <1>4, <1>8 DEF Hit
  <2>2. IsFiniteSet(LRUHits') /\ Cardinality(LRUHits') = Cardinality(LRUHits) + 1
    <3>1. IsFiniteSet(LRUHits \union {K})
          /\ Cardinality(LRUHits \union {K}) = Cardinality(LRUHits) + 1
      BY <1>3, FS_AddElement DEF CountsOK
    <3>2. QED  BY <2>1, <3>1
  <2>3. IsFiniteSet(LoadedLines') /\ Cardinality(LoadedLines') = Cardinality(LoadedLines)
    BY <1>1, <1>6, <1>7, <1>8, HitUses
  <2>4. QED  BY <1>3, <1>5, <1>6, <2>1, <2>2, <2>3 DEF CountsOK, K
<1>9. CASE Fill(n, t)
  <2>1. LRUHits' = LRUHits /\ hit_count' = hit_count
        /\ miss_count' = miss_count + 1 /\ eviction_count' = eviction_count
    BY <1>3, <1>4, <1>9 DEF Fill
  <2>2. IsFiniteSet(LoadedLines') /\ Cardinality(LoadedLines') = Cardinality(LoadedLines) + 1
    BY <1>1, <1>7, <1>9, FillUses
  <2>3. QED  BY <1>3, <1>5, <1>6, <2>1, <2>2 DEF CountsOK, K
<1>10. CASE Evict(n, t)
  <2>1. LRUHits' = LRUHits /\ hit_count' = hit_count
        /\ miss_count' = miss_count + 1 /\ eviction_count' = eviction_count + 1
    BY <1>3, <1>4, <1>10 DEF Evict
  <2>2. IsFiniteSet(LoadedLines') /\ Cardinality(LoadedLines') = Cardinality(LoadedLines)
    <3>1. PICK i, r : UsesLine(n, t, i, r) /\ i \in Loaded(n)
      BY <1>1, <1>10, EvictUses
    <3>2. QED  BY <1>6, <1>7, <3>1
  <2>3. QED  BY <1>3, <1>5, <1>6, <2>1, <2>2 DEF CountsOK, K
<1>11. QED  BY <1>2, <1>8, <1>9, <1>10

LEMMA InitCounts == Init => HistoryOK /\ CountsOK
<1> SUFFICES ASSUME Init PROVE HistoryOK /\ CountsOK
  OBVIOUS
<1>1. \A n \in Sets : Loaded(n) = {} /\ Resident(n) = {}
  BY DEF Init, Loaded, Resident
<1>2. DOMAIN trace = {} /\ Len(trace) = 0
  BY DEF Init
<1>3. HistoryOK
  BY <1>1, <1>2 DEF HistoryOK, Uses
<1>4. LRUHits = {} /\ LoadedLines = {}
  BY <1>1, <1>2 DEF LRUHits, LoadedLines
<1>5. QED  BY <1>2, <1>3, <1>4, FS_EmptySet DEF Init, CountsOK

LEMMA NextCounts ==
  ASSUME NoSentinelTag, IInv, HistoryOK, CountsOK, [Next]_vars
  PROVE  HistoryOK' /\ CountsOK'
<1>1. TypeOK /\ CacheOK
  BY IInvIsCacheOK DEF IInv
<1>2. ASSUME NEW a \in Addresses, proc_instr(a) PROVE HistoryOK' /\ CountsOK'
  BY <1>1, <1>2, ProcInstrHistory, ProcInstrCounts
<1>3. CASE \E a \in Addresses : LoadOrStore(a) \/ Modify(a)
  BY <1>2, <1>3 DEF LoadOrStore, Modify
<1>4. CASE ModifyAgain
  BY <1>1, <1>2, <1>4 DEF ModifyAgain, TypeOK
<1>5. CASE UNCHANGED vars
  <2>0. trace' = trace /\ cache' = cache /\ lru' = lru
    BY <1>5 DEF vars
  <2>1. /\ \A n, t : Uses(n, t)' = Uses(n, t)
        /\ \A n : Resident(n)' = Resident(n) /\ Before(n)' = Before(n) /\ Loaded(n)' = Loaded(n)
        /\ \A k : LRUHit(k)' <=> LRUHit(k)
    <3>1. \A n, t : Uses(n, t)' = Uses(n, t)
      BY <2>0 DEF Uses
    <3>2. \A n : Resident(n)' = Resident(n) /\ Before(n)' = Before(n) /\ Loaded(n)' = Loaded(n)
      BY <2>0 DEF Resident, Loaded, Before, Precedes
    <3>3. \A k : LRUHit(k)' <=> LRUHit(k)
      BY <2>0, LRUHitIn
    <3>4. QED  BY <3>1, <3>2, <3>3
  <2>2. HistoryOK'
    BY <2>1 DEF HistoryOK, UsedSince
  <2>3. LRUHits' = LRUHits /\ LoadedLines' = LoadedLines
    BY <1>5, <2>1 DEF vars, LRUHits, LoadedLines
  <2>4. QED  BY <1>5, <2>2, <2>3 DEF CountsOK, vars, counts
<1>6. QED  BY <1>3, <1>4, <1>5 DEF Next

\* The summary csim prints is, for every cache and every trace, that of an LRU cache as
\* defined by the trace alone, and each miss that filled no empty line evicted one.
THEOREM CountsAreThoseOfLRU == Spec => []CountsAreLRU
<1>1. CASE NoSentinelTag
  <2>1. Init => HistoryOK /\ CountsOK
    BY InitCounts
  <2>2. IInv /\ HistoryOK /\ CountsOK /\ [Next]_vars => HistoryOK' /\ CountsOK'
    BY <1>1, NextCounts
  <2>3. CountsOK => CountsAreLRU
    BY DEF CountsOK, CountsAreLRU, LRUHits, LoadedLines
  <2>4. Spec => []IInv
    BY <1>1, Invariance
  <2>5. QED  BY <2>1, <2>2, <2>3, <2>4, PTL DEF Spec
<1>2. CASE ~NoSentinelTag
  <2>1. CountsAreLRU
    BY <1>2 DEF CountsAreLRU
  <2>2. QED  BY <2>1, PTL
<1>3. QED  BY <1>1, <1>2
===============================================================================
