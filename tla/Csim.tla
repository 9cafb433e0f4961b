--------------------------------- MODULE Csim ---------------------------------
(***************************************************************************)
(* The cache simulator csim.c: S sets of E lines, and for each set a queue *)
(* of line indices in the order of their use.  An index that is used again *)
(* is pushed again and its earlier entries become dummies, which front     *)
(* drops when a victim is needed.  The trace file is an arbitrary sequence *)
(* of instructions; 'I' lines change nothing (csim.c:90) and are left out. *)
(* The flags -s and -b are given as the powers of two they stand for.      *)
(***************************************************************************)
EXTENDS Integers, Sequences, FiniteSets

CONSTANTS S,           \* number of sets, 2^s
          E,           \* lines per set
          B,           \* bytes per block, 2^b
          Memory,      \* number of addresses, 2^64 in the code
          MaxAccesses  \* bound on the length of the trace

ASSUME CacheAssumption ==
  /\ S \in Nat \ {0} /\ E \in Nat \ {0} /\ B \in Nat \ {0}
  /\ Memory \in Nat \ {0} /\ MaxAccesses \in Nat

Sets      == 0 .. S - 1
Lines     == 0 .. E - 1
Addresses == 0 .. Memory - 1
Empty     == Memory - 1    \* the tag of an empty line: memset to -1, all ones
Dummy     == -1            \* a queue entry that no longer counts
None      == -1            \* no second access is due

\* csim.c:92-97: the bits above the block offset, split in set index and tag.
SetOf(a) == (a \div B) % S
TagOf_BugKeepsSetBit(a) == a \div (2 * S * B)
TagOf(a) == a \div (S * B)

-------------------------------------------------------------------------------
(* The queue of line indices. *)

push_BugLeavesOldEntries(q, i) == Append(q, i)
\* The scan stops before the last entry, which may equal i and stay.
push(q, i) ==
  Append([k \in DOMAIN q |-> IF k < Len(q) /\ q[k] = i THEN Dummy ELSE q[k]], i)

FirstEntry(q) ==
  CHOOSE k \in DOMAIN q : q[k] # Dummy /\ \A j \in 1 .. k - 1 : q[j] = Dummy

\* The queue once front has popped its leading dummies.
Trimmed(q) == SubSeq(q, FirstEntry(q), Len(q))
front(q)   == q[FirstEntry(q)]
pop(q)     == Tail(q)

-------------------------------------------------------------------------------
VARIABLES cache,          \* cache[n][i], the tag in line i of set n
          lru,            \* lru[n], the queue of set n
          hit_count, miss_count, eviction_count,
          again,          \* the address an 'M' has still to access, or None
          trace           \* history: the addresses accessed so far
counts == <<hit_count, miss_count, eviction_count>>
vars == <<cache, lru, counts, again, trace>>

Init == /\ cache = [n \in Sets |-> [i \in Lines |-> Empty]]
        /\ lru = [n \in Sets |-> <<>>]
        /\ hit_count = 0 /\ miss_count = 0 /\ eviction_count = 0
        /\ again = None /\ trace = <<>>

\* The first line of set n that holds tag t.
Holds(n, t)  == \E i \in Lines : cache[n][i] = t
LineOf_BugCountsFromOne(n, t) ==
  1 + CHOOSE i \in Lines : cache[n][i] = t /\ \A k \in 0 .. i - 1 : cache[n][k] # t
LineOf(n, t) == CHOOSE i \in Lines :
                  cache[n][i] = t /\ \A k \in 0 .. i - 1 : cache[n][k] # t

Hit(n, t) ==
  /\ Holds(n, t)
  /\ hit_count' = hit_count + 1
  /\ lru' = [lru EXCEPT ![n] = push(@, LineOf(n, t))]
  /\ UNCHANGED <<cache, miss_count, eviction_count>>

Fill_BugNoReturnAfterHit(n, t) ==
  /\ Holds(n, Empty)
  /\ miss_count' = miss_count + 1
  /\ cache' = [cache EXCEPT ![n][LineOf(n, Empty)] = t]
  /\ lru' = [lru EXCEPT ![n] = push(@, LineOf(n, Empty))]
  /\ UNCHANGED <<hit_count, eviction_count>>

Fill_BugLeavesTag(n, t) ==
  /\ ~Holds(n, t) /\ Holds(n, Empty)
  /\ miss_count' = miss_count + 1
  /\ lru' = [lru EXCEPT ![n] = push(@, LineOf(n, Empty))]
  /\ UNCHANGED <<cache, hit_count, eviction_count>>

Fill(n, t) ==
  /\ ~Holds(n, t) /\ Holds(n, Empty)
  /\ miss_count' = miss_count + 1
  /\ cache' = [cache EXCEPT ![n][LineOf(n, Empty)] = t]
  /\ lru' = [lru EXCEPT ![n] = push(@, LineOf(n, Empty))]
  /\ UNCHANGED <<hit_count, eviction_count>>

Evict_BugForgetsToPush(n, t) ==
  /\ ~Holds(n, t) /\ ~Holds(n, Empty)
  /\ miss_count' = miss_count + 1 /\ eviction_count' = eviction_count + 1
  /\ cache' = [cache EXCEPT ![n][front(lru[n])] = t]
  /\ lru' = [lru EXCEPT ![n] = Trimmed(@)]
  /\ UNCHANGED hit_count

Evict(n, t) ==
  /\ ~Holds(n, t) /\ ~Holds(n, Empty)
  /\ miss_count' = miss_count + 1 /\ eviction_count' = eviction_count + 1
  /\ LET victim == front(lru[n])
     IN  /\ lru' = [lru EXCEPT ![n] = push(pop(Trimmed(@)), victim)]
         /\ cache' = [cache EXCEPT ![n][victim] = t]
  /\ UNCHANGED hit_count

proc_instr(a) ==
  /\ trace' = Append(trace, a)
  /\ LET n == SetOf(a)
         t == TagOf(a)
     IN  Hit(n, t) \/ Fill(n, t) \/ Evict(n, t)

-------------------------------------------------------------------------------
MoreTrace == again = None /\ Len(trace) < MaxAccesses

LoadOrStore(a) == MoreTrace /\ proc_instr(a) /\ UNCHANGED again

Modify(a) == MoreTrace /\ proc_instr(a) /\ again' = a

ModifyAgain == again # None /\ proc_instr(again) /\ again' = None

Next == (\E a \in Addresses : LoadOrStore(a) \/ Modify(a)) \/ ModifyAgain

Spec == Init /\ [][Next]_vars

-------------------------------------------------------------------------------
(* Properties. *)

Loaded(n) == {i \in Lines : cache[n][i] # Empty}

Entries(q) == {q[k] : k \in DOMAIN q} \ {Dummy}

\* The queue holds the lines L; only adjacent entries repeat, none at the end is a dummy.
Ordered(q, L) ==
  /\ Entries(q) = L
  /\ \A j, k \in DOMAIN q : q[j] = q[k] /\ q[j] # Dummy /\ j < k => k = j + 1
  /\ q # <<>> => q[Len(q)] # Dummy

\* The pairs of lines <<x, y>> with an entry of x before one of y.
Precedes(q) == {p \in Lines \X Lines : p[1] # p[2] /\
                  \E j, k \in DOMAIN q : j < k /\ q[j] = p[1] /\ q[k] = p[2]}

\* Every variable holds a value of its type.
TypeOK ==
  /\ cache \in [Sets -> [Lines -> Addresses]]
  /\ lru \in [Sets -> Seq(Lines \union {Dummy})]
  /\ hit_count \in Nat /\ miss_count \in Nat /\ eviction_count \in Nat
  /\ again \in Addresses \union {None}
  /\ trace \in Seq(Addresses)

\* No tag is in two lines of a set, so the order of the search never matters.
OneLinePerTag ==
  \A n \in Sets : \A i, k \in Loaded(n) : cache[n][i] = cache[n][k] => i = k

\* The queue of a set, dummies and repeated entries and all, holds exactly the
\* loaded lines, and what repeats is adjacent: front never runs off the end
\* and never returns a line that was used since.
QueueOrdersLines == \A n \in Sets : Ordered(lru[n], Loaded(n))

\* No address has the tag that marks an empty line; so it is unless s = b = 0.
NoSentinelTag == S * B > 1 /\ Memory > 1

\* Two addresses share a line, or a set, by their block number alone.
Block(a) == a \div B
Between(j, k) == {Block(trace[m]) : m \in j + 1 .. k - 1}

\* The access k is a hit of an LRU cache: its block was accessed before and
\* since then fewer than E other blocks of its set were.
LRUHit(k) ==
  \E j \in 1 .. k - 1 :
    /\ Block(trace[j]) = Block(trace[k])
    /\ Block(trace[k]) \notin Between(j, k)
    /\ Cardinality({x \in Between(j, k) : x % S = Block(trace[k]) % S}) < E

\* The summary csim prints is that of an LRU cache as defined by the trace
\* alone, and a miss that filled no empty line evicted one.
CountsAreLRU ==
  NoSentinelTag =>
    /\ hit_count = Cardinality({k \in DOMAIN trace : LRUHit(k)})
    /\ hit_count + miss_count = Len(trace)
    /\ miss_count - eviction_count =
         Cardinality(UNION {{<<n, i>> : i \in Loaded(n)} : n \in Sets})

\* csim.c:102: the second access of an 'M' finds what the first one loaded.
SecondAccessHits == [][again # None => hit_count' = hit_count + 1]_vars

\* csim is an LRU cache: a line's tag was used before another's when its entry
\* precedes the other's in the queue.
Before(n) == {<<cache[n][p[1]], cache[n][p[2]]>> : p \in Precedes(lru[n])}

Resident(n) == {cache[n][i] : i \in Loaded(n)}

LRU == INSTANCE LRUCache WITH
         Tags <- Addresses \ {Empty},
         resident <- [n \in Sets |-> Resident(n)],
         older <- [n \in Sets |-> Before(n)],
         hits <- hit_count, misses <- miss_count, evictions <- eviction_count

ImplementsLRU == LRU!Spec
===============================================================================
