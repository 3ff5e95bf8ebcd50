-------------------------- MODULE LogService_proofs --------------------------
(* Theorems about the log service, for any number of blocks and operations.  *)
EXTENDS LogService, FiniteSetTheorems, SequenceTheorems, WellFoundedInduction, TLAPS

(* Lists of operations, as they lie in the pool.                             *)

Heads == Op \cup {Nil}
Pool == [Op -> [next : Heads, variable : Known \cup {Nil}]]
Links == Cardinality(Op)

\* No operation is reached from itself.
NoCircle(os) == \A S \in SUBSET Op : S # {} => \E o \in S : os[o].next \notin S
Closed(os, S) == \A o \in S : os[o].next \in S \cup {Nil}
Taken(os) == {o \in Op : os[o].variable # Nil}

LEMMA LinksType == Links \in Nat
BY FS_CardinalityType, PoolAssumption DEF Links

\* A set of numbers that end has a smallest: the steps to it are the least of its intervals.
LEMMA SmallestUpTo ==
    ASSUME NEW k \in Nat, NEW T \in SUBSET (0..k), T # {}
    PROVE  \E x \in T : \A y \in T : x <= y
<1> DEFINE Way(n) == 0..n
<1> DEFINE Ways == {Way(n) : n \in T}
<1>1. IsWellFoundedOn(StrictSubsetOrdering(0..k), SUBSET (0..k))
  <2>1. IsFiniteSet(0..k)
    BY FS_Interval
  <2> QED BY <2>1, FS_FiniteSubsetsOfFinite, FS_StrictSubsetOrderingWellFounded
<1>2. Ways \subseteq SUBSET (0..k) /\ Ways # {}
  <2>1. \A n \in T : Way(n) \subseteq 0..k
    OBVIOUS
  <2> HIDE DEF Way
  <2> QED BY <2>1
<1>3. PICK w \in Ways : \A v \in Ways : <<v, w>> \notin StrictSubsetOrdering(0..k)
  <2> HIDE DEF Ways
  <2> QED BY <1>1, <1>2, WFMin
<1>4. PICK x \in T : w = Way(x)
  BY <1>3
<1>5. ASSUME NEW y \in T PROVE x <= y
  <2> SUFFICES ASSUME y < x PROVE FALSE
    BY <1>4, <1>5
  <2>1. Way(y) \subseteq w /\ Way(y) # w
    <3>1. x \in Way(x) /\ x \notin Way(y)
      BY <1>4, <1>5
    <3>2. Way(y) \subseteq Way(x)
      BY <1>4, <1>5
    <3> QED BY <1>4, <3>1, <3>2
  <2>2. <<Way(y), w>> \in StrictSubsetOrdering(0..k)
    BY <1>2, <1>3, <1>5, <2>1 DEF StrictSubsetOrdering
  <2> QED BY <1>3, <1>5, <2>2
<1> QED BY <1>4, <1>5

\* What a walk finds on its way.
IsWalk(os, o, w, k) ==
    /\ w \in [0..k -> Heads]
    /\ w[0] = o
    /\ \A n \in 1..k : w[n] = IF w[n - 1] = Nil THEN Nil ELSE os[w[n - 1]].next

LEMMA LongerWalk ==
    ASSUME NEW os \in Pool, NEW o \in Heads, NEW k \in Nat, NEW w, IsWalk(os, o, w, k)
    PROVE  \E v : IsWalk(os, o, v, k + 1)
<1> DEFINE next == IF w[k] = Nil THEN Nil ELSE os[w[k]].next
<1> DEFINE v == [n \in 0..(k + 1) |-> IF n = k + 1 THEN next ELSE w[n]]
<1>1. next \in Heads
  BY DEF IsWalk, Pool, Heads
<1> HIDE DEF next
<1>2. v \in [0..(k + 1) -> Heads]
  BY <1>1 DEF IsWalk
<1>3. v[0] = o
  BY DEF IsWalk
<1>4. ASSUME NEW n \in 1..(k + 1)
      PROVE  v[n] = IF v[n - 1] = Nil THEN Nil ELSE os[v[n - 1]].next
  <2>1. v[n - 1] = w[n - 1]
    OBVIOUS
  <2>2. CASE n = k + 1
    BY <2>1, <2>2 DEF next
  <2>3. CASE n # k + 1
    <3>1. n \in 1..k /\ v[n] = w[n]
      BY <1>4, <2>3
    <3> QED BY <2>1, <3>1 DEF IsWalk
  <2> QED BY <2>2, <2>3
<1> HIDE DEF v
<1> QED BY <1>2, <1>3, <1>4 DEF IsWalk

LEMMA SomeWalk ==
    ASSUME NEW os \in Pool, NEW o \in Heads, NEW k \in Nat
    PROVE  \E w : IsWalk(os, o, w, k)
<1> DEFINE None == {n \in 0..k : ~ \E w : IsWalk(os, o, w, n)}
<1> SUFFICES ASSUME None # {} PROVE FALSE
  OBVIOUS
<1>1. PICK n \in None : \A m \in None : n <= m
  BY SmallestUpTo
<1>2. CASE n = 0
  <2> DEFINE w == [i \in 0..0 |-> o]
  <2>1. IsWalk(os, o, w, 0)
    BY DEF IsWalk
  <2> QED BY <1>1, <1>2, <2>1
<1>3. CASE n # 0
  <2>1. n - 1 \in 0..k /\ n - 1 \in Nat /\ n - 1 \notin None /\ (n - 1) + 1 = n
    BY <1>1, <1>3
  <2>2. PICK w : IsWalk(os, o, w, n - 1)
    BY <2>1
  <2> HIDE DEF None
  <2>3. \E v : IsWalk(os, o, v, n)
    BY <2>1, <2>2, LongerWalk
  <2> USE DEF None
  <2> QED BY <1>1, <2>3
<1> QED BY <1>2, <1>3

LEMMA AfterIsWalk ==
    ASSUME NEW os \in Pool, NEW o \in Heads
    PROVE  IsWalk(os, o, After(os, o), Links)
<1> DEFINE Is(w) == w = [n \in 0..Cardinality(Op) |->
                          IF n = 0 THEN o ELSE IF w[n - 1] = Nil THEN Nil ELSE os[w[n - 1]].next]
<1>1. PICK w : IsWalk(os, o, w, Links)
  BY SomeWalk, LinksType
<1>2. Is(w)
  BY <1>1, LinksType DEF IsWalk, Links
<1>3. After(os, o) = CHOOSE v : Is(v)
  BY Zenon DEF After
<1> HIDE DEF Is
<1>4. Is(After(os, o))
  BY <1>2, <1>3
<1>5. PICK a : a = After(os, o) /\ Is(a)
  BY <1>4
<1>6. /\ a = [n \in 0..Links |->
                IF n = 0 THEN o ELSE IF a[n - 1] = Nil THEN Nil ELSE os[a[n - 1]].next]
      /\ w[0] = o
      /\ \A n \in 1..Links : w[n] = IF w[n - 1] = Nil THEN Nil ELSE os[w[n - 1]].next
  BY <1>1, <1>5 DEF Is, IsWalk, Links
<1>7. \A n \in 0..Links : a[n] = w[n]
  <2> DEFINE Other == {n \in 0..Links : a[n] # w[n]}
  <2> SUFFICES ASSUME Other # {} PROVE FALSE
    OBVIOUS
  <2>1. PICK n \in Other : \A m \in Other : n <= m
    BY SmallestUpTo, LinksType
  <2>2. n # 0
    BY <1>6, <2>1, LinksType
  <2>3. n \in 1..Links /\ n - 1 \in 0..Links /\ n - 1 \notin Other
    BY <2>1, <2>2, LinksType
  <2>4. a[n] = IF a[n - 1] = Nil THEN Nil ELSE os[a[n - 1]].next
    BY <1>6, <2>2, <2>3
  <2> QED BY <1>6, <2>1, <2>3, <2>4
<1>8. a = w
  BY <1>1, <1>6, <1>7 DEF IsWalk
<1> QED BY <1>1, <1>5, <1>8

\* Where nothing leads round, no list is longer than the pool.
LEMMA WalkEnds ==
    ASSUME NEW os \in Pool, NoCircle(os), NEW o \in Heads, NEW w, IsWalk(os, o, w, Links)
    PROVE  w[Links] = Nil
<1> SUFFICES ASSUME w[Links] # Nil PROVE FALSE
  OBVIOUS
<1>1. \A n \in 0..Links : w[n] \in Op
  <2> SUFFICES ASSUME NEW m \in 0..Links, w[m] = Nil PROVE FALSE
    BY DEF IsWalk, Heads
  <2> DEFINE Later == {n \in 0..Links : n >= m /\ w[n] # Nil}
  <2>1. Links \in Later
    BY LinksType
  <2>2. PICK n \in Later : \A i \in Later : n <= i
    BY <2>1, SmallestUpTo, LinksType
  <2>3. n \in 1..Links /\ n - 1 \in 0..Links /\ n - 1 >= m /\ n - 1 \notin Later
    BY <2>2, LinksType
  <2> QED BY <2>2, <2>3 DEF IsWalk
<1>2. PICK x \in 0..Links, y \in 0..Links : x < y /\ w[x] = w[y]
  <2>1. IsFiniteSet(0..Links) /\ Cardinality(0..Links) = Links + 1
    BY LinksType, FS_Interval
  <2>2. w \in [0..Links -> Op]
    BY <1>1 DEF IsWalk
  <2>3. IsFiniteSet(Op) /\ Cardinality(Op) < Cardinality(0..Links)
    BY <2>1, LinksType, PoolAssumption DEF Links
  <2>4. PICK i \in 0..Links, j \in 0..Links : i # j /\ w[i] = w[j]
    BY <2>1, <2>2, <2>3, FS_PigeonHole
  <2>5. i < j \/ j < i
    BY <2>4, LinksType
  <2> QED BY <2>4, <2>5
<1> DEFINE S == {w[n] : n \in x..(y - 1)}
<1>3. S \subseteq Op /\ S # {}
  <2>1. x \in x..(y - 1) /\ x..(y - 1) \subseteq 0..Links
    BY <1>2, LinksType
  <2> QED BY <1>1, <2>1
<1>4. ASSUME NEW o1 \in S PROVE os[o1].next \in S
  <2>1. PICK n \in x..(y - 1) : o1 = w[n]
    BY <1>4
  <2>2. n + 1 \in 1..Links /\ (n + 1) - 1 = n /\ n \in 0..Links
    BY <1>2, <2>1, LinksType
  <2>3. w[n + 1] = os[o1].next
    <3>1. w[n] # Nil
      BY <1>1, <2>2, PoolAssumption
    <3> QED BY <2>1, <2>2, <3>1 DEF IsWalk
  <2>4. CASE n + 1 \in x..(y - 1)
    BY <2>3, <2>4
  <2>5. CASE n + 1 \notin x..(y - 1)
    <3>1. n + 1 = y /\ x \in x..(y - 1)
      BY <1>2, <2>1, <2>5, LinksType
    <3> QED BY <1>2, <2>3, <3>1
  <2> QED BY <2>4, <2>5
<1> HIDE DEF S
<1> QED BY <1>3, <1>4 DEF NoCircle

\* A list is the least set that has its head and what its members are linked to.
LEMMA LinkedClosed ==
    ASSUME NEW os \in Pool, NoCircle(os), NEW o \in Heads
    PROVE  /\ Linked(os, o) \subseteq Op
           /\ Closed(os, Linked(os, o))
           /\ o # Nil => o \in Linked(os, o)
<1>1. PICK w : w = After(os, o) /\ IsWalk(os, o, w, Links)
  BY AfterIsWalk
<1>2. Linked(os, o) = {w[n] : n \in 0..Links} \ {Nil}
  BY <1>1 DEF Linked, Links
<1>3. w[Links] = Nil
  BY <1>1, WalkEnds
<1>4. Linked(os, o) \subseteq Op
  BY <1>1, <1>2 DEF IsWalk, Heads
<1>5. ASSUME NEW o1 \in Linked(os, o) PROVE os[o1].next \in Linked(os, o) \cup {Nil}
  <2>1. PICK n \in 0..Links : o1 = w[n] /\ o1 # Nil
    BY <1>2, <1>5
  <2>2. n + 1 \in 1..Links /\ n + 1 \in 0..Links /\ (n + 1) - 1 = n
    BY <1>3, <2>1, LinksType
  <2>3. w[n + 1] = os[o1].next
    BY <1>1, <2>1, <2>2 DEF IsWalk
  <2> QED BY <1>2, <2>2, <2>3
<1>6. o # Nil => o \in Linked(os, o)
  <2>1. 0 \in 0..Links /\ w[0] = o
    BY <1>1, LinksType DEF IsWalk
  <2> QED BY <1>2, <2>1
<1> QED BY <1>4, <1>5, <1>6 DEF Closed

LEMMA LinkedLeast ==
    ASSUME NEW os \in Pool, NEW o \in Heads, NEW S, o \in S \cup {Nil}, Closed(os, S)
    PROVE  Linked(os, o) \subseteq S
<1>1. PICK w : w = After(os, o) /\ IsWalk(os, o, w, Links)
  BY AfterIsWalk
<1> DEFINE Outside == {n \in 0..Links : w[n] \notin S \cup {Nil}}
<1>2. Outside = {}
  <2> SUFFICES ASSUME Outside # {} PROVE FALSE
    OBVIOUS
  <2>1. PICK n \in Outside : \A m \in Outside : n <= m
    BY SmallestUpTo, LinksType
  <2>2. n # 0
    BY <1>1, <2>1 DEF IsWalk
  <2>3. n \in 1..Links /\ n - 1 \in 0..Links /\ n - 1 \notin Outside
    BY <2>1, <2>2, LinksType
  <2>4. w[n] = IF w[n - 1] = Nil THEN Nil ELSE os[w[n - 1]].next
    BY <1>1, <2>3 DEF IsWalk
  <2> QED BY <2>1, <2>3, <2>4 DEF Closed
<1> QED BY <1>1, <1>2 DEF Linked, Links

----------------------------------------------------------------------------
\* An operation at the end of a list.

\* The lists of blocks bs in pool os: of taken operations, and none in two of them.
InUse(bs) == {s \in Slot : bs[s].id # Free}
Sound(os, bs) ==
    /\ NoCircle(os)
    /\ \A s \in InUse(bs) : Linked(os, bs[s].ops) \subseteq Taken(os)
    /\ \A s, t \in InUse(bs) :
          s # t => Linked(os, bs[s].ops) \cap Linked(os, bs[t].ops) = {}

LEMMA LowestIsIn ==
    ASSUME NEW T \in SUBSET Nat, T # {}
    PROVE  Lowest(T) \in T
<1>1. PICK k \in T : TRUE
  OBVIOUS
<1> DEFINE R == {y \in T : y <= k}
<1>2. PICK x \in R : \A y \in R : x <= y
  <2>1. k \in Nat /\ k \in R
    BY <1>1
  <2>2. R \subseteq 0..k
    <3>1. \A y \in R : y \in Nat /\ y <= k
      OBVIOUS
    <3> HIDE DEF R
    <3> QED BY <2>1, <3>1
  <2> HIDE DEF R
  <2> QED BY <2>1, <2>2, SmallestUpTo
<1>3. \A m \in T : x <= m
  BY <1>1, <1>2
<1> QED BY <1>2, <1>3 DEF Lowest

\* Pool os2 is os with a new operation o at the end of the list L of head h.
LEMMA ListGrows ==
    ASSUME NEW os \in Pool, NEW os2 \in Pool, NEW h \in Heads, NEW h2 \in Heads,
           NEW L, L = Linked(os, h), L \subseteq Taken(os), NoCircle(os),
           NEW o \in Op, o \notin Taken(os),
           os2[o].next = Nil, os2[o].variable # Nil,
           \A x \in Op \ {o} :
              /\ os2[x].variable = os[x].variable
              /\ os2[x].next = os[x].next \/ (x \in L /\ os2[x].next = o),
           h2 = h \/ h2 = o
    PROVE  /\ NoCircle(os2)
           /\ Linked(os2, h2) \subseteq L \cup {o}
           /\ Taken(os2) = Taken(os) \cup {o}
           /\ \A g \in Heads :
                 Linked(os, g) \subseteq Taken(os) /\ Linked(os, g) \cap L = {}
                     => Linked(os2, g) \subseteq Linked(os, g)
<1>1. NoCircle(os2)
  <2> SUFFICES ASSUME NEW S \in SUBSET Op, S # {} PROVE \E x \in S : os2[x].next \notin S
    BY DEF NoCircle
  <2>1. CASE o \in S
    BY <2>1, PoolAssumption
  <2>2. CASE o \notin S
    <3>1. PICK x \in S : os[x].next \notin S
      BY DEF NoCircle
    <3> QED BY <2>2, <3>1
  <2> QED BY <2>1, <2>2
<1>2. h \in L \cup {Nil} /\ Closed(os, L) /\ L \subseteq Op
  BY LinkedClosed
<1>3. Closed(os2, L \cup {o})
  BY <1>2 DEF Closed
<1>4. Linked(os2, h2) \subseteq L \cup {o}
  BY <1>2, <1>3, LinkedLeast
<1>5. Taken(os2) = Taken(os) \cup {o}
  BY DEF Taken
<1>6. ASSUME NEW g \in Heads, Linked(os, g) \subseteq Taken(os), Linked(os, g) \cap L = {}
      PROVE  Linked(os2, g) \subseteq Linked(os, g)
  <2>1. g \in Linked(os, g) \cup {Nil} /\ Closed(os, Linked(os, g)) /\ Linked(os, g) \subseteq Op
    BY LinkedClosed
  <2>2. Closed(os2, Linked(os, g))
    BY <1>6, <2>1 DEF Closed
  <2> QED BY <2>1, <2>2, LinkedLeast
<1> QED BY <1>1, <1>4, <1>5, <1>6

\* The end of a list, where blockAppendOps stops.
LEMMA ListHasEnd ==
    ASSUME NEW os \in Pool, NoCircle(os), NEW h \in Op
    PROVE  LET last == CHOOSE n \in Linked(os, h) : os[n].next = Nil
           IN  last \in Linked(os, h)
<1>1. Linked(os, h) \subseteq Op /\ Closed(os, Linked(os, h)) /\ h \in Linked(os, h)
  BY LinkedClosed, PoolAssumption DEF Heads
<1>2. \E n \in Linked(os, h) : os[n].next \notin Linked(os, h)
  BY <1>1 DEF NoCircle
<1>3. \E n \in Linked(os, h) : os[n].next = Nil
  BY <1>1, <1>2 DEF Closed
<1> QED BY <1>3

Errors == {"E2BIG", "ENOMEM", "ENOENT"}
Lists == [ops : Pool, head : Heads, answer : {"ok", "hung"} \cup Errors]
\* What the loop keeps: types, and of a sound pool (b) that it is sound.
Appending(l, s, bs, b) ==
    /\ l \in Lists
    /\ b => Sound(l.ops, [bs EXCEPT ![s].ops = l.head])
Blocks == [Slot -> [id : Id \cup {Free}, ops : Heads]]

LEMMA AppendOpsType ==
    ASSUME NEW l \in Lists, NEW o \in Op, NEW v \in Known
    PROVE  BlockAppendOps(l, o, v) \in Lists
<1>1. PICK new \in Pool : new = [l.ops EXCEPT ![o] = [next |-> Nil, variable |-> v]]
  BY DEF Lists, Pool, Heads
<1>2. PICK last : last = CHOOSE n \in Linked(new, l.head) : new[n].next = Nil
  OBVIOUS
<1>3. BlockAppendOps(l, o, v) =
         IF l.head = Nil THEN [l EXCEPT !.head = o, !.ops = new]
         ELSE [l EXCEPT !.ops = [new EXCEPT ![last].next = o]]
  BY <1>1, <1>2 DEF BlockAppendOps
<1>4. PICK os : os = [new EXCEPT ![last].next = o]
  OBVIOUS
<1>5. os \in Pool
  <2>1. ASSUME NEW x \in Op PROVE os[x] \in [next : Heads, variable : Known \cup {Nil}]
    <3>1. new[x] \in [next : Heads, variable : Known \cup {Nil}] /\ o \in Heads
      BY <1>1 DEF Pool, Heads
    <3>2. os[x] = IF x = last THEN [new[x] EXCEPT !.next = o] ELSE new[x]
      BY <1>1, <1>4 DEF Pool
    <3> QED BY <3>1, <3>2
  <2>2. os = [x \in Op |-> os[x]]
    BY <1>1, <1>4 DEF Pool
  <2> QED BY <2>1, <2>2 DEF Pool
<1>6. [l EXCEPT !.head = o, !.ops = new] \in Lists /\ [l EXCEPT !.ops = os] \in Lists
  BY <1>1, <1>5 DEF Lists, Heads
<1> QED BY <1>3, <1>4, <1>6

LEMMA AppendOpsShape ==
    ASSUME NEW l \in Lists, NoCircle(l.ops), NEW o \in Op, NEW v \in Known,
           o \notin Taken(l.ops), Linked(l.ops, l.head) \subseteq Taken(l.ops),
           NEW m, m = BlockAppendOps(l, o, v)
    PROVE  /\ m \in Lists
           /\ m.head = l.head \/ m.head = o
           /\ m.ops[o].next = Nil /\ m.ops[o].variable # Nil
           /\ \A x \in Op \ {o} :
                 /\ m.ops[x].variable = l.ops[x].variable
                 /\ \/ m.ops[x].next = l.ops[x].next
                    \/ x \in Linked(l.ops, l.head) /\ m.ops[x].next = o
<1> DEFINE new == [l.ops EXCEPT ![o] = [next |-> Nil, variable |-> v]]
<1> DEFINE last == CHOOSE n \in Linked(new, l.head) : new[n].next = Nil
<1>1. new \in Pool /\ new[o] = [next |-> Nil, variable |-> v] /\ v # Nil
      /\ \A x \in Op \ {o} : new[x] = l.ops[x]
  BY PoolAssumption DEF Lists, Pool, Heads
<1>2. m = IF l.head = Nil THEN [l EXCEPT !.head = o, !.ops = new]
          ELSE [l EXCEPT !.ops = [new EXCEPT ![last].next = o]]
  BY DEF BlockAppendOps
<1>3. CASE l.head = Nil
  <2> HIDE DEF new
  <2>1. m.head = o /\ m.ops = new /\ m \in Lists
    BY <1>1, <1>2, <1>3 DEF Lists, Heads
  <2> QED BY <1>1, <2>1
<1>4. CASE l.head # Nil
  <2>1. last \in Linked(l.ops, l.head)
    <3>1. l.ops \in Pool /\ l.head \in Op /\ l.head \in Heads
      BY <1>4 DEF Lists, Heads
    <3>2. /\ Closed(l.ops, Linked(l.ops, l.head)) /\ l.head \in Linked(l.ops, l.head)
          /\ Linked(l.ops, l.head) \subseteq Op /\ o \notin Linked(l.ops, l.head)
      BY <1>4, <3>1, LinkedClosed
    <3> HIDE DEF new
    <3>3. Closed(new, Linked(l.ops, l.head))
      BY <1>1, <3>2 DEF Closed
    <3>4. Linked(new, l.head) \subseteq Linked(l.ops, l.head)
      BY <1>1, <3>1, <3>2, <3>3, LinkedLeast
    <3>5. ASSUME NEW S \in SUBSET Op, S # {} PROVE \E x \in S : new[x].next \notin S
      <4>1. CASE o \in S
        BY <1>1, <4>1, PoolAssumption
      <4>2. CASE o \notin S
        <5>1. PICK x \in S : l.ops[x].next \notin S
          BY <3>5 DEF NoCircle
        <5> QED BY <1>1, <4>2, <5>1
      <4> QED BY <4>1, <4>2
    <3>6. NoCircle(new)
      BY <3>5 DEF NoCircle
    <3>7. last \in Linked(new, l.head)
      BY <1>1, <3>1, <3>6, ListHasEnd
    <3> QED BY <3>4, <3>7
  <2> HIDE DEF last
  <2>2. last \in Op /\ last # o
    BY <2>1 DEF Taken
  <2> HIDE DEF new
  <2>3. PICK os \in Pool : os = [new EXCEPT ![last].next = o]
    BY <1>1, <2>2 DEF Pool, Heads
  <2>4. m.head = l.head /\ m.ops = os /\ m \in Lists
    BY <1>2, <1>4, <2>3 DEF Lists, Heads
  <2>5. os[o] = new[o] /\ \A x \in Op \ {o} :
           /\ os[x].variable = new[x].variable
           /\ os[x].next = new[x].next \/ (x = last /\ os[x].next = o)
    BY <1>1, <2>2, <2>3 DEF Pool
  <2> QED BY <1>1, <2>1, <2>4, <2>5
<1> QED BY <1>3, <1>4

LEMMA AppendOpsKeeps ==
    ASSUME NEW bs \in Blocks, NEW s \in Slot, bs[s].id # Free,
           NEW b \in BOOLEAN, NEW l, Appending(l, s, bs, b),
           NEW o \in Op, o \notin Taken(l.ops), NEW v \in Known
    PROVE  Appending(BlockAppendOps(l, o, v), s, bs, b)
<1> SUFFICES ASSUME b PROVE Appending(BlockAppendOps(l, o, v), s, bs, b)
  BY AppendOpsType DEF Appending
<1> DEFINE m == BlockAppendOps(l, o, v)
<1> DEFINE old == [bs EXCEPT ![s].ops = l.head]
<1> DEFINE new == [bs EXCEPT ![s].ops = m.head]
<1> DEFINE L == Linked(l.ops, l.head)
<1>1. l \in Lists /\ Sound(l.ops, old)
  BY DEF Appending
<1>2. /\ old[s].ops = l.head /\ new[s].ops = m.head
      /\ \A t \in Slot : t # s => old[t] = bs[t] /\ new[t] = bs[t]
      /\ InUse(old) = InUse(bs) /\ InUse(new) = InUse(bs) /\ s \in InUse(bs)
  BY DEF Blocks, InUse
<1> HIDE DEF old, new
<1>3. NoCircle(l.ops) /\ L \subseteq Taken(l.ops)
  BY <1>1, <1>2 DEF Sound
<1>4. /\ m \in Lists
      /\ m.head = l.head \/ m.head = o
      /\ m.ops[o].next = Nil /\ m.ops[o].variable # Nil
      /\ \A x \in Op \ {o} :
            /\ m.ops[x].variable = l.ops[x].variable
            /\ m.ops[x].next = l.ops[x].next \/ (x \in L /\ m.ops[x].next = o)
  BY <1>1, <1>3, AppendOpsShape
<1> HIDE DEF m
<1>5. l.ops \in Pool /\ m.ops \in Pool /\ l.head \in Heads /\ m.head \in Heads
  BY <1>1, <1>4 DEF Lists
<1>6. /\ NoCircle(m.ops)
      /\ Linked(m.ops, m.head) \subseteq L \cup {o}
      /\ Taken(m.ops) = Taken(l.ops) \cup {o}
      /\ \A g \in Heads :
            Linked(l.ops, g) \subseteq Taken(l.ops) /\ Linked(l.ops, g) \cap L = {}
                => Linked(m.ops, g) \subseteq Linked(l.ops, g)
  BY <1>3, <1>4, <1>5, ListGrows
<1>7. ASSUME NEW t \in InUse(bs), t # s
      PROVE  /\ Linked(l.ops, bs[t].ops) \subseteq Taken(l.ops)
             /\ Linked(l.ops, bs[t].ops) \cap L = {}
             /\ Linked(m.ops, bs[t].ops) \subseteq Linked(l.ops, bs[t].ops)
  <2>1. t \in Slot /\ bs[t].ops \in Heads /\ old[t] = bs[t]
    BY <1>2, <1>7 DEF InUse, Blocks
  <2>2. Linked(l.ops, bs[t].ops) \subseteq Taken(l.ops) /\ Linked(l.ops, bs[t].ops) \cap L = {}
    BY <1>1, <1>2, <1>7, <2>1 DEF Sound
  <2> QED BY <1>6, <2>1, <2>2
<1>8. ASSUME NEW t \in InUse(bs) PROVE Linked(m.ops, new[t].ops) \subseteq Taken(m.ops)
  <2>1. CASE t = s
    BY <1>2, <1>3, <1>6, <2>1
  <2>2. CASE t # s
    <3>1. new[t] = bs[t]
      BY <1>2, <1>8, <2>2 DEF InUse
    <3> QED BY <1>6, <1>7, <1>8, <2>2, <3>1
  <2> QED BY <2>1, <2>2
<1>9. ASSUME NEW t \in InUse(bs), NEW u \in InUse(bs), t # u
      PROVE  Linked(m.ops, new[t].ops) \cap Linked(m.ops, new[u].ops) = {}
  <2>1. \A x \in InUse(bs) : x # s => new[x] = bs[x] /\ old[x] = bs[x]
    BY <1>2 DEF InUse
  <2>2. CASE t = s
    BY <1>2, <1>6, <1>7, <1>9, <2>1, <2>2
  <2>3. CASE u = s
    BY <1>2, <1>6, <1>7, <1>9, <2>1, <2>3
  <2>4. CASE t # s /\ u # s
    <3>1. Linked(l.ops, bs[t].ops) \cap Linked(l.ops, bs[u].ops) = {}
      BY <1>1, <1>2, <1>9, <2>1, <2>4 DEF Sound
    <3> QED BY <1>7, <1>9, <2>1, <2>4, <3>1
  <2> QED BY <2>2, <2>3, <2>4
<1>10. Sound(m.ops, new)
  BY <1>2, <1>6, <1>8, <1>9 DEF Sound
<1> QED BY <1>4, <1>10 DEF Appending, m, new

\* The loop of logAppendBlock.
LEMMA AppendVariableKeeps ==
    ASSUME NEW bs \in Blocks, NEW s \in Slot, bs[s].id # Free,
           NEW b \in BOOLEAN, NEW l, Appending(l, s, bs, b), NEW v
    PROVE  Appending(AppendVariable(l, v), s, bs, b)
<1> DEFINE unused == {o \in Op : l.ops[o].variable = Nil}
<1>1. ASSUME NEW a \in {"hung"} \cup Errors
      PROVE  Appending([l EXCEPT !.answer = a], s, bs, b)
  BY DEF Appending, Lists
<1>2. ASSUME unused # {}, v \in Known
      PROVE  Appending(BlockAppendOps(l, Lowest(unused), v), s, bs, b)
  <2>1. Lowest(unused) \in unused
    BY <1>2, LowestIsIn, PoolAssumption
  <2>2. Lowest(unused) \in Op /\ Lowest(unused) \notin Taken(l.ops)
    BY <2>1 DEF Taken
  <2> HIDE DEF unused
  <2> QED BY <1>2, <2>2, AppendOpsKeeps
<1> HIDE DEF unused
<1>3. \/ AppendVariable(l, v) = l
      \/ \E a \in {"hung"} \cup Errors : AppendVariable(l, v) = [l EXCEPT !.answer = a]
      \/ unused # {} /\ v \in Known /\ AppendVariable(l, v) = BlockAppendOps(l, Lowest(unused), v)
  <2>1. AppendVariable(l, v) =
           IF l.answer # "ok" THEN l
           ELSE IF ~Terminated(l.ops, l.head) THEN [l EXCEPT !.answer = "hung"]
           ELSE IF BlockLength(l.ops, l.head) + TypeLength(v) > MaxLength
                THEN [l EXCEPT !.answer = "E2BIG"]
           ELSE IF unused = {} THEN [l EXCEPT !.answer = "ENOMEM"]
           ELSE IF v \notin Known THEN [l EXCEPT !.answer = "ENOENT"]
           ELSE BlockAppendOps(l, Lowest(unused), v)
    BY Zenon DEF AppendVariable, unused
  <2> QED BY <2>1, Zenon DEF Errors
<1> QED BY <1>1, <1>2, <1>3

IsTurn(l, list, t, k) ==
    t = [n \in 0..k |-> IF n = 0 THEN l ELSE AppendVariable(t[n - 1], list[n])]

LEMMA SomeTurn ==
    ASSUME NEW l, NEW list, NEW k \in Nat
    PROVE  \E t : IsTurn(l, list, t, k)
<1> DEFINE None == {n \in 0..k : ~ \E t : IsTurn(l, list, t, n)}
<1> SUFFICES ASSUME None # {} PROVE FALSE
  OBVIOUS
<1>1. PICK n \in None : \A m \in None : n <= m
  BY SmallestUpTo
<1>2. CASE n = 0
  <2> DEFINE t == [i \in 0..0 |-> l]
  <2>1. IsTurn(l, list, t, 0)
    BY DEF IsTurn
  <2> QED BY <1>1, <1>2, <2>1
<1>3. CASE n # 0
  <2>1. n - 1 \in 0..k /\ n \in Nat /\ n - 1 \notin None
    BY <1>1, <1>3
  <2>2. PICK t : IsTurn(l, list, t, n - 1)
    BY <2>1
  <2> DEFINE u == [i \in 0..n |-> IF i = n THEN AppendVariable(t[n - 1], list[n]) ELSE t[i]]
  <2>3. ASSUME NEW i \in 0..n
        PROVE  u[i] = IF i = 0 THEN l ELSE AppendVariable(u[i - 1], list[i])
    <3>1. i # 0 => i - 1 \in 0..n /\ i - 1 # n
      BY <2>1
    <3>2. i # 0 => u[i - 1] = t[i - 1]
      BY <3>1
    <3>3. CASE i = n
      BY <1>3, <3>2, <3>3
    <3>4. CASE i # n
      <4>1. i \in 0..(n - 1) /\ u[i] = t[i]
        BY <2>1, <3>4
      <4>2. t[i] = IF i = 0 THEN l ELSE AppendVariable(t[i - 1], list[i])
        BY <2>2, <4>1 DEF IsTurn
      <4> QED BY <3>2, <4>1, <4>2
    <3> QED BY <3>3, <3>4
  <2>4. u = [i \in 0..n |-> u[i]]
    OBVIOUS
  <2> HIDE DEF u
  <2>5. IsTurn(l, list, u, n)
    BY <2>3, <2>4 DEF IsTurn
  <2> QED BY <1>1, <2>5
<1> QED BY <1>2, <1>3

LEMMA AppendVariablesKeeps ==
    ASSUME NEW bs \in Blocks, NEW s \in Slot, bs[s].id # Free,
           NEW b \in BOOLEAN, NEW l, Appending(l, s, bs, b), NEW list, Len(list) \in Nat
    PROVE  Appending(AppendVariables(l, list), s, bs, b)
<1> DEFINE Is(t) == t = [n \in 0..Len(list) |->
                           IF n = 0 THEN l ELSE AppendVariable(t[n - 1], list[n])]
<1>1. PICK u : Is(u)
  <2>1. PICK u : IsTurn(l, list, u, Len(list))
    BY SomeTurn
  <2> QED BY <2>1, Zenon DEF IsTurn
<1>2. AppendVariables(l, list) = (CHOOSE t : Is(t))[Len(list)]
  BY Zenon DEF AppendVariables
<1> HIDE DEF Is
<1>3. PICK t : Is(t) /\ AppendVariables(l, list) = t[Len(list)]
  BY <1>1, <1>2
<1>4. PICK k \in Nat : k = Len(list)
  OBVIOUS
<1>5. t = [n \in 0..k |-> IF n = 0 THEN l ELSE AppendVariable(t[n - 1], list[n])]
  BY <1>3, <1>4 DEF Is
<1> DEFINE Lost == {n \in 0..k : ~Appending(t[n], s, bs, b)}
<1>6. Lost = {}
  <2> SUFFICES ASSUME Lost # {} PROVE FALSE
    OBVIOUS
  <2>1. PICK n \in Lost : \A m \in Lost : n <= m
    BY SmallestUpTo
  <2>2. n # 0
    BY <1>5, <2>1
  <2>3. n \in 0..k /\ n - 1 \in 0..k /\ n - 1 \notin Lost
    BY <2>1, <2>2
  <2>4. t[n] = AppendVariable(t[n - 1], list[n])
    BY <1>5, <2>2, <2>3
  <2>5. Appending(t[n - 1], s, bs, b)
    BY <2>3
  <2> QED BY <2>1, <2>4, <2>5, AppendVariableKeeps
<1>7. Appending(t[k], s, bs, b)
  BY <1>6
<1> QED BY <1>3, <1>4, <1>7

----------------------------------------------------------------------------
\* What every step keeps.

Orders == [slot : Slot, what : {"start", "stop", "delete"}]
Works == Slot \cup {Storing}
Answered(h) == \E a : h = [doing |-> "answer", answer |-> a]

PoolTyped == blocks \in Blocks /\ ops \in Pool
PoolInv == PoolTyped /\ Sound(ops, blocks)
HandlerInv == handler = Idle \/ Answered(handler) \/ IsCommand(handler)
QueuesInv ==
    /\ commands \in Seq(Orders) /\ Len(commands) <= TimerQueueLength
    /\ queue \in Seq(Works) /\ Len(queue) <= WorkerQueueLength
    /\ active \subseteq Slot
    /\ connected \in BOOLEAN /\ full \in BOOLEAN /\ entered \in BOOLEAN
WorkerInv ==
    worker.doing = "reset" =>
        \E at \in {"next", "stop", "delete"}, s \in Nat :
            worker = Resetting(at, s) /\ (at # "next" => s \in Slot)
\* Until a command is taken in the middle of it, a worker's reset has the pool for itself.
Undisturbed ==
    ~entered =>
        /\ NoCircle(ops)
        /\ worker.doing = "reset" => handler = Idle
        /\ worker.doing # "reset" => Sound(ops, blocks)
LogInv == PoolTyped /\ HandlerInv /\ QueuesInv /\ WorkerInv /\ Undisturbed

LEMMA HandledCommand ==
    ASSUME HandlerInv
    PROVE  /\ handler.doing \in {"create", "append"}
                => \E what \in {"create", "append"}, i \in Id :
                      handler = Listed(what, i, handler.list) /\ IsList(handler.list)
           /\ handler.doing \in {"delete", "start", "single", "stop"} => handler.id \in Id
BY DEF HandlerInv, Answered, IsCommand, Idle, Listed, For, ResetAll

LEMMA FoundSlot ==
    ASSUME NEW i \in Id \cup {Free}, Has(i) # {}
    PROVE  /\ Find(i) \in Slot /\ blocks[Find(i)].id = i
           /\ i # Free => Find(i) \in InUse(blocks)
<1>1. Has(i) \in SUBSET Nat
  BY PoolAssumption DEF Has
<1>2. Find(i) \in Has(i)
  BY <1>1, LowestIsIn DEF Find
<1> QED BY <1>2 DEF Has, InUse

LEMMA IdsInUse == \A i \in Id : i # Free
BY PoolAssumption

LEMMA EmptyList == ASSUME NEW os \in Pool PROVE Linked(os, Nil) = {}
<1>1. Closed(os, {})
  BY DEF Closed
<1> QED BY <1>1, LinkedLeast DEF Heads

\* What is linked depends on the links alone.
LEMMA SameLinks ==
    ASSUME NEW os \in Pool, NoCircle(os), NEW os2 \in Pool,
           \A o \in Op : os2[o].next = os[o].next
    PROVE  /\ NoCircle(os2)
           /\ \A g \in Heads : Linked(os2, g) \subseteq Linked(os, g)
<1>1. NoCircle(os2)
  BY DEF NoCircle
<1>2. ASSUME NEW g \in Heads PROVE Linked(os2, g) \subseteq Linked(os, g)
  <2>1. Linked(os, g) \subseteq Op /\ Closed(os, Linked(os, g)) /\ g \in Linked(os, g) \cup {Nil}
    BY LinkedClosed
  <2>2. Closed(os2, Linked(os, g))
    BY <2>1 DEF Closed
  <2> QED BY <2>1, <2>2, LinkedLeast
<1> QED BY <1>1, <1>2

LEMMA Freed ==
    ASSUME NEW os \in Pool, NEW os1 \in SUBSET Op, NEW os2, os2 = FreeOps(os, os1)
    PROVE  /\ os2 \in Pool
           /\ \A o \in Op : os2[o].next = os[o].next
           /\ Taken(os2) = Taken(os) \ os1
<1>1. ASSUME NEW o \in Op
      PROVE  /\ os2[o] \in [next : Heads, variable : Known \cup {Nil}]
             /\ os2[o].next = os[o].next
             /\ os2[o].variable = IF o \in os1 THEN Nil ELSE os[o].variable
  BY DEF FreeOps, Pool
<1>2. os2 = [o \in Op |-> os2[o]]
  BY DEF FreeOps
<1>3. os2 \in Pool
  BY <1>1, <1>2 DEF Pool
<1>4. Taken(os2) = Taken(os) \ os1
  BY <1>1 DEF Taken
<1> QED BY <1>1, <1>3, <1>4

LEMMA CreatePool ==
    ASSUME PoolTyped, HandlerInv, Create
    PROVE  PoolTyped' /\ (Sound(ops, blocks) => Sound(ops', blocks'))
<1>0. ops' = ops
  BY DEF Create
<1>1. CASE UNCHANGED blocks
  BY <1>0, <1>1 DEF PoolTyped
<1>2. CASE Has(Free) # {} /\ blocks' = [blocks EXCEPT ![Lowest(Has(Free))] =
                                          [id |-> handler.id, ops |-> Nil]]
  <2>1. PICK s \in Slot : s = Lowest(Has(Free)) /\ blocks[s].id = Free
    BY <1>2, FoundSlot DEF Find
  <2>2. handler.doing = "create"
    BY DEF Create, Handling
  <2>3. handler.id \in Id
    BY <2>2, HandledCommand DEF Listed
  <2>4. blocks' \in Blocks /\ blocks'[s] = [id |-> handler.id, ops |-> Nil]
        /\ \A t \in Slot : t # s => blocks'[t] = blocks[t]
    BY <1>2, <2>1, <2>3 DEF PoolTyped, Blocks, Heads
  <2>5. Linked(ops, blocks'[s].ops) = {}
    BY <2>4, EmptyList DEF PoolTyped
  <2>6. \A t \in InUse(blocks') : t # s => t \in InUse(blocks) /\ blocks'[t] = blocks[t]
    BY <2>4 DEF InUse
  <2>7. ASSUME Sound(ops, blocks) PROVE Sound(ops, blocks')
    <3>1. ASSUME NEW t \in InUse(blocks') PROVE Linked(ops, blocks'[t].ops) \subseteq Taken(ops)
      BY <2>5, <2>6, <2>7, <3>1 DEF Sound
    <3>2. ASSUME NEW t \in InUse(blocks'), NEW u \in InUse(blocks'), t # u
          PROVE  Linked(ops, blocks'[t].ops) \cap Linked(ops, blocks'[u].ops) = {}
      BY <2>5, <2>6, <2>7, <3>2 DEF Sound
    <3> QED BY <2>7, <3>1, <3>2 DEF Sound
  <2> QED BY <1>0, <2>4, <2>7 DEF PoolTyped
<1> QED BY <1>1, <1>2 DEF Create

LEMMA AppendPool ==
    ASSUME PoolTyped, HandlerInv, AppendBlock
    PROVE  PoolTyped' /\ (Sound(ops, blocks) => Sound(ops', blocks'))
<1>1. handler.doing = "append" /\ Has(handler.id) # {}
  BY DEF AppendBlock, Handling
<1>2. handler.id \in Id /\ Len(handler.list) \in Nat
  <2>1. PICK what \in {"create", "append"}, i \in Id :
           handler = Listed(what, i, handler.list) /\ IsList(handler.list)
    BY <1>1, HandledCommand
  <2>2. handler.id = i
    BY <2>1 DEF Listed
  <2>3. Len(handler.list) \in Nat
    BY <2>1 DEF IsList
  <2> QED BY <2>2, <2>3
<1>3. PICK s \in Slot : s = Find(handler.id) /\ blocks[s].id # Free
  BY <1>1, <1>2, FoundSlot, IdsInUse
<1> DEFINE l == [ops |-> ops, head |-> blocks[s].ops, answer |-> "ok"]
<1> DEFINE m == AppendVariables(l, handler.list)
<1>4. PICK b \in BOOLEAN : b <=> Sound(ops, blocks)
  OBVIOUS
<1>5. Appending(l, s, blocks, b)
  <2>1. l \in Lists /\ [blocks EXCEPT ![s].ops = l.head] = blocks
    BY DEF PoolTyped, Lists, Blocks
  <2> QED BY <1>4, <2>1 DEF Appending
<1>6. ops' = m.ops /\ blocks' = [blocks EXCEPT ![s].ops = m.head]
  BY <1>3 DEF AppendBlock
<1> HIDE DEF l
<1>7. Appending(m, s, blocks, b)
  BY <1>2, <1>3, <1>5, AppendVariablesKeeps DEF PoolTyped
<1> HIDE DEF m
<1>8. blocks' \in Blocks
  BY <1>6, <1>7 DEF PoolTyped, Blocks, Appending, Lists
<1> QED BY <1>4, <1>6, <1>7, <1>8 DEF PoolTyped, Appending, Lists

LEMMA ListType0 ==
    ASSUME NEW os \in Pool, NEW o \in Heads
    PROVE  Linked(os, o) \in SUBSET Op
<1>1. PICK w : w = After(os, o) /\ IsWalk(os, o, w, Links)
  BY AfterIsWalk
<1>2. Linked(os, o) = {w[n] : n \in 0..Links} \ {Nil}
  BY <1>1 DEF Linked, Links
<1> QED BY <1>1, <1>2 DEF IsWalk, Heads

\* A list that is given back, whether its block is free already or only later.
LEMMA FreedPool ==
    ASSUME PoolTyped, NEW s \in Slot, ops' = FreeOps(ops, OpsOf(s))
    PROVE  /\ ops' \in Pool /\ Taken(ops') = Taken(ops) \ OpsOf(s)
           /\ NoCircle(ops) =>
                 NoCircle(ops') /\ \A g \in Heads : Linked(ops', g) \subseteq Linked(ops, g)
<1>1. blocks[s].ops \in Heads /\ ops \in Pool
  BY DEF PoolTyped, Blocks
<1>2. OpsOf(s) \in SUBSET Op
  BY <1>1, ListType0 DEF OpsOf
<1>3. /\ ops' \in Pool
      /\ \A o \in Op : ops'[o].next = ops[o].next
      /\ Taken(ops') = Taken(ops) \ OpsOf(s)
  BY <1>1, <1>2, Freed
<1>4. NoCircle(ops) =>
         NoCircle(ops') /\ \A g \in Heads : Linked(ops', g) \subseteq Linked(ops, g)
  BY <1>1, <1>3, SameLinks
<1> QED BY <1>3, <1>4

LEMMA DeletePool ==
    ASSUME PoolTyped, HandlerInv, Delete
    PROVE  /\ PoolTyped'
           /\ Sound(ops, blocks) /\ blocks' # blocks => Sound(ops', blocks')
<1>1. handler.doing = "delete" /\ Has(handler.id) # {}
  BY DEF Delete, Handling
<1>2. handler.id \in Id
  BY <1>1, HandledCommand
<1>3. PICK s \in Slot : s = Find(handler.id) /\ s \in InUse(blocks)
  BY <1>1, <1>2, FoundSlot, IdsInUse
<1>4. /\ ops' = FreeOps(ops, OpsOf(s))
      /\ blocks' = [blocks EXCEPT ![s].id = Free] \/ blocks' = blocks
  BY <1>3 DEF Delete
<1>5. ops' \in Pool /\ Taken(ops') = Taken(ops) \ OpsOf(s)
  BY <1>4, FreedPool
<1>6. blocks' \in Blocks
  BY <1>4 DEF PoolTyped, Blocks
<1>7. ASSUME Sound(ops, blocks), blocks' # blocks PROVE Sound(ops', blocks')
  <2>1. NoCircle(ops') /\ \A g \in Heads : Linked(ops', g) \subseteq Linked(ops, g)
    BY <1>4, <1>7, FreedPool DEF Sound
  <2>2. \A t \in InUse(blocks') :
           t \in InUse(blocks) /\ t # s /\ blocks'[t] = blocks[t] /\ blocks[t].ops \in Heads
    BY <1>4, <1>7 DEF PoolTyped, Blocks, InUse
  <2>3. ASSUME NEW t \in InUse(blocks') PROVE Linked(ops', blocks'[t].ops) \subseteq Taken(ops')
    <3>1. /\ Linked(ops, blocks[t].ops) \subseteq Taken(ops)
          /\ Linked(ops, blocks[t].ops) \cap OpsOf(s) = {}
      BY <1>3, <1>7, <2>2 DEF Sound, OpsOf
    <3>2. Linked(ops', blocks'[t].ops) \subseteq Linked(ops, blocks[t].ops)
      BY <2>1, <2>2
    <3> QED BY <1>5, <3>1, <3>2
  <2>4. ASSUME NEW t \in InUse(blocks'), NEW u \in InUse(blocks'), t # u
        PROVE  Linked(ops', blocks'[t].ops) \cap Linked(ops', blocks'[u].ops) = {}
    <3>1. Linked(ops, blocks[t].ops) \cap Linked(ops, blocks[u].ops) = {}
      BY <1>7, <2>2, <2>4 DEF Sound
    <3>2. /\ Linked(ops', blocks'[t].ops) \subseteq Linked(ops, blocks[t].ops)
          /\ Linked(ops', blocks'[u].ops) \subseteq Linked(ops, blocks[u].ops)
      BY <2>1, <2>2
    <3> QED BY <3>1, <3>2
  <2> QED BY <2>1, <2>3, <2>4 DEF Sound
<1> QED BY <1>5, <1>6, <1>7 DEF PoolTyped

\* In a sound pool a list that is to be deleted ends.
LEMMA SoundTerminates ==
    ASSUME PoolTyped, NoCircle(ops), NEW o \in Heads
    PROVE  Terminated(ops, o)
<1>1. ops \in Pool
  BY DEF PoolTyped
<1>2. IsWalk(ops, o, After(ops, o), Links)
  BY <1>1, AfterIsWalk
<1> QED BY <1>1, <1>2, WalkEnds DEF Links, Terminated

LEMMA DeleteEnds ==
    ASSUME PoolTyped, HandlerInv, NoCircle(ops), Delete
    PROVE  blocks' # blocks /\ Answer("ok") /\ blocks' = [blocks EXCEPT ![Find(handler.id)].id = Free]
<1>1. handler.doing = "delete" /\ Has(handler.id) # {}
  BY DEF Delete, Handling
<1>2. handler.id \in Id
  BY <1>1, HandledCommand
<1>3. PICK s \in Slot : s = Find(handler.id) /\ s \in InUse(blocks)
  BY <1>1, <1>2, FoundSlot, IdsInUse
<1>4. blocks[s].ops \in Heads
  BY DEF PoolTyped, Blocks
<1>5. Terminated(ops, blocks[s].ops)
  BY <1>4, SoundTerminates
<1>6. blocks' = [blocks EXCEPT ![s].id = Free] /\ Answer("ok")
  BY <1>3, <1>5 DEF Delete
<1>7. blocks'[s].id = Free /\ blocks[s].id # Free
  BY <1>3, <1>6 DEF PoolTyped, Blocks, InUse
<1> QED BY <1>3, <1>6, <1>7

\* Once every block is given back, no list is left that could be wrong.
LEMMA ResetPool ==
    ASSUME PoolTyped,
           ops' = FreeOps(ops, Op), blocks' = [s \in Slot |-> [blocks[s] EXCEPT !.id = Free]]
    PROVE  PoolTyped' /\ (NoCircle(ops) => Sound(ops', blocks'))
<1>1. /\ ops' \in Pool
      /\ \A o \in Op : ops'[o].next = ops[o].next
  BY Freed DEF PoolTyped
<1>2. NoCircle(ops) => NoCircle(ops')
  BY <1>1, SameLinks DEF PoolTyped
<1>3. blocks' \in Blocks /\ InUse(blocks') = {}
  BY DEF PoolTyped, Blocks, InUse
<1> QED BY <1>1, <1>2, <1>3 DEF PoolTyped, Sound

LEMMA InitPool == Init => PoolInv
<1> SUFFICES ASSUME Init PROVE PoolInv
  OBVIOUS
<1>1. blocks \in Blocks /\ ops \in Pool /\ InUse(blocks) = {}
  BY DEF Init, Blocks, Pool, Heads, InUse
<1>2. NoCircle(ops)
  <2>1. \A o \in Op : ops[o].next = Nil
    BY DEF Init
  <2>2. ASSUME NEW S \in SUBSET Op, NEW o \in S PROVE ops[o].next \notin S
    BY <2>1, PoolAssumption
  <2> QED BY <2>2 DEF NoCircle
<1> QED BY <1>1, <1>2 DEF PoolInv, PoolTyped, Sound

\* The steps that change neither blocks nor pool.
Elsewhere ==
    \/ \E command \in Requests : Take(command)
    \/ NotFound \/ Start \/ Single \/ Stop \/ Give
    \/ \E s \in Slot : Fire(s)
    \/ ReadCommand \/ Receive \/ Resume \/ Stored \/ Persist \/ Link \/ Fill
    \/ UNCHANGED vars

LEMMA AnyStep ==
    ASSUME [Next]_vars
    PROVE  \/ Create \/ AppendBlock \/ Delete \/ Reset
           \/ ResetNext \/ ResetStop \/ ResetDelete \/ Elsewhere
BY DEF Next, Serve, Own, Handle, WorkerStep, Elsewhere

LEMMA ElsewhereKeeps == ASSUME Elsewhere PROVE UNCHANGED <<blocks, ops>>
BY DEF Elsewhere, Take, NotFound, Start, Single, Stop, Give, Fire, ReadCommand, Receive, Resume,
       LogRunBlock, Stored, Persist, Link, Fill, vars

\* Where the worker's reset is.
LEMMA ResetAt ==
    ASSUME WorkerInv, NEW at, InReset(at)
    PROVE  /\ worker.slot \in Nat
           /\ at # "next" => worker.slot \in Slot
           /\ \E s \in Nat : worker = Resetting(at, s)
<1>1. PICK a \in {"next", "stop", "delete"}, s \in Nat :
         worker = Resetting(a, s) /\ (a # "next" => s \in Slot)
  BY DEF InReset, WorkerInv
<1>2. worker.slot = s /\ worker.at = a
  BY <1>1 DEF Resetting
<1> QED BY <1>1, <1>2 DEF InReset

LEMMA StepPool ==
    ASSUME PoolTyped, HandlerInv, WorkerInv, [Next]_vars
    PROVE  PoolTyped'
<1>1. CASE Elsewhere
  BY <1>1, ElsewhereKeeps DEF PoolTyped
<1>2. CASE Reset
  BY <1>2, ResetPool DEF Reset, LogReset
<1>3. CASE Create
  BY <1>3, CreatePool
<1>4. CASE AppendBlock
  BY <1>4, AppendPool
<1>5. CASE Delete
  BY <1>5, DeletePool
<1>6. CASE ResetNext
  <2>1. CASE UNCHANGED <<blocks, ops>>
    BY <2>1 DEF PoolTyped
  <2>2. CASE /\ ops' = FreeOps(ops, Op)
             /\ blocks' = [s \in Slot |-> [blocks[s] EXCEPT !.id = Free]]
    BY <2>2, ResetPool
  <2> QED BY <1>6, <2>1, <2>2 DEF ResetNext
<1>7. CASE ResetStop
  <2>1. worker.slot \in Slot /\ ops' = FreeOps(ops, OpsOf(worker.slot)) /\ blocks' = blocks
    BY <1>7, ResetAt DEF ResetStop
  <2> QED BY <2>1, FreedPool DEF PoolTyped
<1>8. CASE ResetDelete
  <2>1. worker.slot \in Slot /\ ops' = ops /\ blocks' = [blocks EXCEPT ![worker.slot].id = Free]
    BY <1>8, ResetAt DEF ResetDelete
  <2> QED BY <2>1 DEF PoolTyped, Blocks
<1> QED BY <1>1, <1>2, <1>3, <1>4, <1>5, <1>6, <1>7, <1>8, AnyStep

\* The command in hand is the client's, or has been answered.
LEMMA CreateHandler ==
    ASSUME HandlerInv, Create
    PROVE  HandlerInv'
<1>1. PICK what \in {"create", "append"}, i \in Id :
         handler = Listed(what, i, handler.list) /\ IsList(handler.list)
  BY HandledCommand DEF Create, Handling
<1>2. CASE \E a : Answer(a)
  BY <1>2 DEF Answer, HandlerInv, Answered
<1>3. CASE handler' = [handler EXCEPT !.doing = "append"]
  <2>1. PICK list : list = handler.list /\ handler = Listed(what, i, list) /\ IsList(list)
    BY <1>1
  <2>2. handler' = Listed("append", i, list) /\ handler'.list = list
    BY <1>3, <2>1 DEF Listed
  <2> QED BY <2>1, <2>2 DEF HandlerInv, IsCommand
<1> QED BY <1>2, <1>3 DEF Create

LEMMA StepHandler ==
    ASSUME HandlerInv, [Next]_vars
    PROVE  HandlerInv'
<1>1. CASE Create
  BY <1>1, CreateHandler
<1>2. ASSUME NEW command \in Requests, Take(command) PROVE HandlerInv'
  BY <1>2, PoolAssumption DEF Take, HandlerInv
<1>3. CASE \E a : Answer(a)
  BY <1>3 DEF Answer, HandlerInv, Answered
<1>4. CASE Give
  BY <1>4 DEF Give, HandlerInv
<1>5. CASE UNCHANGED handler
  BY <1>5 DEF HandlerInv, Answered, IsCommand
<1>6. ASSUME NotFound \/ AppendBlock \/ Delete \/ Start \/ Single \/ Stop \/ Reset
      PROVE  \E a : Answer(a)
  BY <1>6 DEF NotFound, AppendBlock, Delete, Start, Single, Stop, Reset
<1>7. ASSUME \/ \E s \in Slot : Fire(s)
             \/ ReadCommand \/ WorkerStep \/ Persist \/ Link \/ Fill \/ UNCHANGED vars
      PROVE  UNCHANGED handler
  BY <1>7 DEF Fire, ReadCommand, WorkerStep, Receive, Resume, Stored, ResetNext, ResetStop,
              ResetDelete, ResetOnly, LogRunBlock, Persist, Link, Fill, vars
<1>8. \/ Create
      \/ \E command \in Requests : Take(command)
      \/ NotFound \/ AppendBlock \/ Delete \/ Start \/ Single \/ Stop \/ Reset
      \/ Give
      \/ \E s \in Slot : Fire(s)
      \/ ReadCommand \/ WorkerStep \/ Persist \/ Link \/ Fill \/ UNCHANGED vars
  BY DEF Next, Serve, Own, Handle
<1> QED BY <1>1, <1>2, <1>3, <1>4, <1>5, <1>6, <1>7, <1>8

----------------------------------------------------------------------------
\* The queues of the timer task and of the worker.
LEMMA OrderSequence ==
    ASSUME NEW S, IsFiniteSet(S)
    PROVE  SetToSeq(S) \in Seq(S)
<1>1. PICK n \in Nat : ExistsBijection(1..n, S) /\ n = Cardinality(S)
  BY FS_NatBijection, FS_CountingElements
<1>2. PICK f \in [1..n -> S] : IsInjective(f)
  BY <1>1 DEF ExistsBijection, Bijection, Injection, IsInjective
<1>3. SetToSeq(S) \in [1..n -> S]
  BY <1>1, <1>2 DEF SetToSeq
<1> QED BY <1>3

LEMMA TellQueue ==
    ASSUME QueuesInv, NEW new \in Seq(Orders), Tell(new)
    PROVE  commands' \in Seq(Orders) /\ Len(commands') <= TimerQueueLength
<1>1. commands' = commands \o new /\ Len(commands) + Len(new) <= TimerQueueLength
  BY DEF Tell, HasRoom
<1>2. commands \o new \in Seq(Orders) /\ Len(commands \o new) = Len(commands) + Len(new)
  BY DEF QueuesInv
<1> QED BY <1>1, <1>2

LEMMA ScheduleQueue ==
    ASSUME QueuesInv, NEW work \in Works, Schedule(work)
    PROVE  queue' \in Seq(Works) /\ Len(queue') <= WorkerQueueLength
<1>1. CASE Len(queue) < WorkerQueueLength
  <2>1. /\ Append(queue, work) \in Seq(Works)
        /\ Len(Append(queue, work)) = Len(queue) + 1 /\ Len(queue) \in Nat
    BY DEF QueuesInv
  <2>2. queue' = Append(queue, work)
    BY <1>1 DEF Schedule
  <2> QED BY <1>1, <2>1, <2>2, PoolAssumption
<1>2. CASE ~(Len(queue) < WorkerQueueLength)
  BY <1>2 DEF Schedule, QueuesInv
<1> QED BY <1>1, <1>2

LEMMA ResetQueue ==
    ASSUME QueuesInv, LogReset
    PROVE  commands' \in Seq(Orders) /\ Len(commands') <= TimerQueueLength
<1> DEFINE S == {Command(s, "delete") : s \in Used}
<1>1. IsFiniteSet(S)
  <2>1. IsFiniteSet(Used)
    <3>1. Used \subseteq Slot /\ IsFiniteSet(Slot)
      BY PoolAssumption DEF Used
    <3> QED BY <3>1, FS_Subset
  <2>2. [s \in Used |-> Command(s, "delete")] \in Surjection(Used, S)
    BY DEF Surjection
  <2> QED BY <2>1, <2>2, FS_Surjection
<1>2. S \subseteq Orders
  BY DEF Command, Orders, Used
<1>3. Tell(SetToSeq(S))
  BY DEF LogReset
<1> HIDE DEF S
<1>4. SetToSeq(S) \in Seq(S)
  BY <1>1, OrderSequence
<1>5. SetToSeq(S) \in Seq(Orders)
  BY <1>2, <1>4
<1> QED BY <1>3, <1>5, TellQueue

LEMMA InitQueues == Init => QueuesInv
<1> SUFFICES ASSUME Init PROVE QueuesInv
  OBVIOUS
<1>1. commands = <<>> /\ queue = <<>> /\ active = {}
  BY DEF Init
<1>2. commands \in Seq(Orders) /\ queue \in Seq(Works) /\ Len(commands) = 0 /\ Len(queue) = 0
  BY <1>1
<1>3. connected \in BOOLEAN /\ full \in BOOLEAN /\ entered \in BOOLEAN
  BY DEF Init
<1> QED BY <1>1, <1>2, <1>3, PoolAssumption DEF QueuesInv

LEMMA StepQueues ==
    ASSUME QueuesInv, HandlerInv, WorkerInv, [Next]_vars
    PROVE  QueuesInv'
<1> DEFINE InOrder(c) == c \in Seq(Orders) /\ Len(c) <= TimerQueueLength
<1> DEFINE InWork(q) == q \in Seq(Works) /\ Len(q) <= WorkerQueueLength
<1> DEFINE InLink(c, f, e) == c \in BOOLEAN /\ f \in BOOLEAN /\ e \in BOOLEAN
<1>1. InOrder(commands) /\ InWork(queue) /\ active \subseteq Slot /\ InLink(connected, full, entered)
  BY DEF QueuesInv
<1>2. ASSUME handler.doing \in {"delete", "start", "single", "stop"}, Has(handler.id) # {}
      PROVE  Find(handler.id) \in Slot
  BY <1>2, HandledCommand, FoundSlot
<1>3. ASSUME NEW what \in {"start", "stop", "delete"}, NEW s \in Slot, Tell(<<Command(s, what)>>)
      PROVE  InOrder(commands')
  <2>1. Command(s, what) \in Orders
    BY DEF Command, Orders
  <2>2. <<Command(s, what)>> \in Seq(Orders)
    BY <2>1
  <2> QED BY <1>3, <2>2, TellQueue
<1>4. CASE Delete \/ Start \/ Stop
  <2>1. InOrder(commands')
    <3>1. CASE Delete
      <4>1. Find(handler.id) \in Slot
        BY <1>2, <3>1 DEF Delete, Handling
      <4>2. Tell(<<Command(Find(handler.id), "delete")>>) \/ UNCHANGED commands
        BY <3>1 DEF Delete
      <4> QED BY <1>1, <1>3, <4>1, <4>2
    <3>2. CASE Start
      BY <1>2, <1>3, <3>2 DEF Start, Handling
    <3>3. CASE Stop
      BY <1>2, <1>3, <3>3 DEF Stop, Handling
    <3> QED BY <1>4, <3>1, <3>2, <3>3
  <2>2. UNCHANGED <<queue, active, link, entered>>
    BY <1>4 DEF Delete, Start, Stop, Handling
  <2> QED BY <1>1, <2>1, <2>2 DEF QueuesInv, link
<1>5. CASE Single
  <2>1. Find(handler.id) \in Slot /\ Schedule(Find(handler.id))
    BY <1>2, <1>5 DEF Single, Handling
  <2>2. InWork(queue')
    BY <2>1, ScheduleQueue DEF Works
  <2> QED BY <1>1, <1>5, <2>2 DEF QueuesInv, Single, Handling, link
<1>6. CASE Reset
  <2>1. InOrder(commands')
    BY <1>6, ResetQueue DEF Reset
  <2>2. UNCHANGED <<queue, active, link, entered>>
    BY <1>6 DEF Reset, Handling
  <2> QED BY <1>1, <2>1, <2>2 DEF QueuesInv, link
<1>7. ASSUME NEW s \in Slot, Fire(s) PROVE QueuesInv'
  <2>1. InWork(queue')
    BY <1>7, ScheduleQueue DEF Fire, Works
  <2> QED BY <1>1, <1>7, <2>1 DEF QueuesInv, Fire, link
<1>8. CASE Persist
  <2>1. InWork(queue')
    BY <1>8, ScheduleQueue DEF Persist, Works
  <2> QED BY <1>1, <1>8, <2>1 DEF QueuesInv, Persist, link
<1>9. CASE ReadCommand
  <2>1. Head(commands).slot \in Slot
    <3>1. Head(commands) \in Orders
      BY <1>1, <1>9 DEF ReadCommand
    <3>2. \A c \in Orders : c.slot \in Slot
      BY DEF Orders
    <3> QED BY <3>1, <3>2
  <2>2. active' \subseteq Slot
    BY <1>1, <1>9, <2>1 DEF ReadCommand
  <2>3. Tail(commands) \in Seq(Orders) /\ Len(Tail(commands)) = Len(commands) - 1
        /\ Len(commands) \in Nat
    BY <1>1, <1>9 DEF ReadCommand
  <2>4. InOrder(commands')
    BY <1>1, <1>9, <2>3, PoolAssumption DEF ReadCommand
  <2> QED BY <1>1, <1>9, <2>2, <2>4 DEF QueuesInv, ReadCommand, link
<1>10. CASE Receive
  <2>1. Tail(queue) \in Seq(Works) /\ Len(Tail(queue)) = Len(queue) - 1 /\ Len(queue) \in Nat
    BY <1>1, <1>10 DEF Receive
  <2>2. InWork(queue')
    BY <1>1, <1>10, <2>1, PoolAssumption DEF Receive
  <2>3. UNCHANGED <<active, commands, link, entered>>
    BY <1>10 DEF Receive, LogRunBlock
  <2> QED BY <1>1, <2>2, <2>3 DEF QueuesInv, link
<1>11. CASE Link \/ Fill
  BY <1>1, <1>11 DEF QueuesInv, Link, Fill
<1>12. ASSUME \/ \E command \in Requests : Take(command)
              \/ Create \/ NotFound \/ AppendBlock \/ Give \/ Resume \/ Stored \/ UNCHANGED vars
       PROVE  UNCHANGED <<commands, queue, active, link>> /\ entered' \in BOOLEAN
  BY <1>1, <1>12 DEF Take, Create, NotFound, AppendBlock, Give, Handling, Resume, LogRunBlock,
               Stored, vars
<1>13. CASE UNCHANGED <<commands, queue, active, link>> /\ entered' \in BOOLEAN
  BY <1>1, <1>13 DEF QueuesInv, link
<1>14. CASE ResetNext
  BY <1>1, <1>14 DEF QueuesInv, ResetNext, ResetOnly
<1>15. CASE ResetStop \/ ResetDelete
  <2>1. worker.slot \in Slot
    BY <1>15, ResetAt DEF ResetStop, ResetDelete
  <2>2. InOrder(commands')
    BY <1>3, <1>15, <2>1 DEF ResetStop, ResetDelete
  <2>3. UNCHANGED <<queue, active, link, entered>>
    BY <1>15 DEF ResetStop, ResetDelete, ResetOnly, link
  <2> QED BY <1>1, <2>2, <2>3 DEF QueuesInv, link
<1>16. \/ Delete \/ Start \/ Stop \/ Single \/ Reset \/ ResetNext \/ ResetStop \/ ResetDelete
       \/ \E s \in Slot : Fire(s)
       \/ Persist \/ ReadCommand \/ Receive \/ Link \/ Fill
       \/ \E command \in Requests : Take(command)
       \/ Create \/ NotFound \/ AppendBlock \/ Give \/ Resume \/ Stored \/ UNCHANGED vars
  BY DEF Next, Serve, Own, Handle, WorkerStep
<1> QED BY <1>4, <1>5, <1>6, <1>7, <1>8, <1>9, <1>10, <1>11, <1>12, <1>13, <1>14, <1>15, <1>16

----------------------------------------------------------------------------
\* The worker and its reset.
LEMMA StepWorker ==
    ASSUME WorkerInv, [Next]_vars
    PROVE  WorkerInv'
<1>1. CASE worker'.doing # "reset"
  BY <1>1 DEF WorkerInv
<1>2. CASE worker' = worker
  BY <1>2 DEF WorkerInv
<1>3. ASSUME NEW at \in {"next", "stop", "delete"}, NEW s \in Nat,
             worker' = Resetting(at, s), at # "next" => s \in Slot
      PROVE  WorkerInv'
  BY <1>3 DEF WorkerInv
<1>4. CASE Receive \/ Resume
  <2>1. worker'.doing # "reset" \/ worker' = Resetting("next", 0)
    BY <1>4 DEF Receive, Resume, LogRunBlock, Idle
  <2> QED BY <1>1, <1>3, <2>1
<1>5. CASE Stored
  BY <1>1, <1>5 DEF Stored, Idle
<1>6. CASE ResetNext
  <2>1. CASE worker' = Idle
    BY <1>1, <2>1 DEF Idle
  <2>2. CASE worker' # Idle
    <3>1. PICK left : left = {s \in Used : s >= worker.slot} /\ left # {}
                      /\ worker' = Resetting("stop", Lowest(left))
      BY <1>6, <2>2 DEF ResetNext
    <3>2. left \subseteq Slot /\ Slot \subseteq Nat
      BY <3>1, PoolAssumption DEF Used
    <3>3. Lowest(left) \in left
      BY <3>1, <3>2, LowestIsIn
    <3> QED BY <1>3, <3>1, <3>2, <3>3
  <2> QED BY <2>1, <2>2
<1>7. CASE ResetStop
  <2>1. worker.slot \in Nat /\ worker.slot \in Slot /\ worker' = Resetting("delete", worker.slot)
    BY <1>7, ResetAt DEF ResetStop
  <2> QED BY <1>3, <2>1
<1>8. CASE ResetDelete
  <2>1. worker.slot \in Nat /\ worker' = Resetting("next", worker.slot + 1)
    BY <1>8, ResetAt DEF ResetDelete
  <2> QED BY <1>3, <2>1
<1>9. ASSUME \/ \E command \in Requests : Take(command)
             \/ Handle \/ \E s \in Slot : Fire(s)
             \/ ReadCommand \/ Persist \/ Link \/ Fill \/ UNCHANGED vars
      PROVE  worker' = worker
  BY <1>9 DEF Take, Handle, Create, NotFound, AppendBlock, Delete, Start, Single, Stop, Reset, Give,
              Handling, Fire, ReadCommand, Persist, Link, Fill, vars
<1>10. \/ Receive \/ Resume \/ Stored \/ ResetNext \/ ResetStop \/ ResetDelete
       \/ \E command \in Requests : Take(command)
       \/ Handle \/ \E s \in Slot : Fire(s)
       \/ ReadCommand \/ Persist \/ Link \/ Fill \/ UNCHANGED vars
  BY DEF Next, Serve, Own, WorkerStep
<1> QED BY <1>2, <1>4, <1>5, <1>6, <1>7, <1>8, <1>9, <1>10

\* A handler has the lock: the worker, that had it before it began, is not in its reset.
LEMMA HandlerAlone ==
    ASSUME Undisturbed, ~entered', Handle
    PROVE  /\ ~entered /\ worker' = worker /\ worker.doing # "reset"
           /\ NoCircle(ops) /\ Sound(ops, blocks)
<1>1. PICK doing : Handling(doing) /\ doing # "idle"
  BY DEF Handle, Create, NotFound, AppendBlock, Delete, Start, Single, Stop, Reset, Give
<1>2. handler # Idle /\ ~entered /\ worker' = worker
  BY <1>1 DEF Handling, Idle
<1> QED BY <1>2 DEF Undisturbed

LEMMA StepUndisturbed ==
    ASSUME LogInv, [Next]_vars
    PROVE  Undisturbed'
<1> SUFFICES ASSUME ~entered'
             PROVE  /\ NoCircle(ops')
                    /\ worker'.doing = "reset" => handler' = Idle
                    /\ worker'.doing # "reset" => Sound(ops', blocks')
  BY DEF Undisturbed
<1>0. PoolTyped /\ HandlerInv /\ WorkerInv /\ Undisturbed
  BY DEF LogInv
<1>1. CASE Handle
  <2>1. /\ ~entered /\ worker' = worker /\ worker.doing # "reset"
        /\ NoCircle(ops) /\ Sound(ops, blocks)
    BY <1>0, <1>1, HandlerAlone
  <2>2. Sound(ops', blocks')
    <3>1. CASE Create
      BY <1>0, <2>1, <3>1, CreatePool
    <3>2. CASE AppendBlock
      BY <1>0, <2>1, <3>2, AppendPool
    <3>3. CASE Delete
      BY <1>0, <2>1, <3>3, DeletePool, DeleteEnds
    <3>4. CASE Reset
      BY <1>0, <2>1, <3>4, ResetPool DEF Reset, LogReset
    <3>5. CASE NotFound \/ Start \/ Single \/ Stop \/ Give
      <4>1. UNCHANGED <<blocks, ops>>
        BY <3>5, ElsewhereKeeps DEF Elsewhere
      <4> QED BY <2>1, <4>1
    <3> QED BY <1>1, <3>1, <3>2, <3>3, <3>4, <3>5 DEF Handle
  <2> QED BY <2>1, <2>2 DEF Sound
<1>2. CASE ResetNext \/ ResetStop \/ ResetDelete
  <2>1. ~entered /\ worker.doing = "reset" /\ handler' = handler
    BY <1>2 DEF ResetNext, ResetStop, ResetDelete, InReset, ResetOnly
  <2>2. NoCircle(ops) /\ handler' = Idle
    BY <1>0, <2>1 DEF Undisturbed
  <2>3. CASE ResetNext
    <3>1. CASE UNCHANGED <<blocks, ops>> /\ worker'.doing = "reset"
      BY <2>2, <3>1
    <3>2. CASE /\ ops' = FreeOps(ops, Op)
               /\ blocks' = [s \in Slot |-> [blocks[s] EXCEPT !.id = Free]]
      <4>1. Sound(ops', blocks')
        BY <1>0, <2>2, <3>2, ResetPool
      <4> QED BY <2>2, <4>1 DEF Sound
    <3> QED BY <2>3, <3>1, <3>2 DEF ResetNext, Resetting
  <2>4. CASE ResetStop
    <3>1. worker.slot \in Slot /\ ops' = FreeOps(ops, OpsOf(worker.slot))
          /\ worker' = Resetting("delete", worker.slot)
      BY <1>0, <2>4, ResetAt DEF ResetStop
    <3>2. NoCircle(ops')
      BY <1>0, <2>2, <3>1, FreedPool
    <3> QED BY <2>2, <3>1, <3>2 DEF Resetting
  <2>5. CASE ResetDelete
    <3>1. ops' = ops /\ worker'.doing = "reset"
      BY <2>5 DEF ResetDelete, Resetting
    <3> QED BY <2>2, <3>1
  <2> QED BY <1>2, <2>3, <2>4, <2>5
<1>3. CASE Receive \/ Resume
  <2>1. ~entered /\ worker.doing # "reset" /\ UNCHANGED <<blocks, ops, handler>>
    BY <1>3 DEF Receive, Resume, LogRunBlock
  <2>2. NoCircle(ops) /\ Sound(ops, blocks)
    BY <1>0, <2>1 DEF Undisturbed
  <2>3. worker'.doing = "reset" => handler = Idle
    BY <1>3 DEF Receive, Resume
  <2> QED BY <2>1, <2>2, <2>3
<1>4. CASE Stored
  <2>1. ~entered /\ worker.doing # "reset" /\ worker'.doing # "reset" /\ UNCHANGED <<blocks, ops>>
    BY <1>4 DEF Stored, Idle
  <2> QED BY <1>0, <2>1 DEF Undisturbed
<1>5. ASSUME NEW command \in Requests, Take(command)
      PROVE  /\ NoCircle(ops')
             /\ worker'.doing = "reset" => handler' = Idle
             /\ worker'.doing # "reset" => Sound(ops', blocks')
  <2>1. ~entered /\ worker.doing # "reset" /\ UNCHANGED <<blocks, ops, worker>>
    BY <1>5 DEF Take
  <2> QED BY <1>0, <2>1 DEF Undisturbed
<1>6. CASE \/ \E s \in Slot : Fire(s)
           \/ ReadCommand \/ Persist \/ Link \/ Fill \/ UNCHANGED vars
  <2>1. UNCHANGED <<blocks, ops, handler, worker, entered>>
    BY <1>6 DEF Fire, ReadCommand, Persist, Link, Fill, vars
  <2> QED BY <1>0, <2>1 DEF Undisturbed
<1>7. \/ Handle \/ ResetNext \/ ResetStop \/ ResetDelete
      \/ Receive \/ Resume \/ Stored
      \/ \E command \in Requests : Take(command)
      \/ \E s \in Slot : Fire(s)
      \/ ReadCommand \/ Persist \/ Link \/ Fill \/ UNCHANGED vars
  BY DEF Next, Serve, Own, WorkerStep
<1> QED BY <1>1, <1>2, <1>3, <1>4, <1>5, <1>6, <1>7

----------------------------------------------------------------------------
LEMMA LogStarts == Init => LogInv
<1> SUFFICES ASSUME Init PROVE LogInv
  OBVIOUS
<1>1. PoolTyped /\ Sound(ops, blocks) /\ QueuesInv
  BY InitPool, InitQueues DEF PoolInv
<1>2. HandlerInv /\ WorkerInv
  BY DEF Init, HandlerInv, WorkerInv, Idle
<1> QED BY <1>1, <1>2 DEF LogInv, Undisturbed, Sound, Init, Idle

LEMMA LogStep ==
    ASSUME LogInv, [Next]_vars
    PROVE  LogInv'
<1>1. PoolTyped /\ HandlerInv /\ QueuesInv /\ WorkerInv
  BY DEF LogInv
<1>2. PoolTyped' /\ HandlerInv' /\ QueuesInv' /\ WorkerInv'
  BY <1>1, StepPool, StepHandler, StepQueues, StepWorker
<1> QED BY <1>2, StepUndisturbed DEF LogInv

LEMMA LogInvariant == Spec => []LogInv
<1>1. LogInv /\ [Next]_vars => LogInv'
  BY LogStep
<1> QED BY <1>1, LogStarts, PTL DEF Spec

LEMMA LogTyped == LogInv => TypeOK
<1> SUFFICES ASSUME LogInv PROVE TypeOK
  OBVIOUS
<1>1. queue \in Seq(Works) => ToSet(queue) \subseteq Works
  BY DEF ToSet
<1> QED BY <1>1 DEF LogInv, PoolTyped, QueuesInv, TypeOK, Blocks, Pool, Heads, Works

\* Typing: block table and pool hold blocks and operations, the timers and the worker's
\* queue name blocks, and neither queue is longer than the one in the code, also where a
\* command comes in the middle of a worker's reset and a list becomes a circle.
THEOREM TypeCorrect == Spec => []TypeOK
BY LogInvariant, LogTyped, PTL

\* The walk of the late worker: from any operation, in a block or given back, the links
\* come to an end, whatever the handlers did while it waited for the lock (logRunBlock):
\* until a command is taken in the middle of a worker's reset, which does not lock.
THEOREM WalksEnd == Spec => []ListsEnd
<1>1. LogInv => ListsEnd
  <2> SUFFICES ASSUME LogInv, ~entered, NEW o \in Op PROVE Terminated(ops, o)
    BY DEF ListsEnd
  <2>1. PoolTyped /\ NoCircle(ops) /\ o \in Heads
    BY DEF LogInv, Undisturbed, Heads
  <2> QED BY <2>1, SoundTerminates
<1> QED BY <1>1, LogInvariant, PTL

\* The pool is shared without loss: the operations of a block in use are taken, and no
\* operation is in the lists of two blocks (opsMalloc, opsFree, blockAppendOps), but in the
\* middle of a worker's reset, and until a command is taken in the middle of one.
THEOREM PoolIsShared == Spec => [](~entered /\ worker.doing # "reset" => Sound(ops, blocks))
BY LogInvariant, PTL DEF LogInv, Undisturbed

----------------------------------------------------------------------------
(* Lists, the way the client sees them.                                      *)

\* The n operations from h on are those of q, in its order.
Chain(os, h, q, n) ==
    /\ n \in Nat /\ q \in [1..n -> Op]
    /\ h = IF n = 0 THEN Nil ELSE q[1]
    /\ \A a \in 1..n : os[q[a]].next = IF a = n THEN Nil ELSE q[a + 1]
    /\ \A a, b \in 1..n : q[a] = q[b] => a = b

LEMMA ChainWalk ==
    ASSUME NEW os \in Pool, NEW h, NEW q, NEW n, Chain(os, h, q, n),
           NEW w, w = After(os, h)
    PROVE  /\ n <= Links /\ h \in Heads
           /\ \A a \in 0..Links : w[a] = IF a < n THEN q[a + 1] ELSE Nil
<1>1. n \in Nat /\ q \in [1..n -> Op] /\ Links \in Nat
  BY LinksType DEF Chain
<1>2. n <= Links
  <2>1. IsFiniteSet(1..n) /\ Cardinality(1..n) = n
    BY <1>1, FS_Interval
  <2>2. \A a, b \in 1..n : q[a] = q[b] => a = b
    BY DEF Chain
  <2>3. ~ (Cardinality(Op) < Cardinality(1..n))
    BY <1>1, <2>1, <2>2, FS_PigeonHole, PoolAssumption
  <2> QED BY <1>1, <2>1, <2>3 DEF Links
<1>3. h \in Heads
  <2>1. CASE n = 0
    BY <2>1 DEF Chain, Heads
  <2>2. CASE n # 0
    <3>1. 1 \in 1..n /\ h = q[1]
      BY <1>1, <2>2 DEF Chain
    <3> QED BY <1>1, <3>1 DEF Heads
  <2> QED BY <2>1, <2>2
<1>4. IsWalk(os, h, w, Links)
  BY <1>3, AfterIsWalk
<1> DEFINE Other == {a \in 0..Links : w[a] # IF a < n THEN q[a + 1] ELSE Nil}
<1>5. Other = {}
  <2> SUFFICES ASSUME Other # {} PROVE FALSE
    OBVIOUS
  <2>1. PICK a \in Other : \A b \in Other : a <= b
    BY <1>1, SmallestUpTo
  <2>2. a # 0
    <3>1. w[0] = h
      BY <1>4 DEF IsWalk
    <3>2. h = IF 0 < n THEN q[0 + 1] ELSE Nil
      BY <1>1 DEF Chain
    <3>3. 0 \notin Other
      BY <3>1, <3>2
    <3> QED BY <2>1, <3>3
  <2>3. a \in 1..Links /\ a - 1 \in 0..Links /\ a - 1 \notin Other
    BY <1>1, <2>1, <2>2
  <2>4. w[a] = IF w[a - 1] = Nil THEN Nil ELSE os[w[a - 1]].next
    BY <1>4, <2>3 DEF IsWalk
  <2>5. w[a - 1] = IF a - 1 < n THEN q[(a - 1) + 1] ELSE Nil
    BY <2>3
  <2>6. w[a] # IF a < n THEN q[a + 1] ELSE Nil
    BY <2>1
  <2>7. CASE a <= n
    <3>1. a \in 1..n /\ w[a - 1] = q[a]
      BY <1>1, <2>3, <2>5, <2>7
    <3>2. q[a] \in Op /\ q[a] # Nil
      BY <1>1, <3>1, PoolAssumption
    <3>3. w[a] = IF a = n THEN Nil ELSE q[a + 1]
      BY <2>4, <3>1, <3>2 DEF Chain
    <3> QED BY <1>1, <2>3, <2>6, <2>7, <3>3
  <2>8. CASE n < a
    BY <1>1, <2>3, <2>4, <2>5, <2>6, <2>8
  <2> QED BY <1>1, <2>3, <2>7, <2>8
<1> QED BY <1>2, <1>3, <1>5

LEMMA ChainLinked ==
    ASSUME NEW os \in Pool, NEW h, NEW q, NEW n, Chain(os, h, q, n)
    PROVE  Linked(os, h) = {q[a] : a \in 1..n}
<1>1. PICK w : w = After(os, h)
  OBVIOUS
<1>2. /\ n <= Links
      /\ \A a \in 0..Links : w[a] = IF a < n THEN q[a + 1] ELSE Nil
  BY <1>1, ChainWalk
<1>3. Linked(os, h) = {w[a] : a \in 0..Links} \ {Nil}
  BY <1>1 DEF Linked, Links
<1>4. n \in Nat /\ Links \in Nat /\ \A a \in 1..n : q[a] # Nil
  BY LinksType, PoolAssumption DEF Chain
<1>5. ASSUME NEW o \in Linked(os, h) PROVE \E a \in 1..n : o = q[a]
  <2>1. PICK a \in 0..Links : o = w[a] /\ o # Nil
    BY <1>3, <1>5
  <2>2. a < n /\ o = q[a + 1] /\ a + 1 \in 1..n
    BY <1>2, <1>4, <2>1
  <2> QED BY <2>2
<1>6. ASSUME NEW a \in 1..n PROVE q[a] \in Linked(os, h)
  <2>1. a - 1 \in 0..Links /\ a - 1 < n /\ (a - 1) + 1 = a
    BY <1>2, <1>4
  <2>2. w[a - 1] = q[a]
    BY <1>2, <2>1
  <2> QED BY <1>3, <1>4, <2>1, <2>2
<1> QED BY <1>5, <1>6

LEMMA ChainValues ==
    ASSUME NEW os \in Pool, NEW h, NEW q, NEW n, Chain(os, h, q, n)
    PROVE  Values(os, h) = [a \in 1..n |-> os[q[a]].variable]
<1>1. PICK w : w = After(os, h)
  OBVIOUS
<1>2. /\ n <= Links
      /\ \A a \in 0..Links : w[a] = IF a < n THEN q[a + 1] ELSE Nil
  BY <1>1, ChainWalk
<1>3. n \in Nat /\ Links \in Nat /\ \A a \in 1..n : q[a] # Nil
  BY LinksType, PoolAssumption DEF Chain
<1>4. Values(os, h) = [a \in {a \in 1..Links : w[a - 1] # Nil} |-> os[w[a - 1]].variable]
  BY <1>1 DEF Values, Links
<1>5. ASSUME NEW a \in 1..Links
      PROVE  /\ w[a - 1] # Nil <=> a \in 1..n
             /\ a \in 1..n => w[a - 1] = q[a]
  <2>1. a - 1 \in 0..Links /\ (a - 1 < n <=> a \in 1..n) /\ (a - 1) + 1 = a
    BY <1>3
  <2>2. w[a - 1] = IF a - 1 < n THEN q[a] ELSE Nil
    BY <1>2, <2>1
  <2> QED BY <1>3, <2>1, <2>2
<1>6. {a \in 1..Links : w[a - 1] # Nil} = 1..n
  BY <1>2, <1>3, <1>5
<1>7. \A a \in 1..n : w[a - 1] = q[a]
  BY <1>2, <1>3, <1>5
<1> QED BY <1>4, <1>6, <1>7

----------------------------------------------------------------------------
\* The length of a list in bytes is their number.
FirstBytes(list, n) == UNION {{a} \X (1..TypeLength(list[a])) : a \in 1..n}

LEMMA TableBytes ==
    ASSUME NEW list, DOMAIN list = 1..Len(list)
    PROVE  Table!Size(list) = Cardinality(FirstBytes(list, Len(list)))
<1>1. Table!Bytes(list) = FirstBytes(list, Len(list))
  BY DEF Table!Bytes, FirstBytes
<1> QED BY <1>1 DEF Table!Size, Table!Cardinality, Cardinality,
                    Table!IsFiniteSet, IsFiniteSet

LEMMA MoreBytes ==
    ASSUME NEW list, NEW n \in Nat, TypeLength(list[n + 1]) \in Nat,
           IsFiniteSet(FirstBytes(list, n))
    PROVE  /\ IsFiniteSet(FirstBytes(list, n + 1))
           /\ Cardinality(FirstBytes(list, n + 1))
                = Cardinality(FirstBytes(list, n)) + TypeLength(list[n + 1])
<1>1. PICK k \in Nat : k = TypeLength(list[n + 1])
  OBVIOUS
<1>2. PICK S, B, C : /\ S = FirstBytes(list, n) /\ B = {n + 1} \X (1..k)
                     /\ C = FirstBytes(list, n + 1)
  OBVIOUS
<1>3. C = S \cup B
  <2>1. 1..(n + 1) = 1..n \cup {n + 1}
    OBVIOUS
  <2> QED BY <1>1, <1>2, <2>1 DEF FirstBytes
<1>4. S \cap B = {}
  BY <1>2 DEF FirstBytes
<1>5. IsFiniteSet({n + 1}) /\ Cardinality({n + 1}) = 1
  BY FS_Singleton
<1>6. IsFiniteSet(1..k) /\ Cardinality(1..k) = k
  BY <1>1, FS_Interval
<1>7. IsFiniteSet(B) /\ Cardinality(B) = k
  BY <1>2, <1>5, <1>6, FS_Product
<1>8. IsFiniteSet(C) /\ Cardinality(C) = Cardinality(S) + Cardinality(B) - Cardinality(S \cap B)
  BY <1>2, <1>3, <1>7, FS_Union
<1>9. Cardinality(S) \in Nat /\ Cardinality({}) = 0
  BY <1>2, FS_CardinalityType, FS_EmptySet
<1> QED BY <1>1, <1>2, <1>4, <1>7, <1>8, <1>9

LEMMA FiniteBytes ==
    ASSUME NEW list, NEW n \in Nat, \A a \in 1..n : TypeLength(list[a]) \in Nat
    PROVE  IsFiniteSet(FirstBytes(list, n)) /\ Cardinality(FirstBytes(list, n)) \in Nat
<1> DEFINE Other == {m \in 0..n : ~ IsFiniteSet(FirstBytes(list, m))}
<1>1. Other = {}
  <2> SUFFICES ASSUME Other # {} PROVE FALSE
    OBVIOUS
  <2>1. PICK m \in Other : \A b \in Other : m <= b
    BY SmallestUpTo
  <2>2. m # 0
    <3>1. FirstBytes(list, 0) = {}
      BY DEF FirstBytes
    <3> QED BY <2>1, <3>1, FS_EmptySet
  <2>3. m - 1 \in Nat /\ m - 1 \in 0..n /\ m - 1 \notin Other /\ (m - 1) + 1 = m /\ m \in 1..n
    BY <2>1, <2>2
  <2>4. IsFiniteSet(FirstBytes(list, m - 1)) /\ TypeLength(list[m]) \in Nat
    BY <2>3
  <2>5. IsFiniteSet(FirstBytes(list, m))
    BY <2>3, <2>4, MoreBytes
  <2> QED BY <2>1, <2>5
<1> QED BY <1>1, FS_CardinalityType

\* blockCalculateLength, a sum, is that number.
LEMMA LengthIsSize ==
    ASSUME NEW os, NEW h, NEW list, Values(os, h) = list, IsList(list)
    PROVE  BlockLength(os, h) = Table!Size(list) /\ Table!Size(list) \in Nat
<1>1. PICK n \in Nat : n = Len(list)
  BY DEF IsList
<1>2. /\ \A a \in 1..n : TypeLength(list[a]) \in Nat
      /\ DOMAIN list = 1..n
  BY <1>1 DEF IsList
<1>3. \A a \in 0..n :
         IsFiniteSet(FirstBytes(list, a)) /\ Cardinality(FirstBytes(list, a)) \in Nat
  BY <1>2, FiniteBytes
<1> DEFINE Is(f) == f = [a \in 0..n |-> IF a = 0 THEN 0 ELSE f[a - 1] + TypeLength(list[a])]
<1> DEFINE g == [a \in 0..n |-> Cardinality(FirstBytes(list, a))]
<1>4. ASSUME NEW a \in 0..n
      PROVE  g[a] = IF a = 0 THEN 0 ELSE g[a - 1] + TypeLength(list[a])
  <2>1. CASE a = 0
    <3>1. FirstBytes(list, 0) = {}
      BY DEF FirstBytes
    <3> QED BY <2>1, <3>1, FS_EmptySet
  <2>2. CASE a # 0
    <3>1. a - 1 \in 0..n /\ a - 1 \in Nat /\ (a - 1) + 1 = a /\ a \in 1..n
      BY <2>2
    <3>2. TypeLength(list[a]) \in Nat /\ IsFiniteSet(FirstBytes(list, a - 1))
      BY <1>2, <1>3, <3>1
    <3>3. Cardinality(FirstBytes(list, a))
            = Cardinality(FirstBytes(list, a - 1)) + TypeLength(list[a])
      BY <3>1, <3>2, MoreBytes
    <3> QED BY <2>2, <3>1, <3>3
  <2> QED BY <2>1, <2>2
<1>5. g = [a \in 0..n |-> g[a]] /\ g[n] = Cardinality(FirstBytes(list, n))
  OBVIOUS
<1> HIDE DEF g
<1>6. Is(g)
  BY <1>4, <1>5
<1>7. BlockLength(os, h) = (CHOOSE f : Is(f))[n]
  BY <1>1, Zenon DEF BlockLength
<1> HIDE DEF Is
<1>8. PICK f : Is(f) /\ BlockLength(os, h) = f[n]
  BY <1>6, <1>7
<1>9. f[n] = g[n]
  <2> DEFINE Other == {a \in 0..n : f[a] # g[a]}
  <2> SUFFICES ASSUME Other # {} PROVE FALSE
    OBVIOUS
  <2>0. /\ \A a \in 0..n : f[a] = IF a = 0 THEN 0 ELSE f[a - 1] + TypeLength(list[a])
        /\ \A a \in 0..n : g[a] = IF a = 0 THEN 0 ELSE g[a - 1] + TypeLength(list[a])
    BY <1>6, <1>8 DEF Is
  <2>1. PICK m \in Other : \A b \in Other : m <= b
    BY SmallestUpTo
  <2>2. m # 0
    BY <2>0, <2>1
  <2>3. m - 1 \in 0..n /\ m - 1 \notin Other
    BY <2>1, <2>2
  <2> QED BY <2>0, <2>1, <2>2, <2>3
<1>10. Table!Size(list) = g[n]
  BY <1>1, <1>2, <1>5, TableBytes
<1> QED BY <1>3, <1>5, <1>8, <1>9, <1>10

----------------------------------------------------------------------------
\* The list base with the first n variables of list after it.
Prolonged(base, list, n) == base \o SubSeq(list, 1, n)

LEMMA ListType ==
    ASSUME NEW list, IsList(list)
    PROVE  /\ Len(list) \in Nat /\ DOMAIN list = 1..Len(list)
           /\ \A a \in 1..Len(list) : TypeLength(list[a]) \in Nat
           /\ \E S : list \in Seq(S)
<1>1. Len(list) \in Nat /\ list = [a \in 1..Len(list) |-> list[a]]
      /\ \A a \in 1..Len(list) : TypeLength(list[a]) \in Nat
  BY DEF IsList
<1> DEFINE S == {list[a] : a \in 1..Len(list)}
<1>2. list \in [1..Len(list) -> S]
  BY <1>1
<1> HIDE DEF S
<1>3. list \in Seq(S)
  BY <1>1, <1>2, SeqDef
<1> QED BY <1>1, <1>3

Lengthens(u, base, list, k, n) ==
    /\ Len(u) = k + n /\ DOMAIN u = 1..(k + n) /\ IsList(u)
    /\ \A a \in 1..k : u[a] = base[a]
    /\ \A a \in 1..n : u[k + a] = list[a]
    /\ u = [a \in 1..(k + n) |-> u[a]]

LEMMA ProlongedShape ==
    ASSUME NEW base, IsList(base), NEW list, IsList(list), NEW n \in 0..Len(list),
           NEW u, u = Prolonged(base, list, n)
    PROVE  Lengthens(u, base, list, Len(base), n)
<1>1. PICK k \in Nat, l \in Nat : k = Len(base) /\ l = Len(list) /\ n \in 0..l
  BY ListType
<1>2. PICK B, C : base \in Seq(B) /\ list \in Seq(C)
  BY ListType
<1>3. PICK S : S = B \cup C
  OBVIOUS
<1>4. base \in Seq(S) /\ list \in Seq(S)
  BY <1>2, <1>3, SeqMonotonic
<1>5. PICK s : s = SubSeq(list, 1, n)
  OBVIOUS
<1>6. \A a \in 1..n : list[a] \in S
  BY <1>1, <1>4
<1>7. s \in Seq(S) /\ Len(s) = n /\ \A a \in 1..n : s[a] = list[a]
  <2>1. 1 \in Int /\ n \in Int
    BY <1>1
  <2>2. /\ s \in Seq(S) /\ Len(s) = IF 1 <= n THEN n - 1 + 1 ELSE 0
        /\ \A a \in 1..(n - 1 + 1) : s[a] = list[1 + a - 1]
    BY <1>5, <1>6, <2>1, SubSeqProperties
  <2> QED BY <1>1, <2>2
<1>8. /\ u \in Seq(S) /\ Len(u) = k + n
      /\ \A a \in 1..(k + n) : u[a] = IF a <= k THEN base[a] ELSE s[a - k]
  BY <1>1, <1>4, <1>5, <1>7, ConcatProperties DEF Prolonged
<1>9. \A a \in 1..k : u[a] = base[a]
  BY <1>1, <1>8
<1>10. \A a \in 1..n : u[k + a] = list[a]
  <2> SUFFICES ASSUME NEW a \in 1..n PROVE u[k + a] = list[a]
    OBVIOUS
  <2>1. k + a \in 1..(k + n) /\ ~ (k + a <= k) /\ (k + a) - k = a
    BY <1>1
  <2> QED BY <1>7, <1>8, <2>1
<1>11. u = [a \in 1..(k + n) |-> u[a]] /\ DOMAIN u = 1..(k + n)
  BY <1>8
<1>12. ASSUME NEW a \in 1..(k + n) PROVE TypeLength(u[a]) \in Nat
  <2>1. (\A b \in 1..k : TypeLength(base[b]) \in Nat) /\ \A b \in 1..l : TypeLength(list[b]) \in Nat
    BY <1>1, ListType
  <2>2. CASE a \in 1..k
    BY <1>9, <2>1, <2>2
  <2>3. CASE a \notin 1..k
    <3>1. a - k \in 1..n /\ a - k \in 1..l /\ k + (a - k) = a
      BY <1>1, <1>12, <2>3
    <3> QED BY <1>10, <2>1, <3>1
  <2> QED BY <2>2, <2>3
<1>13. IsList(u)
  <2>1. k + n \in Nat
    BY <1>1
  <2> QED BY <1>8, <1>11, <1>12, <2>1 DEF IsList
<1> QED BY <1>1, <1>8, <1>9, <1>10, <1>11, <1>13 DEF Lengthens

LEMMA ProlongedByOne ==
    ASSUME NEW base, IsList(base), NEW list, IsList(list), NEW n \in 0..Len(list),
           n + 1 \in 0..Len(list), NEW u, u = Prolonged(base, list, n)
    PROVE  Prolonged(base, list, n + 1) =
              [a \in 1..(Len(u) + 1) |-> IF a = Len(u) + 1 THEN list[n + 1] ELSE u[a]]
<1>1. PICK k \in Nat, l \in Nat : k = Len(base) /\ l = Len(list) /\ n \in 0..l /\ n + 1 \in 0..l
  BY ListType
<1>2. PICK t : t = Prolonged(base, list, n + 1)
  OBVIOUS
<1>3. /\ Len(u) = k + n
      /\ \A a \in 1..k : u[a] = base[a]
      /\ \A a \in 1..n : u[k + a] = list[a]
  <2>1. Lengthens(u, base, list, k, n)
    BY <1>1, ProlongedShape
  <2> QED BY <2>1 DEF Lengthens
<1>4. /\ t = [a \in 1..(k + (n + 1)) |-> t[a]]
      /\ \A a \in 1..k : t[a] = base[a]
      /\ \A a \in 1..(n + 1) : t[k + a] = list[a]
  <2>1. Lengthens(t, base, list, k, n + 1)
    BY <1>1, <1>2, ProlongedShape
  <2> QED BY <2>1 DEF Lengthens
<1>5. ASSUME NEW a \in 1..(k + (n + 1))
      PROVE  t[a] = IF a = (k + n) + 1 THEN list[n + 1] ELSE u[a]
  <2>1. CASE a \in 1..k
    <3>1. a # (k + n) + 1
      BY <1>1, <2>1
    <3>2. t[a] = base[a] /\ u[a] = base[a]
      BY <1>3, <1>4, <2>1
    <3> QED BY <3>1, <3>2
  <2>2. CASE a \notin 1..k
    <3>1. a - k \in 1..(n + 1) /\ k + (a - k) = a
      BY <1>1, <1>5, <2>2
    <3>2. t[a] = list[a - k]
      BY <1>4, <3>1
    <3>3. CASE a = (k + n) + 1
      <4>1. a - k = n + 1
        BY <1>1, <3>3
      <4> QED BY <3>2, <3>3, <4>1
    <3>4. CASE a # (k + n) + 1
      <4>1. a - k \in 1..n
        BY <1>1, <3>1, <3>4
      <4>2. u[a] = list[a - k]
        BY <1>3, <3>1, <4>1
      <4> QED BY <3>2, <3>4, <4>2
    <3> QED BY <3>3, <3>4
  <2> QED BY <2>1, <2>2
<1>6. k + (n + 1) = (k + n) + 1
  BY <1>1
<1>7. Prolonged(base, list, n + 1) =
         [a \in 1..((k + n) + 1) |-> IF a = (k + n) + 1 THEN list[n + 1] ELSE u[a]]
  <2>1. t = [a \in 1..((k + n) + 1) |-> t[a]]
    BY <1>4, <1>6
  <2> QED BY <1>2, <1>5, <1>6, <2>1
<1> QED BY <1>3, <1>7

LEMMA ProlongedByNone ==
    ASSUME NEW base, IsList(base), NEW list, IsList(list)
    PROVE  Prolonged(base, list, 0) = base
<1>1. PICK k \in Nat, l \in Nat : k = Len(base) /\ l = Len(list) /\ 0 \in 0..l
  BY ListType
<1>2. PICK u : u = Prolonged(base, list, 0)
  OBVIOUS
<1>3. u = [a \in 1..(k + 0) |-> u[a]] /\ \A a \in 1..k : u[a] = base[a]
  <2>1. Lengthens(u, base, list, k, 0)
    BY <1>1, <1>2, ProlongedShape
  <2> QED BY <2>1 DEF Lengthens
<1>4. base = [a \in 1..k |-> base[a]]
  BY <1>1 DEF IsList
<1>5. k + 0 = k
  BY <1>1
<1> QED BY <1>2, <1>3, <1>4, <1>5

\* A longer list is not smaller.
LEMMA ProlongedIsMore ==
    ASSUME NEW base, IsList(base), NEW list, IsList(list),
           NEW n \in 0..Len(list), NEW m \in 0..Len(list), n <= m
    PROVE  /\ Table!Size(Prolonged(base, list, n)) \in Nat
           /\ Table!Size(Prolonged(base, list, m)) \in Nat
           /\ Table!Size(Prolonged(base, list, n)) <= Table!Size(Prolonged(base, list, m))
<1>1. PICK k \in Nat, l \in Nat : k = Len(base) /\ l = Len(list) /\ n \in 0..l /\ m \in 0..l
  BY ListType
<1>2. PICK u, t : u = Prolonged(base, list, n) /\ t = Prolonged(base, list, m)
  OBVIOUS
<1>3. /\ Len(u) = k + n /\ DOMAIN u = 1..(k + n) /\ IsList(u)
      /\ (\A a \in 1..k : u[a] = base[a]) /\ \A a \in 1..n : u[k + a] = list[a]
  <2>1. Lengthens(u, base, list, k, n)
    BY <1>1, <1>2, ProlongedShape
  <2> QED BY <2>1 DEF Lengthens
<1>4. /\ Len(t) = k + m /\ DOMAIN t = 1..(k + m) /\ IsList(t)
      /\ (\A a \in 1..k : t[a] = base[a]) /\ \A a \in 1..m : t[k + a] = list[a]
  <2>1. Lengthens(t, base, list, k, m)
    BY <1>1, <1>2, ProlongedShape
  <2> QED BY <2>1 DEF Lengthens
<1>5. ASSUME NEW a \in 1..(k + n) PROVE u[a] = t[a] /\ a \in 1..(k + m)
  <2>1. CASE a \in 1..k
    BY <1>1, <1>3, <1>4, <2>1
  <2>2. CASE a \notin 1..k
    <3>1. a - k \in 1..n /\ a - k \in 1..m /\ k + (a - k) = a
      BY <1>1, <1>5, <2>2
    <3> QED BY <1>1, <1>3, <1>4, <1>5, <3>1
  <2> QED BY <2>1, <2>2
<1>6. PICK S, R : S = FirstBytes(u, k + n) /\ R = FirstBytes(t, k + m)
  OBVIOUS
<1>7. S \subseteq R
  BY <1>5, <1>6 DEF FirstBytes
<1>8. /\ IsFiniteSet(S) /\ Cardinality(S) \in Nat
      /\ IsFiniteSet(R) /\ Cardinality(R) \in Nat
  <2>1. k + n \in Nat /\ \A a \in 1..(k + n) : TypeLength(u[a]) \in Nat
    BY <1>1, <1>3, ListType
  <2>2. k + m \in Nat /\ \A a \in 1..(k + m) : TypeLength(t[a]) \in Nat
    BY <1>1, <1>4, ListType
  <2> QED BY <1>6, <2>1, <2>2, FiniteBytes
<1>9. Cardinality(S) <= Cardinality(R)
  BY <1>7, <1>8, FS_Subset
<1>10. Table!Size(u) = Cardinality(S) /\ Table!Size(t) = Cardinality(R)
  BY <1>3, <1>4, <1>6, TableBytes
<1> QED BY <1>2, <1>8, <1>9, <1>10

\* One more variable makes it longer by its length.
LEMMA ProlongedSize ==
    ASSUME NEW base, IsList(base), NEW list, IsList(list), NEW n \in 0..Len(list),
           n + 1 \in 0..Len(list)
    PROVE  Table!Size(Prolonged(base, list, n + 1))
             = Table!Size(Prolonged(base, list, n)) + TypeLength(list[n + 1])
<1>1. PICK k \in Nat, l \in Nat : k = Len(base) /\ l = Len(list) /\ n \in 0..l /\ n + 1 \in 0..l
  BY ListType
<1>2. PICK u, t : u = Prolonged(base, list, n) /\ t = Prolonged(base, list, n + 1)
  OBVIOUS
<1>3. PICK i \in Nat : i = Len(u) /\ Len(t) = i + 1 /\ DOMAIN u = 1..i /\ IsList(u)
                       /\ DOMAIN t = 1..(i + 1) /\ IsList(t)
  <2>1. Len(u) = k + n /\ DOMAIN u = 1..(k + n) /\ IsList(u)
    <3>1. Lengthens(u, base, list, k, n)
      BY <1>1, <1>2, ProlongedShape
    <3> QED BY <3>1 DEF Lengthens
  <2>2. Len(t) = k + (n + 1) /\ DOMAIN t = 1..(k + (n + 1)) /\ IsList(t)
    <3>1. Lengthens(t, base, list, k, n + 1)
      BY <1>1, <1>2, ProlongedShape
    <3> QED BY <3>1 DEF Lengthens
  <2>3. k + (n + 1) = (k + n) + 1 /\ k + n \in Nat
    BY <1>1
  <2> QED BY <2>1, <2>2, <2>3
<1>4. t = [a \in 1..(i + 1) |-> IF a = i + 1 THEN list[n + 1] ELSE u[a]]
  BY <1>2, <1>3, ProlongedByOne
<1>5. t[i + 1] = list[n + 1] /\ \A a \in 1..i : t[a] = u[a] /\ TypeLength(t[i + 1]) \in Nat
  <2>1. i + 1 \in 1..(i + 1) /\ \A a \in 1..i : a \in 1..(i + 1) /\ a # i + 1
    OBVIOUS
  <2>2. TypeLength(t[i + 1]) \in Nat
    BY <1>3, <2>1, ListType
  <2> QED BY <1>4, <2>1, <2>2
<1>6. FirstBytes(u, i) = FirstBytes(t, i)
  BY <1>5 DEF FirstBytes
<1>7. IsFiniteSet(FirstBytes(u, i))
  <2>1. \A a \in 1..i : TypeLength(u[a]) \in Nat
    BY <1>3, ListType
  <2> QED BY <2>1, FiniteBytes
<1>8. Cardinality(FirstBytes(t, i + 1)) = Cardinality(FirstBytes(t, i)) + TypeLength(t[i + 1])
  <2>1. TypeLength(t[i + 1]) \in Nat
    BY <1>3, ListType
  <2> QED BY <1>6, <1>7, <2>1, MoreBytes
<1>9. /\ Table!Size(u) = Cardinality(FirstBytes(u, i))
      /\ Table!Size(t) = Cardinality(FirstBytes(t, i + 1))
  BY <1>3, TableBytes
<1> QED BY <1>2, <1>5, <1>6, <1>8, <1>9

----------------------------------------------------------------------------
(* The client's table in the pool.                                           *)

\* The list from h on, of the operations q, is that of the client.
Row(os, h, q, list) ==
    /\ Chain(os, h, q, Len(list)) /\ IsList(list)
    /\ \A a \in 1..Len(list) : os[q[a]].variable = list[a] /\ list[a] \in Known
    /\ Table!Size(list) <= MaxLength

\* The blocks of bs are those of T, that of i in slot w[i], with the operations q[i].
Records(os, bs, T, w, q) ==
    /\ DOMAIN T \subseteq Id /\ T = [i \in DOMAIN T |-> T[i]]
    /\ w \in [DOMAIN T -> Slot]
    /\ \A i \in DOMAIN T : bs[w[i]].id = i /\ Row(os, bs[w[i]].ops, q[i], T[i])
    /\ \A s \in InUse(bs) : bs[s].id \in DOMAIN T /\ s = w[bs[s].id]
    /\ \A i, j \in DOMAIN T : \A a \in 1..Len(T[i]), b \in 1..Len(T[j]) :
          q[i][a] = q[j][b] => i = j
    /\ \A o \in Taken(os) : \E i \in DOMAIN T : \E a \in 1..Len(T[i]) : o = q[i][a]

LEMMA RowShape ==
    ASSUME NEW os \in Pool, NEW h, NEW q, NEW list, Row(os, h, q, list)
    PROVE  /\ Values(os, h) = list /\ h \in Heads
           /\ Linked(os, h) = {q[a] : a \in 1..Len(list)}
           /\ BlockLength(os, h) = Table!Size(list) /\ Table!Size(list) \in Nat
           /\ \A a \in 1..Len(list) : q[a] \in Taken(os)
<1>1. Chain(os, h, q, Len(list)) /\ IsList(list) /\ Len(list) \in Nat
  BY ListType DEF Row
<1>2. PICK n \in Nat : n = Len(list) /\ Chain(os, h, q, n)
  BY <1>1
<1>3. Values(os, h) = [a \in 1..n |-> os[q[a]].variable]
  BY <1>2, ChainValues
<1>4. list = [a \in 1..n |-> list[a]]
  BY <1>1, <1>2 DEF IsList
<1>5. \A a \in 1..n : os[q[a]].variable = list[a] /\ list[a] \in Known
  BY <1>2 DEF Row
<1>6. Values(os, h) = list
  BY <1>3, <1>4, <1>5
<1>7. \A a \in 1..n : q[a] \in Taken(os)
  BY <1>2, <1>5, PoolAssumption DEF Chain, Taken
<1> QED BY <1>1, <1>2, <1>6, <1>7, ChainWalk, ChainLinked, LengthIsSize

\* A list lies as before where its operations do.
LEMMA RowKept ==
    ASSUME NEW os, NEW h, NEW q, NEW list, Row(os, h, q, list), NEW os2,
           \A a \in 1..Len(list) : /\ os2[q[a]].next = os[q[a]].next
                                   /\ os2[q[a]].variable = os[q[a]].variable
    PROVE  Row(os2, h, q, list)
<1>1. Chain(os2, h, q, Len(list))
  BY DEF Row, Chain
<1> QED BY <1>1 DEF Row

\* blockAppendOps, with what it does to the list.
\* What it does, o being the new operation and m what it leaves.
Appended(l, q, n, o, m, r, list2) ==
    /\ m \in Lists /\ m.answer = l.answer
    /\ Row(m.ops, m.head, r, list2)
    /\ \A x \in Op \ {o} :
          /\ m.ops[x].variable = l.ops[x].variable
          /\ m.ops[x].next = l.ops[x].next \/ \E a \in 1..n : x = q[a]
    /\ Taken(m.ops) = Taken(l.ops) \cup {o}

LEMMA RowAppend ==
    ASSUME NEW l \in Lists, NEW q, NEW list, Row(l.ops, l.head, q, list),
           NEW o \in Op, o \notin Taken(l.ops), NEW v \in Known,
           NEW n \in Nat, n = Len(list),
           NEW list2, list2 = [a \in 1..(n + 1) |-> IF a = n + 1 THEN v ELSE list[a]],
           IsList(list2), Len(list2) = n + 1, Table!Size(list2) <= MaxLength,
           NEW m, m = BlockAppendOps(l, o, v),
           NEW r, r = [a \in 1..(n + 1) |-> IF a = n + 1 THEN o ELSE q[a]]
    PROVE  Appended(l, q, n, o, m, r, list2)
<1>1. PICK os \in Pool, h \in Heads : os = l.ops /\ h = l.head
  BY DEF Lists
<1>2. /\ Row(os, h, q, list) /\ Chain(os, h, q, n)
      /\ q \in [1..n -> Op] /\ h = IF n = 0 THEN Nil ELSE q[1]
      /\ \A a \in 1..n : os[q[a]].next = IF a = n THEN Nil ELSE q[a + 1]
      /\ \A a, b \in 1..n : q[a] = q[b] => a = b
      /\ \A a \in 1..n : os[q[a]].variable = list[a] /\ list[a] \in Known
  BY <1>1 DEF Row, Chain
<1>3. \A a \in 1..n : q[a] \in Taken(os) /\ q[a] # o
  BY <1>1, <1>2, RowShape
<1>4. PICK new \in Pool : /\ new = [os EXCEPT ![o] = [next |-> Nil, variable |-> v]]
                          /\ new[o] = [next |-> Nil, variable |-> v]
                          /\ \A x \in Op \ {o} : new[x] = os[x]
  <2>1. PICK e : e = [next |-> Nil, variable |-> v]
    OBVIOUS
  <2>2. e \in [next : Heads, variable : Known \cup {Nil}]
    BY <2>1 DEF Heads
  <2>3. os \in [Op -> [next : Heads, variable : Known \cup {Nil}]]
    BY DEF Pool
  <2>4. PICK new : new = [os EXCEPT ![o] = e]
    OBVIOUS
  <2>5. new \in Pool /\ new[o] = e /\ \A x \in Op \ {o} : new[x] = os[x]
    BY <2>2, <2>3, <2>4 DEF Pool
  <2> QED BY <2>1, <2>4, <2>5
<1>5. PICK last : last = CHOOSE x \in Linked(new, h) : new[x].next = Nil
  OBVIOUS
<1>6. m = IF h = Nil THEN [l EXCEPT !.head = o, !.ops = new]
          ELSE [l EXCEPT !.ops = [new EXCEPT ![last].next = o]]
  BY <1>1, <1>4, <1>5 DEF BlockAppendOps
<1>7. r \in [1..(n + 1) -> Op] /\ r[n + 1] = o /\ \A a \in 1..n : r[a] = q[a]
  BY <1>2
<1>8. \A a, b \in 1..(n + 1) : r[a] = r[b] => a = b
  <2> SUFFICES ASSUME NEW a \in 1..(n + 1), NEW b \in 1..(n + 1), r[a] = r[b] PROVE a = b
    OBVIOUS
  <2>1. \A c \in 1..(n + 1) : c = n + 1 \/ (c \in 1..n /\ r[c] = q[c] /\ r[c] # o)
    BY <1>3, <1>7
  <2>2. CASE a = n + 1
    BY <1>7, <2>1, <2>2
  <2>3. CASE b = n + 1
    BY <1>7, <2>1, <2>3
  <2>4. CASE a # n + 1 /\ b # n + 1
    BY <1>2, <2>1, <2>4
  <2> QED BY <2>2, <2>3, <2>4
<1>9. /\ \A a \in 1..(n + 1) : list2[a] \in Known
      /\ list2[n + 1] = v /\ \A a \in 1..n : list2[a] = list[a]
  BY <1>2
<1>10. CASE n = 0
  <2>1. h = Nil /\ m = [l EXCEPT !.head = o, !.ops = new]
    BY <1>2, <1>6, <1>10
  <2>2. m \in Lists /\ m.answer = l.answer /\ m.head = o /\ m.ops = new
    BY <2>1 DEF Lists, Heads
  <2>3. Chain(new, o, r, n + 1)
    <3>1. /\ n + 1 \in Nat /\ o = r[1]
          /\ \A a \in 1..(n + 1) : new[r[a]].next = IF a = n + 1 THEN Nil ELSE r[a + 1]
      BY <1>4, <1>7, <1>10
    <3> QED BY <1>7, <1>8, <1>10, <3>1 DEF Chain
  <2>4. Row(new, o, r, list2)
    <3>1. \A a \in 1..(n + 1) : new[r[a]].variable = list2[a]
      BY <1>4, <1>7, <1>9, <1>10
    <3> QED BY <1>9, <2>3, <3>1 DEF Row
  <2>5. Taken(new) = Taken(os) \cup {o}
    <3>1. v # Nil
      BY PoolAssumption
    <3>2. new[o].variable # Nil /\ \A x \in Op \ {o} : new[x].variable = os[x].variable
      BY <1>4, <3>1
    <3> QED BY <3>2 DEF Taken
  <2> QED BY <1>1, <1>4, <2>2, <2>4, <2>5 DEF Appended
<1>11. CASE n # 0
  <2>0. Nil \notin Op
    BY PoolAssumption
  <2>1. n \in 1..n /\ 1 \in 1..n /\ h = q[1] /\ h # Nil
    <3>1. n \in 1..n /\ 1 \in 1..n /\ h = q[1]
      BY <1>2, <1>11
    <3>2. q[1] \in Op
      BY <1>2, <3>1
    <3> QED BY <2>0, <3>1, <3>2
  <2>2. last = q[n]
    <3>0. \A a \in 1..n : new[q[a]] = os[q[a]]
      BY <1>2, <1>3, <1>4
    <3>1. Linked(new, h) = {q[a] : a \in 1..n}
      <4>1. Chain(new, h, q, n)
        BY <1>2, <3>0 DEF Chain
      <4> QED BY <4>1, ChainLinked
    <3>2. ASSUME NEW x \in Linked(new, h), new[x].next = Nil PROVE x = q[n]
      <4>1. PICK a \in 1..n : x = q[a]
        BY <3>1
      <4>2. a # n => a + 1 \in 1..n
        OBVIOUS
      <4>3. \A b \in 1..n : q[b] \in Op /\ q[b] # Nil
        <5>1. q \in [1..n -> Op]
          BY <1>2
        <5> QED BY <2>0, <5>1
      <4> QED BY <1>2, <3>0, <3>2, <4>1, <4>2, <4>3
    <3>3. q[n] \in Linked(new, h) /\ new[q[n]].next = Nil
      BY <1>2, <2>1, <3>0, <3>1
    <3> QED BY <1>5, <3>2, <3>3
  <2>3. q[n] \in Op /\ q[n] # o
    BY <1>2, <1>3, <2>1
  <2>4. PICK os2 \in Pool : os2 = [new EXCEPT ![q[n]].next = o]
    BY <2>3 DEF Pool, Heads
  <2>5. m \in Lists /\ m.answer = l.answer /\ m.head = h /\ m.ops = os2
    <3>1. m = [l EXCEPT !.ops = os2]
      BY <1>6, <2>1, <2>2, <2>4
    <3> QED BY <1>1, <3>1 DEF Lists
  <2>6. /\ os2[o].next = Nil /\ os2[o].variable = v /\ os2[q[n]].next = o
        /\ \A x \in Op \ {o} : /\ os2[x].variable = os[x].variable
                               /\ x # q[n] => os2[x].next = os[x].next
    BY <1>4, <2>3, <2>4 DEF Pool
  <2>7. Chain(os2, h, r, n + 1)
    <3>1. h = r[1] /\ n + 1 \in Nat /\ n + 1 # 0
      BY <1>7, <2>1
    <3>2. ASSUME NEW a \in 1..(n + 1)
          PROVE  os2[r[a]].next = IF a = n + 1 THEN Nil ELSE r[a + 1]
      <4>1. CASE a = n + 1
        BY <1>7, <2>6, <4>1
      <4>2. CASE a = n
        BY <1>7, <2>1, <2>6, <4>2
      <4>3. CASE a # n + 1 /\ a # n
        <5>1. a \in 1..n /\ a + 1 \in 1..n /\ r[a] = q[a] /\ r[a + 1] = q[a + 1]
          BY <1>7, <3>2, <4>3
        <5>2. q[a] # q[n] /\ q[a] \in Op \ {o}
          BY <1>2, <1>3, <2>1, <4>3, <5>1
        <5>3. os2[q[a]].next = q[a + 1]
          BY <1>2, <2>6, <4>3, <5>1, <5>2
        <5> QED BY <4>3, <5>1, <5>3
      <4> QED BY <4>1, <4>2, <4>3
    <3> QED BY <1>7, <1>8, <3>1, <3>2 DEF Chain
  <2>8. Row(os2, h, r, list2)
    <3>1. ASSUME NEW a \in 1..(n + 1) PROVE os2[r[a]].variable = list2[a]
      <4>1. CASE a = n + 1
        BY <1>7, <1>9, <2>6, <4>1
      <4>2. CASE a # n + 1
        <5>1. a \in 1..n /\ r[a] = q[a] /\ q[a] \in Op \ {o}
          BY <1>2, <1>3, <1>7, <3>1, <4>2
        <5> QED BY <1>2, <1>9, <2>6, <5>1
      <4> QED BY <4>1, <4>2
    <3> QED BY <1>9, <2>7, <3>1 DEF Row
  <2>9. Taken(os2) = Taken(os) \cup {o}
    <3>1. v # Nil
      BY PoolAssumption
    <3>2. os2[o].variable # Nil /\ \A x \in Op \ {o} : os2[x].variable = os[x].variable
      BY <2>6, <3>1
    <3> QED BY <3>2 DEF Taken
  <2>10. \A x \in Op \ {o} :
            /\ os2[x].variable = os[x].variable
            /\ os2[x].next = os[x].next \/ \E a \in 1..n : x = q[a]
    BY <2>1, <2>6
  <2> QED BY <1>1, <2>5, <2>8, <2>9, <2>10 DEF Appended
<1> QED BY <1>10, <1>11

----------------------------------------------------------------------------
\* What blocks bs and pool os are to the client.
HasIn(bs, i) == {s \in Slot : bs[s].id = i}
TableOf(os, bs) ==
    [i \in {bs[s].id : s \in InUse(bs)} |-> Values(os, bs[Lowest(HasIn(bs, i))].ops)]

LEMMA RecordsTable ==
    ASSUME NEW os \in Pool, NEW bs, NEW T, NEW w, NEW q, Records(os, bs, T, w, q)
    PROVE  /\ TableOf(os, bs) = T
           /\ \A i \in Id : /\ HasIn(bs, i) # {} <=> i \in DOMAIN T
                            /\ i \in DOMAIN T => Lowest(HasIn(bs, i)) = w[i]
<1>1. /\ DOMAIN T \subseteq Id /\ T = [i \in DOMAIN T |-> T[i]]
      /\ w \in [DOMAIN T -> Slot]
      /\ \A i \in DOMAIN T : bs[w[i]].id = i /\ Row(os, bs[w[i]].ops, q[i], T[i])
      /\ \A s \in InUse(bs) : bs[s].id \in DOMAIN T /\ s = w[bs[s].id]
  BY DEF Records
<1>3. \A i \in DOMAIN T : w[i] \in Slot /\ w[i] \in InUse(bs) /\ i \in Id /\ i # Free
  BY <1>1, IdsInUse DEF InUse
<1>4. ASSUME NEW i \in Id
      PROVE  /\ i \in DOMAIN T => HasIn(bs, i) = {w[i]}
             /\ i \notin DOMAIN T => HasIn(bs, i) = {}
  <2>1. ASSUME NEW s \in HasIn(bs, i) PROVE i \in DOMAIN T /\ s = w[i]
    <3>1. s \in InUse(bs) /\ bs[s].id = i
      BY <2>1, IdsInUse DEF HasIn, InUse
    <3> QED BY <1>1, <3>1
  <2>2. i \in DOMAIN T => w[i] \in HasIn(bs, i)
    BY <1>1, <1>3 DEF HasIn
  <2> QED BY <2>1, <2>2
<1>5. ASSUME NEW i \in DOMAIN T PROVE Lowest(HasIn(bs, i)) = w[i]
  <2>1. HasIn(bs, i) = {w[i]} /\ w[i] \in Nat
    BY <1>1, <1>3, <1>4, PoolAssumption
  <2>2. Lowest(HasIn(bs, i)) \in HasIn(bs, i)
    BY <2>1, LowestIsIn
  <2> QED BY <2>1, <2>2
<1>6. {bs[s].id : s \in InUse(bs)} = DOMAIN T
  <2>1. ASSUME NEW s \in InUse(bs) PROVE bs[s].id \in DOMAIN T
    BY <1>1, <2>1
  <2>2. ASSUME NEW i \in DOMAIN T PROVE \E s \in InUse(bs) : i = bs[s].id
    <3>1. w[i] \in InUse(bs) /\ i = bs[w[i]].id
      BY <1>1, <1>3
    <3> QED BY <3>1
  <2> QED BY <2>1, <2>2
<1>7. \A i \in DOMAIN T : Values(os, bs[Lowest(HasIn(bs, i))].ops) = T[i]
  BY <1>1, <1>5, RowShape
<1>8. TableOf(os, bs) = [i \in DOMAIN T |-> T[i]]
  BY <1>6, <1>7 DEF TableOf
<1> QED BY <1>1, <1>4, <1>5, <1>8

\* The operations taken are the variables in the table.
Places(T) == UNION {{i} \X DOMAIN T[i] : i \in DOMAIN T}

LEMMA RecordsUsed ==
    ASSUME NEW os \in Pool, NEW bs, NEW T, NEW w, NEW q, Records(os, bs, T, w, q)
    PROVE  /\ Table!Used(T) = Cardinality(Taken(os))
           /\ Table!Used(T) \in Nat /\ Table!Used(T) <= Links
           /\ IsFiniteSet(Taken(os))
           /\ Table!Used(T) = Links <=> Taken(os) = Op
<1>1. IsFiniteSet(Taken(os)) /\ Cardinality(Taken(os)) \in Nat /\ Cardinality(Taken(os)) <= Links
      /\ (Cardinality(Taken(os)) = Links <=> Taken(os) = Op)
  <2>1. Taken(os) \subseteq Op /\ IsFiniteSet(Op)
    BY PoolAssumption DEF Taken
  <2> QED BY <2>1, FS_Subset, FS_CardinalityType DEF Links
<1>2. PICK S, R : S = Places(T) /\ R = Taken(os)
  OBVIOUS
<1>3. ASSUME NEW i \in DOMAIN T
      PROVE  /\ DOMAIN T[i] = 1..Len(T[i])
             /\ \A a, b \in 1..Len(T[i]) : q[i][a] = q[i][b] => a = b
             /\ \A a \in 1..Len(T[i]) : q[i][a] \in R
  <2>1. Row(os, bs[w[i]].ops, q[i], T[i])
    BY DEF Records
  <2>2. IsList(T[i]) /\ Chain(os, bs[w[i]].ops, q[i], Len(T[i]))
    BY <2>1 DEF Row
  <2> QED BY <1>2, <2>1, <2>2, ListType, RowShape DEF Chain
<1>4. ASSUME NEW s \in S
      PROVE  \E i \in DOMAIN T : \E a \in 1..Len(T[i]) : s = <<i, a>>
  BY <1>2, <1>3, <1>4 DEF Places
<1>5. \A i \in DOMAIN T : \A a \in 1..Len(T[i]) : <<i, a>> \in S
  BY <1>2, <1>3 DEF Places
<1> DEFINE f == [s \in S |-> q[s[1]][s[2]]]
<1>6. \A i \in DOMAIN T : \A a \in 1..Len(T[i]) : f[<<i, a>>] = q[i][a]
  BY <1>5
<1>7. f \in [S -> R]
  BY <1>3, <1>4
<1> HIDE DEF f
<1>8. ASSUME NEW s \in S, NEW t \in S, f[s] = f[t] PROVE s = t
  <2>1. PICK i \in DOMAIN T : \E a \in 1..Len(T[i]) : s = <<i, a>>
    BY <1>4
  <2>2. PICK a \in 1..Len(T[i]) : s = <<i, a>>
    BY <2>1
  <2>3. PICK j \in DOMAIN T : \E b \in 1..Len(T[j]) : t = <<j, b>>
    BY <1>4
  <2>4. PICK b \in 1..Len(T[j]) : t = <<j, b>>
    BY <2>3
  <2>5. q[i][a] = q[j][b]
    BY <1>6, <1>8, <2>2, <2>4
  <2>6. i = j
    BY <2>5 DEF Records
  <2> QED BY <1>3, <2>2, <2>4, <2>5, <2>6
<1>9. ASSUME NEW o \in R PROVE \E s \in S : f[s] = o
  <2>1. PICK i \in DOMAIN T : \E a \in 1..Len(T[i]) : o = q[i][a]
    BY <1>2 DEF Records
  <2>2. PICK a \in 1..Len(T[i]) : o = q[i][a]
    BY <2>1
  <2> QED BY <1>5, <1>6, <2>2
<1>10. f \in Injection(S, R) /\ f \in Surjection(S, R)
  BY <1>7, <1>8, <1>9 DEF Injection, IsInjective, Surjection
<1>11. Cardinality(S) = Cardinality(R)
  BY <1>1, <1>2, <1>10, FS_Injection
<1>12. Table!Used(T) = Cardinality(S)
  BY <1>2 DEF Table!Used, Places, Table!Cardinality, Cardinality,
              Table!IsFiniteSet, IsFiniteSet
<1> QED BY <1>1, <1>2, <1>11, <1>12

----------------------------------------------------------------------------
\* Blocks come and go.
NoOps == [a \in 1..0 |-> Nil]

LEMMA EmptyRow ==
    ASSUME NEW os
    PROVE  Row(os, Nil, NoOps, <<>>)
<1>1. Len(<<>>) = 0 /\ DOMAIN <<>> = 1..0 /\ <<>> \in Seq(Op)
  OBVIOUS
<1>2. <<>> = [a \in 1..Len(<<>>) |-> (<<>>)[a]]
  BY <1>1
<1>3. IsList(<<>>)
  BY <1>1, <1>2 DEF IsList
<1>4. Chain(os, Nil, NoOps, 0)
  BY DEF Chain, NoOps
<1>5. Table!Size(<<>>) = 0
  <2>1. FirstBytes(<<>>, 0) = {}
    BY DEF FirstBytes
  <2>2. Table!Size(<<>>) = Cardinality({})
    BY <1>1, <2>1, TableBytes
  <2> QED BY <2>2, FS_EmptySet
<1>6. 0 <= MaxLength
  BY PoolAssumption
<1> QED BY <1>1, <1>3, <1>4, <1>5, <1>6 DEF Row

\* logCreateBlock: a block of no variables in a free slot.
LEMMA RecordCreate ==
    ASSUME NEW os \in Pool, NEW bs \in Blocks, NEW T, NEW w, NEW q, Records(os, bs, T, w, q),
           NEW i \in Id, i \notin DOMAIN T, NEW s \in Slot, bs[s].id = Free,
           NEW bs2, bs2 = [bs EXCEPT ![s] = [id |-> i, ops |-> Nil]]
    PROVE  \E w2, q2 : Records(os, bs2, Table!With(T, i, <<>>), w2, q2)
<1>1. PICK T2 : /\ T2 = Table!With(T, i, <<>>)
                /\ T2 = [j \in DOMAIN T \cup {i} |-> IF j = i THEN <<>> ELSE T[j]]
  BY DEF Table!With
<1>2. PICK w2 : w2 = [j \in DOMAIN T \cup {i} |-> IF j = i THEN s ELSE w[j]]
  OBVIOUS
<1>3. PICK q2 : q2 = [j \in DOMAIN T \cup {i} |-> IF j = i THEN NoOps ELSE q[j]]
  OBVIOUS
<1>4. /\ DOMAIN T \subseteq Id /\ w \in [DOMAIN T -> Slot]
      /\ \A j \in DOMAIN T : bs[w[j]].id = j /\ Row(os, bs[w[j]].ops, q[j], T[j])
      /\ \A t \in InUse(bs) : bs[t].id \in DOMAIN T /\ t = w[bs[t].id]
  BY DEF Records
<1>5. /\ DOMAIN T2 = DOMAIN T \cup {i} /\ T2[i] = <<>> /\ w2[i] = s /\ q2[i] = NoOps
      /\ \A j \in DOMAIN T : j # i /\ T2[j] = T[j] /\ w2[j] = w[j] /\ q2[j] = q[j]
  BY <1>1, <1>2, <1>3
<1>6. /\ bs2[s].id = i /\ bs2[s].ops = Nil /\ \A t \in Slot \ {s} : bs2[t] = bs[t]
  BY DEF Blocks
<1>7. \A j \in DOMAIN T : w[j] \in Slot \ {s}
  BY <1>4, IdsInUse
<1>8. \A j \in DOMAIN T2 : bs2[w2[j]].id = j /\ Row(os, bs2[w2[j]].ops, q2[j], T2[j])
  <2>1. Row(os, bs2[w2[i]].ops, q2[i], T2[i]) /\ bs2[w2[i]].id = i
    BY <1>5, <1>6, EmptyRow
  <2>2. ASSUME NEW j \in DOMAIN T
        PROVE  bs2[w2[j]].id = j /\ Row(os, bs2[w2[j]].ops, q2[j], T2[j])
    <3>1. bs2[w2[j]] = bs[w[j]] /\ q2[j] = q[j] /\ T2[j] = T[j]
      BY <1>5, <1>6, <1>7
    <3> QED BY <1>4, <3>1
  <2> QED BY <1>5, <2>1, <2>2
<1>9. ASSUME NEW t \in InUse(bs2) PROVE bs2[t].id \in DOMAIN T2 /\ t = w2[bs2[t].id]
  <2>1. CASE t = s
    BY <1>5, <1>6, <2>1
  <2>2. CASE t # s
    <3>1. t \in InUse(bs) /\ bs2[t].id = bs[t].id
      BY <1>6, <2>2 DEF InUse
    <3> QED BY <1>4, <1>5, <3>1
  <2> QED BY <2>1, <2>2
<1>10. Len(T2[i]) = 0
  BY <1>5
<1>11. ASSUME NEW j \in DOMAIN T2, NEW k \in DOMAIN T2,
              NEW a \in 1..Len(T2[j]), NEW b \in 1..Len(T2[k]), q2[j][a] = q2[k][b]
       PROVE  j = k
  <2>1. j \in DOMAIN T /\ k \in DOMAIN T
    BY <1>5, <1>10
  <2>2. a \in 1..Len(T[j]) /\ b \in 1..Len(T[k]) /\ q[j][a] = q[k][b]
    BY <1>5, <1>11, <2>1
  <2> QED BY <2>1, <2>2 DEF Records
<1>12. ASSUME NEW o \in Taken(os)
       PROVE  \E j \in DOMAIN T2 : \E a \in 1..Len(T2[j]) : o = q2[j][a]
  <2>1. PICK j \in DOMAIN T : \E a \in 1..Len(T[j]) : o = q[j][a]
    BY DEF Records
  <2> QED BY <1>5, <2>1
<1>13. DOMAIN T2 \subseteq Id /\ w2 \in [DOMAIN T2 -> Slot] /\ T2 = [j \in DOMAIN T2 |-> T2[j]]
  BY <1>1, <1>2, <1>4, <1>5
<1>14. Records(os, bs2, T2, w2, q2)
  BY <1>8, <1>9, <1>11, <1>12, <1>13 DEF Records
<1> QED BY <1>1, <1>14

\* A slot is free as long as the table has fewer blocks than there are slots.
LEMMA RecordsFull ==
    ASSUME NEW os \in Pool, NEW bs \in Blocks, NEW T, NEW w, NEW q, Records(os, bs, T, w, q)
    PROVE  Cardinality(DOMAIN T) = Cardinality(Slot) <=> HasIn(bs, Free) = {}
<1>1. IsFiniteSet(Slot)
  BY PoolAssumption
<1>2. /\ w \in [DOMAIN T -> Slot] /\ \A i \in DOMAIN T : bs[w[i]].id = i /\ i \in Id
      /\ \A s \in InUse(bs) : bs[s].id \in DOMAIN T /\ s = w[bs[s].id]
  BY DEF Records
<1>3. InUse(bs) \subseteq Slot /\ \A i \in DOMAIN T : w[i] \in InUse(bs)
  BY <1>2, IdsInUse DEF InUse
<1>4. w \in Injection(DOMAIN T, InUse(bs)) /\ w \in Surjection(DOMAIN T, InUse(bs))
  BY <1>2, <1>3 DEF Injection, IsInjective, Surjection
<1>5. IsFiniteSet(InUse(bs))
  BY <1>1, <1>3, FS_Subset
<1>6. Cardinality(DOMAIN T) = Cardinality(InUse(bs))
  BY <1>4, <1>5, FS_Injection
<1>7. Cardinality(InUse(bs)) = Cardinality(Slot) <=> InUse(bs) = Slot
  BY <1>1, <1>3, FS_Subset
<1> QED BY <1>6, <1>7 DEF HasIn, InUse

----------------------------------------------------------------------------
\* Only the list of block s is another.
OtherHead(bs, bs2, s, h) ==
    /\ bs2[s].ops = h
    /\ \A t \in Slot : bs2[t].id = bs[t].id
    /\ \A t \in Slot \ {s} : bs2[t].ops = bs[t].ops

Grown(l, o, m, bs2, T2, w) ==
    /\ m \in Lists /\ m.answer = l.answer
    /\ \E q : Records(m.ops, bs2, T2, w, q)
    /\ Taken(m.ops) = Taken(l.ops) \cup {o}

\* One more variable in block i: the other lists lie as before.
LEMMA RecordAppend ==
    ASSUME NEW l \in Lists, NEW bs, NEW T, NEW w, NEW q, Records(l.ops, bs, T, w, q),
           NEW i \in DOMAIN T, bs[w[i]].ops = l.head,
           NEW o \in Op, o \notin Taken(l.ops), NEW v \in Known,
           NEW n \in Nat, n = Len(T[i]),
           NEW list2, list2 = [a \in 1..(n + 1) |-> IF a = n + 1 THEN v ELSE T[i][a]],
           IsList(list2), Len(list2) = n + 1, Table!Size(list2) <= MaxLength,
           NEW m, m = BlockAppendOps(l, o, v),
           NEW bs2, OtherHead(bs, bs2, w[i], m.head)
    PROVE  Grown(l, o, m, bs2, Table!With(T, i, list2), w)
<1>0. /\ bs2[w[i]].ops = m.head /\ \A t \in Slot : bs2[t].id = bs[t].id
      /\ \A t \in Slot \ {w[i]} : bs2[t].ops = bs[t].ops
  BY DEF OtherHead
<1>1. PICK os \in Pool : os = l.ops
  BY DEF Lists
<1>2. PICK r : r = [a \in 1..(n + 1) |-> IF a = n + 1 THEN o ELSE q[i][a]]
  OBVIOUS
<1>3. /\ DOMAIN T \subseteq Id /\ w \in [DOMAIN T -> Slot]
      /\ \A j \in DOMAIN T : bs[w[j]].id = j /\ Row(os, bs[w[j]].ops, q[j], T[j])
      /\ \A t \in InUse(bs) : bs[t].id \in DOMAIN T /\ t = w[bs[t].id]
      /\ \A o2 \in Taken(os) : \E j \in DOMAIN T : \E a \in 1..Len(T[j]) : o2 = q[j][a]
  BY <1>1 DEF Records
<1>4. Row(l.ops, l.head, q[i], T[i])
  BY <1>1, <1>3
<1>5. /\ m \in Lists /\ m.answer = l.answer
      /\ Row(m.ops, m.head, r, list2)
      /\ \A x \in Op \ {o} :
            /\ m.ops[x].variable = l.ops[x].variable
            /\ m.ops[x].next = l.ops[x].next \/ \E a \in 1..n : x = q[i][a]
      /\ Taken(m.ops) = Taken(l.ops) \cup {o}
  <2>1. PICK qi, list : qi = q[i] /\ list = T[i]
    OBVIOUS
  <2>2. Row(l.ops, l.head, qi, list) /\ n = Len(list)
    BY <1>4, <2>1
  <2>3. list2 = [a \in 1..(n + 1) |-> IF a = n + 1 THEN v ELSE list[a]]
    BY <2>1
  <2>4. r = [a \in 1..(n + 1) |-> IF a = n + 1 THEN o ELSE qi[a]]
    BY <1>2, <2>1
  <2>5. Appended(l, qi, n, o, m, r, list2)
    BY <2>2, <2>3, <2>4, RowAppend
  <2> QED BY <2>1, <2>5 DEF Appended
<1>6. PICK T2 : /\ T2 = Table!With(T, i, list2)
                /\ T2 = [j \in DOMAIN T \cup {i} |-> IF j = i THEN list2 ELSE T[j]]
  BY DEF Table!With
<1>7. PICK q2 : q2 = [j \in DOMAIN T |-> IF j = i THEN r ELSE q[j]]
  OBVIOUS
<1>8. /\ DOMAIN T2 = DOMAIN T /\ T2[i] = list2 /\ q2[i] = r
      /\ \A j \in DOMAIN T : j # i => T2[j] = T[j] /\ q2[j] = q[j]
  BY <1>6, <1>7
<1>9. /\ r[n + 1] = o /\ \A a \in 1..n : r[a] = q[i][a]
      /\ \A a \in 1..(n + 1) : a = n + 1 \/ a \in 1..n
  BY <1>2
<1>10. \A j \in DOMAIN T : \A a \in 1..Len(T[j]) : q[j][a] \in Taken(os)
  BY <1>3, RowShape
<1>11. \A j, k \in DOMAIN T : \A a \in 1..Len(T[j]), b \in 1..Len(T[k]) :
          q[j][a] = q[k][b] => j = k
  BY DEF Records
<1>12. ASSUME NEW j \in DOMAIN T, j # i PROVE Row(m.ops, bs[w[j]].ops, q[j], T[j])
  <2>1. ASSUME NEW a \in 1..Len(T[j])
        PROVE  /\ m.ops[q[j][a]].next = os[q[j][a]].next
               /\ m.ops[q[j][a]].variable = os[q[j][a]].variable
    <3>1. q[j][a] \in Op \ {o}
      BY <1>1, <1>10 DEF Taken
    <3>2. \A b \in 1..n : q[j][a] # q[i][b]
      BY <1>11, <1>12
    <3> QED BY <1>1, <1>5, <3>1, <3>2
  <2>2. Row(os, bs[w[j]].ops, q[j], T[j])
    BY <1>3
  <2> QED BY <2>1, <2>2, RowKept
<1>13. ASSUME NEW j \in DOMAIN T2
       PROVE  bs2[w[j]].id = j /\ Row(m.ops, bs2[w[j]].ops, q2[j], T2[j])
  <2>1. bs2[w[j]].id = j
    BY <1>0, <1>3, <1>8
  <2>2. CASE j = i
    BY <1>0, <1>5, <1>8, <2>1, <2>2
  <2>3. CASE j # i
    <3>1. w[j] \in Slot \ {w[i]}
      BY <1>3, <1>8, <2>3
    <3> QED BY <1>0, <1>8, <1>12, <2>1, <2>3, <3>1
  <2> QED BY <2>2, <2>3
<1>14. ASSUME NEW t \in InUse(bs2) PROVE bs2[t].id \in DOMAIN T2 /\ t = w[bs2[t].id]
  BY <1>0, <1>3, <1>8 DEF InUse
<1>15. ASSUME NEW j \in DOMAIN T, j # i, NEW a \in 1..(n + 1), NEW b \in 1..Len(T[j])
       PROVE  r[a] # q[j][b]
  BY <1>1, <1>9, <1>10, <1>11, <1>15
<1>16. ASSUME NEW j \in DOMAIN T2, NEW k \in DOMAIN T2,
              NEW a \in 1..Len(T2[j]), NEW b \in 1..Len(T2[k]), q2[j][a] = q2[k][b]
       PROVE  j = k
  <2>1. CASE j = i /\ k # i
    BY <1>8, <1>15, <1>16, <2>1
  <2>2. CASE j # i /\ k = i
    BY <1>8, <1>15, <1>16, <2>2
  <2>3. CASE j # i /\ k # i
    BY <1>8, <1>11, <1>16, <2>3
  <2> QED BY <2>1, <2>2, <2>3
<1>17. ASSUME NEW o2 \in Taken(m.ops)
       PROVE  \E j \in DOMAIN T2 : \E a \in 1..Len(T2[j]) : o2 = q2[j][a]
  <2>1. CASE o2 = o
    <3>1. n + 1 \in 1..Len(T2[i]) /\ o2 = q2[i][n + 1]
      BY <1>8, <1>9, <2>1
    <3> QED BY <1>8, <3>1
  <2>2. CASE o2 # o
    <3>1. PICK j \in DOMAIN T : \E a \in 1..Len(T[j]) : o2 = q[j][a]
      BY <1>1, <1>3, <1>5, <2>2
    <3>2. PICK a \in 1..Len(T[j]) : o2 = q[j][a]
      BY <3>1
    <3>3. a \in 1..Len(T2[j]) /\ o2 = q2[j][a]
      BY <1>8, <1>9, <3>2
    <3> QED BY <1>8, <3>3
  <2> QED BY <2>1, <2>2
<1>18. DOMAIN T2 \subseteq Id /\ w \in [DOMAIN T2 -> Slot] /\ T2 = [j \in DOMAIN T2 |-> T2[j]]
  BY <1>3, <1>6, <1>8
<1>19. Records(m.ops, bs2, T2, w, q2)
  BY <1>13, <1>14, <1>16, <1>17, <1>18 DEF Records
<1> QED BY <1>5, <1>6, <1>19 DEF Grown

----------------------------------------------------------------------------
(* The loop of logAppendBlock and the list that was taken.                   *)

\* The first n variables of the list have been added to block i of table T.
Reached(l, bs, T, w, i, list, n) ==
    /\ l \in Lists
    /\ \E q : Records(l.ops, [bs EXCEPT ![w[i]].ops = l.head],
                      Table!With(T, i, Prolonged(T[i], list, n)), w, q)
    /\ Cardinality(Taken(l.ops)) = Table!Used(T) + n

\* The one after them cannot be.
Refused(T, i, list, n, a) ==
    /\ n + 1 \in 1..Len(list)
    /\ \/ Table!Size(Prolonged(T[i], list, n + 1)) > MaxLength
       \/ Table!Used(T) + n = Links
       \/ list[n + 1] \notin Known
    /\ a = IF Table!Size(Prolonged(T[i], list, n + 1)) > MaxLength THEN "E2BIG"
           ELSE IF Table!Used(T) + n = Links THEN "ENOMEM"
           ELSE "ENOENT"

Looped(l, bs, T, w, i, list, n) ==
    \E c \in 0..n :
        /\ Reached(l, bs, T, w, i, list, c)
        /\ (l.answer = "ok" /\ c = n) \/ (l.answer # "ok" /\ Refused(T, i, list, c, l.answer))

\* What lies in the pool after n variables.
Lies(l, T, u, list, n) ==
    /\ BlockLength(l.ops, l.head) = Table!Size(u) /\ Table!Size(u) \in Nat
    /\ Table!Size(u) <= MaxLength
    /\ \A a \in 1..n : list[a] \in Known
    /\ Table!Used(T) + n = Links <=> Taken(l.ops) = Op
    /\ Table!Used(T) + n <= Links
    /\ Terminated(l.ops, l.head)

LEMMA ReachedRow ==
    ASSUME NEW bs \in Blocks, NEW T, NEW w, NEW i \in DOMAIN T, w[i] \in Slot,
           NEW list, IsList(list), IsList(T[i]), NEW n \in 0..Len(list),
           NEW l, Reached(l, bs, T, w, i, list, n),
           NEW u, u = Prolonged(T[i], list, n)
    PROVE  Lies(l, T, u, list, n)
<1>1. PICK os \in Pool, h \in Heads : os = l.ops /\ h = l.head
  BY DEF Reached, Lists
<1>2. PICK bs2 : bs2 = [bs EXCEPT ![w[i]].ops = h]
  OBVIOUS
<1>3. PICK T2 : /\ T2 = Table!With(T, i, u)
                /\ T2 = [j \in DOMAIN T \cup {i} |-> IF j = i THEN u ELSE T[j]]
  BY DEF Table!With
<1>4. PICK q : Records(os, bs2, T2, w, q)
  BY <1>1, <1>2, <1>3 DEF Reached
<1>5. i \in DOMAIN T2 /\ T2[i] = u /\ bs2[w[i]].ops = h
  BY <1>2, <1>3 DEF Blocks
<1>6. Row(os, h, q[i], u)
  BY <1>4, <1>5 DEF Records
<1>7. BlockLength(os, h) = Table!Size(u) /\ Table!Size(u) \in Nat
  BY <1>6, RowShape
<1>8. Table!Size(u) <= MaxLength /\ \A a \in 1..Len(u) : u[a] \in Known
  BY <1>6 DEF Row
<1>9. \A a \in 1..n : list[a] \in Known
  <2>1. Lengthens(u, T[i], list, Len(T[i]), n) /\ Len(T[i]) \in Nat
    BY ProlongedShape, ListType
  <2>2. PICK k \in Nat : k = Len(T[i]) /\ Lengthens(u, T[i], list, k, n)
    BY <2>1
  <2>3. ASSUME NEW a \in 1..n PROVE list[a] \in Known
    <3>1. k + a \in 1..(k + n) /\ Len(u) = k + n /\ u[k + a] = list[a]
      <4>1. n \in Nat
        BY ListType
      <4>2. Len(u) = k + n /\ \A b \in 1..n : u[k + b] = list[b]
        BY <2>2 DEF Lengthens
      <4>3. k + a \in 1..(k + n)
        BY <4>1
      <4> QED BY <4>2, <4>3
    <3> QED BY <1>8, <3>1
  <2> QED BY <2>3
<1>10. Cardinality(Taken(os)) = Table!Used(T) + n
  BY <1>1 DEF Reached
<1>11. Cardinality(Taken(os)) <= Links /\ (Cardinality(Taken(os)) = Links <=> Taken(os) = Op)
  BY <1>4, RecordsUsed
<1>12. Terminated(os, h)
  <2>1. PICK wk : wk = After(os, h)
    OBVIOUS
  <2>2. PICK k : Chain(os, h, q[i], k)
    BY <1>6 DEF Row
  <2>3. k <= Links /\ k \in Nat /\ Links \in Nat
        /\ \A a \in 0..Links : wk[a] = IF a < k THEN q[i][a + 1] ELSE Nil
    BY <2>1, <2>2, ChainWalk, LinksType DEF Chain
  <2>4. wk[Links] = Nil
    BY <2>3
  <2> QED BY <2>1, <2>4 DEF Terminated, Links
<1> QED BY <1>1, <1>7, <1>8, <1>9, <1>10, <1>11, <1>12 DEF Lies

LEMMA LoopTakes ==
    ASSUME NEW bs \in Blocks, NEW T, NEW w, NEW i \in DOMAIN T, w[i] \in Slot,
           NEW list, IsList(list), IsList(T[i]), NEW n \in 0..Len(list), n + 1 \in 0..Len(list),
           NEW l, Reached(l, bs, T, w, i, list, n), Table!Used(T) \in Nat,
           NEW o \in Op, o \notin Taken(l.ops), list[n + 1] \in Known,
           Table!Size(Prolonged(T[i], list, n + 1)) <= MaxLength
    PROVE  LET m == BlockAppendOps(l, o, list[n + 1])
           IN  Reached(m, bs, T, w, i, list, n + 1) /\ m.answer = l.answer
<1>1. PICK os \in Pool, h \in Heads : l \in Lists /\ os = l.ops /\ h = l.head
  BY DEF Reached, Lists
<1>2. PICK u, v : u = Prolonged(T[i], list, n) /\ v = list[n + 1] /\ v \in Known
  OBVIOUS
<1>3. PICK bs2 : bs2 = [bs EXCEPT ![w[i]].ops = h]
  OBVIOUS
<1>4. PICK T2 : /\ T2 = Table!With(T, i, u)
                /\ T2 = [j \in DOMAIN T \cup {i} |-> IF j = i THEN u ELSE T[j]]
  BY DEF Table!With
<1>5. PICK q : Records(os, bs2, T2, w, q)
  BY <1>1, <1>2, <1>3, <1>4 DEF Reached
<1>6. i \in DOMAIN T2 /\ T2[i] = u /\ bs2[w[i]].ops = h
  BY <1>3, <1>4 DEF Blocks
<1>7. PICK list2 : list2 = Prolonged(T[i], list, n + 1)
  OBVIOUS
<1>8. PICK k \in Nat : k = Len(u)
  <2>1. Lengthens(u, T[i], list, Len(T[i]), n) /\ Len(T[i]) \in Nat
    BY <1>2, ProlongedShape, ListType
  <2> QED BY <2>1 DEF Lengthens
<1>9. list2 = [a \in 1..(k + 1) |-> IF a = k + 1 THEN v ELSE T2[i][a]]
  <2>1. list2 = [a \in 1..(Len(u) + 1) |-> IF a = Len(u) + 1 THEN list[n + 1] ELSE u[a]]
    <3>1. u = Prolonged(T[i], list, n)
      BY <1>2
    <3>2. Prolonged(T[i], list, n + 1) =
             [a \in 1..(Len(u) + 1) |-> IF a = Len(u) + 1 THEN list[n + 1] ELSE u[a]]
      BY <3>1, ProlongedByOne
    <3> QED BY <1>7, <3>2
  <2> QED BY <1>2, <1>6, <1>8, <2>1
<1>10. IsList(list2) /\ Len(list2) = k + 1
  <2>1. Lengthens(list2, T[i], list, Len(T[i]), n + 1) /\ Len(T[i]) \in Nat
    BY <1>7, ProlongedShape, ListType
  <2>2. Lengthens(u, T[i], list, Len(T[i]), n)
    BY <1>2, ProlongedShape
  <2> QED BY <1>8, <2>1, <2>2 DEF Lengthens
<1>11. PICK m : m = BlockAppendOps(l, o, v)
  OBVIOUS
<1>12. PICK bs3 : bs3 = [bs EXCEPT ![w[i]].ops = m.head]
  OBVIOUS
<1>13. OtherHead(bs2, bs3, w[i], m.head)
  BY <1>3, <1>12 DEF Blocks, OtherHead
<1>14. /\ m \in Lists /\ m.answer = l.answer
       /\ \E q2 : Records(m.ops, bs3, Table!With(T2, i, list2), w, q2)
       /\ Taken(m.ops) = Taken(l.ops) \cup {o}
  <2>1. Records(l.ops, bs2, T2, w, q) /\ bs2[w[i]].ops = l.head /\ k = Len(T2[i])
        /\ Table!Size(list2) <= MaxLength
    BY <1>1, <1>5, <1>6, <1>7, <1>8
  <2>2. Grown(l, o, m, bs3, Table!With(T2, i, list2), w)
    BY <1>1, <1>2, <1>6, <1>9, <1>10, <1>11, <1>13, <2>1, RecordAppend
  <2> QED BY <2>2 DEF Grown
<1>15. Table!With(T2, i, list2) = Table!With(T, i, list2)
  BY <1>4 DEF Table!With
<1>16. Cardinality(Taken(m.ops)) = Table!Used(T) + (n + 1)
  <2>1. Cardinality(Taken(l.ops)) = Table!Used(T) + n
    BY DEF Reached
  <2>2. IsFiniteSet(Taken(l.ops)) /\ Cardinality(Taken(l.ops)) \in Nat
    <3>1. Taken(l.ops) \subseteq Op /\ IsFiniteSet(Op)
      BY PoolAssumption DEF Taken
    <3> QED BY <3>1, FS_Subset, FS_CardinalityType
  <2>3. Cardinality(Taken(m.ops)) = Cardinality(Taken(l.ops)) + 1
    BY <1>14, <2>2, FS_AddElement
  <2> QED BY <2>1, <2>2, <2>3
<1>17. Reached(m, bs, T, w, i, list, n + 1)
  BY <1>7, <1>12, <1>14, <1>15, <1>16 DEF Reached
<1> QED BY <1>2, <1>11, <1>14, <1>17

LEMMA LoopKeeps ==
    ASSUME NEW bs \in Blocks, NEW T, NEW w, NEW i \in DOMAIN T, w[i] \in Slot,
           NEW list, IsList(list), IsList(T[i]), NEW n \in 0..Len(list), n + 1 \in 0..Len(list),
           Table!Used(T) \in Nat,
           NEW l, Looped(l, bs, T, w, i, list, n)
    PROVE  Looped(AppendVariable(l, list[n + 1]), bs, T, w, i, list, n + 1)
<1>1. PICK c \in 0..n :
         /\ Reached(l, bs, T, w, i, list, c)
         /\ (l.answer = "ok" /\ c = n) \/ (l.answer # "ok" /\ Refused(T, i, list, c, l.answer))
  BY DEF Looped
<1>2. n \in Nat /\ Len(list) \in Nat /\ n \in 0..(n + 1) /\ n + 1 \in 0..(n + 1) /\ c \in 0..(n + 1)
  BY ListType
<1>3. PICK v, m : v = list[n + 1] /\ m = AppendVariable(l, v)
  OBVIOUS
<1>4. CASE l.answer # "ok"
  <2>1. m = l
    BY <1>3, <1>4 DEF AppendVariable
  <2> QED BY <1>1, <1>2, <1>3, <1>4, <2>1 DEF Looped
<1>5. CASE l.answer = "ok"
  <2>1. c = n /\ Reached(l, bs, T, w, i, list, n)
    BY <1>1, <1>5
  <2>2. PICK u : u = Prolonged(T[i], list, n)
    OBVIOUS
  <2>3. /\ BlockLength(l.ops, l.head) = Table!Size(u) /\ Table!Size(u) \in Nat
        /\ Table!Used(T) + n = Links <=> Taken(l.ops) = Op
        /\ Terminated(l.ops, l.head)
    <3>1. u = Prolonged(T[i], list, n) /\ Reached(l, bs, T, w, i, list, n)
      BY <2>1, <2>2
    <3>2. Lies(l, T, u, list, n)
      BY <3>1, ReachedRow
    <3> QED BY <3>2 DEF Lies
  <2>4. BlockLength(l.ops, l.head) + TypeLength(v) = Table!Size(Prolonged(T[i], list, n + 1))
    BY <1>3, <2>2, <2>3, ProlongedSize
  <2>5. PICK unused : /\ unused = {o \in Op : l.ops[o].variable = Nil}
                      /\ unused = Op \ Taken(l.ops)
                      /\ unused = {} <=> Taken(l.ops) = Op
    BY DEF Taken
  <2>6. m = IF Table!Size(Prolonged(T[i], list, n + 1)) > MaxLength
            THEN [l EXCEPT !.answer = "E2BIG"]
            ELSE IF unused = {} THEN [l EXCEPT !.answer = "ENOMEM"]
            ELSE IF v \notin Known THEN [l EXCEPT !.answer = "ENOENT"]
            ELSE BlockAppendOps(l, Lowest(unused), v)
    BY <1>3, <1>5, <2>3, <2>4, <2>5 DEF AppendVariable
  <2>7. ASSUME NEW a \in Errors, m = [l EXCEPT !.answer = a], Refused(T, i, list, n, a)
        PROVE  Looped(m, bs, T, w, i, list, n + 1)
    <3>1. l \in Lists /\ m \in Lists /\ m.ops = l.ops /\ m.head = l.head /\ m.answer = a
      BY <2>1, <2>7 DEF Reached, Lists
    <3>2. Reached(m, bs, T, w, i, list, n)
      BY <2>1, <3>1 DEF Reached
    <3>3. m.answer # "ok"
      BY <3>1 DEF Errors
    <3> QED BY <1>2, <2>7, <3>1, <3>2, <3>3 DEF Looped
  <2>8. n + 1 \in 1..Len(list)
    BY <1>2
  <2>9. CASE Table!Size(Prolonged(T[i], list, n + 1)) > MaxLength
    <3>1. m = [l EXCEPT !.answer = "E2BIG"] /\ Refused(T, i, list, n, "E2BIG")
      BY <2>6, <2>8, <2>9 DEF Refused
    <3> QED BY <1>3, <2>7, <3>1 DEF Errors
  <2>10. CASE ~(Table!Size(Prolonged(T[i], list, n + 1)) > MaxLength) /\ unused = {}
    <3>1. m = [l EXCEPT !.answer = "ENOMEM"] /\ Refused(T, i, list, n, "ENOMEM")
      BY <2>3, <2>5, <2>6, <2>8, <2>10 DEF Refused
    <3> QED BY <1>3, <2>7, <3>1 DEF Errors
  <2>11. CASE /\ ~(Table!Size(Prolonged(T[i], list, n + 1)) > MaxLength)
              /\ unused # {} /\ v \notin Known
    <3>1. m = [l EXCEPT !.answer = "ENOENT"] /\ Refused(T, i, list, n, "ENOENT")
      BY <1>3, <2>3, <2>5, <2>6, <2>8, <2>11 DEF Refused
    <3> QED BY <1>3, <2>7, <3>1 DEF Errors
  <2>12. CASE /\ ~(Table!Size(Prolonged(T[i], list, n + 1)) > MaxLength)
              /\ unused # {} /\ v \in Known
    <3>1. PICK o \in Op : o = Lowest(unused) /\ o \notin Taken(l.ops)
      <4>1. unused \in SUBSET Nat /\ unused # {}
        BY <2>5, <2>12, PoolAssumption
      <4>2. Lowest(unused) \in unused
        BY <4>1, LowestIsIn
      <4> QED BY <2>5, <4>2
    <3>2. m = BlockAppendOps(l, o, list[n + 1])
      BY <1>3, <2>6, <2>12, <3>1
    <3>3. Table!Size(Prolonged(T[i], list, n + 1)) \in Nat
      BY ProlongedIsMore
    <3>4. Table!Size(Prolonged(T[i], list, n + 1)) <= MaxLength
      BY <2>12, <3>3, PoolAssumption
    <3>5. Reached(m, bs, T, w, i, list, n + 1) /\ m.answer = l.answer
      <4>1. list[n + 1] \in Known
        BY <1>3, <2>12
      <4> QED BY <2>1, <3>1, <3>2, <3>4, <4>1, LoopTakes
    <3> QED BY <1>2, <1>3, <1>5, <3>5 DEF Looped
  <2> QED BY <1>3, <2>9, <2>10, <2>11, <2>12
<1> QED BY <1>4, <1>5

LEMMA ListTaken ==
    ASSUME NEW bs \in Blocks, NEW T, NEW w, NEW i \in DOMAIN T, w[i] \in Slot,
           NEW list, IsList(list), IsList(T[i]), Table!Used(T) \in Nat,
           NEW l, Looped(l, bs, T, w, i, list, 0)
    PROVE  Looped(AppendVariables(l, list), bs, T, w, i, list, Len(list))
<1> DEFINE Is(t) == t = [n \in 0..Len(list) |->
                           IF n = 0 THEN l ELSE AppendVariable(t[n - 1], list[n])]
<1>0. Len(list) \in Nat
  BY ListType
<1>1. PICK u : Is(u)
  <2>1. PICK u : IsTurn(l, list, u, Len(list))
    BY <1>0, SomeTurn
  <2> QED BY <2>1, Zenon DEF IsTurn
<1>2. AppendVariables(l, list) = (CHOOSE t : Is(t))[Len(list)]
  BY Zenon DEF AppendVariables
<1> HIDE DEF Is
<1>3. PICK t : Is(t) /\ AppendVariables(l, list) = t[Len(list)]
  BY <1>1, <1>2
<1>4. PICK k \in Nat : k = Len(list)
  BY <1>0
<1>5. t = [n \in 0..k |-> IF n = 0 THEN l ELSE AppendVariable(t[n - 1], list[n])]
  BY <1>3, <1>4 DEF Is
<1> DEFINE Lost == {n \in 0..k : ~Looped(t[n], bs, T, w, i, list, n)}
<1>6. Lost = {}
  <2> SUFFICES ASSUME Lost # {} PROVE FALSE
    OBVIOUS
  <2>1. PICK n \in Lost : \A m \in Lost : n <= m
    BY SmallestUpTo
  <2>2. n # 0
    BY <1>5, <2>1
  <2>3. n \in 0..k /\ n - 1 \in 0..k /\ n - 1 \notin Lost
    BY <2>1, <2>2
  <2>4. t[n] = AppendVariable(t[n - 1], list[n])
    BY <1>5, <2>2, <2>3
  <2>5. PICK m \in 0..k : m = n - 1 /\ n = m + 1 /\ m + 1 \in 0..k
    BY <2>3
  <2>6. Looped(t[m], bs, T, w, i, list, m)
    BY <2>3, <2>5
  <2>7. Looped(AppendVariable(t[m], list[m + 1]), bs, T, w, i, list, m + 1)
    BY <1>4, <2>5, <2>6, LoopKeeps
  <2> QED BY <2>1, <2>4, <2>5, <2>7
<1>7. Looped(t[k], bs, T, w, i, list, k)
  BY <1>6
<1> QED BY <1>3, <1>4, <1>7

\* What the first n variables fit.
LEMMA ReachedFits ==
    ASSUME NEW bs \in Blocks, NEW T, NEW w, NEW i \in DOMAIN T, w[i] \in Slot,
           NEW list, IsList(list), IsList(T[i]), NEW n \in 0..Len(list),
           NEW l, Reached(l, bs, T, w, i, list, n)
    PROVE  Table!Fits(T, i, list, n)
<1>1. PICK u : u = Prolonged(T[i], list, n)
  OBVIOUS
<1>2. Lies(l, T, u, list, n)
  BY <1>1, ReachedRow
<1>3. Table!Size(T[i] \o SubSeq(list, 1, n)) <= MaxLength
  BY <1>1, <1>2 DEF Prolonged, Lies
<1>4. Table!Used(T) + n <= Cardinality(Op)
  BY <1>2 DEF Links, Lies
<1> QED BY <1>2, <1>3, <1>4 DEF Table!Fits, Lies

LEMMA RefusedFitsNot ==
    ASSUME NEW T, NEW i, NEW list, IsList(list), IsList(T[i]), Table!Used(T) \in Nat,
           NEW n \in 0..Len(list), NEW a, Refused(T, i, list, n, a),
           NEW m \in 0..Len(list), Table!Fits(T, i, list, m)
    PROVE  m <= n
<1> SUFFICES ASSUME ~(m <= n) PROVE FALSE
  OBVIOUS
<1>1. n + 1 \in 0..Len(list) /\ n + 1 <= m /\ n + 1 \in 1..m /\ m \in Nat /\ n \in Nat
  BY ListType
<1>2. /\ Table!Size(Prolonged(T[i], list, m)) <= MaxLength
      /\ Table!Used(T) + m <= Links /\ \A b \in 1..m : list[b] \in Known
  BY DEF Table!Fits, Prolonged, Links
<1>3. /\ Table!Size(Prolonged(T[i], list, n + 1)) \in Nat
      /\ Table!Size(Prolonged(T[i], list, m)) \in Nat
      /\ Table!Size(Prolonged(T[i], list, n + 1)) <= Table!Size(Prolonged(T[i], list, m))
  BY <1>1, ProlongedIsMore
<1>4. ~(Table!Size(Prolonged(T[i], list, n + 1)) > MaxLength)
  BY <1>2, <1>3, PoolAssumption
<1>5. Table!Used(T) + n # Links
  BY <1>1, <1>2, LinksType
<1>6. list[n + 1] \in Known
  BY <1>1, <1>2
<1> QED BY <1>4, <1>5, <1>6 DEF Refused

ListTakes(l, bs, T, w, i, list) ==
    \E T2, q2 : /\ Records(l.ops, [bs EXCEPT ![w[i]].ops = l.head], T2, w, q2)
               /\ Table!Extended(T, i, list) = <<l.answer, T2>>

\* The loop takes of the list what the client's table takes, with the same answer.
LEMMA ListExtends ==
    ASSUME NEW bs \in Blocks, NEW T, NEW w, NEW i \in DOMAIN T, w[i] \in Slot,
           NEW list, IsList(list), IsList(T[i]), Table!Used(T) \in Nat,
           NEW l, Looped(l, bs, T, w, i, list, Len(list))
    PROVE  ListTakes(l, bs, T, w, i, list)
<1>1. PICK k \in Nat : k = Len(list)
  BY ListType
<1>2. PICK c \in 0..k :
         /\ Reached(l, bs, T, w, i, list, c)
         /\ (l.answer = "ok" /\ c = k) \/ (l.answer # "ok" /\ Refused(T, i, list, c, l.answer))
  BY <1>1 DEF Looped
<1> DEFINE F == {m \in 0..Len(list) : Table!Fits(T, i, list, m)}
<1>3. c \in F
  BY <1>1, <1>2, ReachedFits
<1>4. ASSUME NEW m \in F PROVE m <= c
  <2>1. CASE c = k
    BY <1>1, <2>1
  <2>2. CASE c # k
    BY <1>1, <1>2, <2>2, RefusedFitsNot
  <2> QED BY <2>1, <2>2
<1>5. Table!Max(F) = c
  <2>1. F \subseteq Nat
    BY <1>1
  <2> HIDE DEF F
  <2>2. \A x \in F : (\A y \in F : x >= y) => x = c
    BY <1>3, <1>4, <2>1
  <2>3. \A y \in F : c >= y
    BY <1>3, <1>4, <2>1
  <2> QED BY <1>3, <2>2, <2>3 DEF Table!Max
<1>6. PICK T2 : T2 = Table!With(T, i, Prolonged(T[i], list, c))
  OBVIOUS
<1>7. Table!Extended(T, i, list) =
         <<IF c = k THEN "ok"
           ELSE IF Table!Size(Prolonged(T[i], list, c + 1)) > MaxLength THEN "E2BIG"
           ELSE IF Table!Used(T) + c = Links THEN "ENOMEM"
           ELSE "ENOENT", T2>>
  BY <1>1, <1>5, <1>6, Zenon DEF Table!Extended, Prolonged, Links
<1>8. l.answer = IF c = k THEN "ok"
                 ELSE IF Table!Size(Prolonged(T[i], list, c + 1)) > MaxLength THEN "E2BIG"
                 ELSE IF Table!Used(T) + c = Links THEN "ENOMEM"
                 ELSE "ENOENT"
  <2>1. CASE l.answer = "ok" /\ c = k
    BY <2>1
  <2>2. CASE l.answer # "ok" /\ Refused(T, i, list, c, l.answer)
    <3>1. c # k
      BY <1>1, <2>2 DEF Refused
    <3> QED BY <2>2, <3>1 DEF Refused
  <2> QED BY <1>2, <2>1, <2>2
<1>9. PICK q2 : Records(l.ops, [bs EXCEPT ![w[i]].ops = l.head], T2, w, q2)
  BY <1>2, <1>6 DEF Reached
<1> QED BY <1>7, <1>8, <1>9 DEF ListTakes

\* logDeleteBlock: the operations of the block are those given back.
LEMMA RecordDelete ==
    ASSUME NEW os \in Pool, NEW bs \in Blocks, NEW T, NEW w, NEW q, Records(os, bs, T, w, q),
           NEW i \in DOMAIN T,
           NEW os2, os2 = FreeOps(os, Linked(os, bs[w[i]].ops)),
           NEW bs2, bs2 = [bs EXCEPT ![w[i]].id = Free]
    PROVE  \E w2 : Records(os2, bs2, [j \in DOMAIN T \ {i} |-> T[j]], w2, q)
<1>1. PICK T2 : T2 = [j \in DOMAIN T \ {i} |-> T[j]]
  OBVIOUS
<1>2. PICK w2 : w2 = [j \in DOMAIN T \ {i} |-> w[j]]
  OBVIOUS
<1>3. /\ DOMAIN T \subseteq Id /\ w \in [DOMAIN T -> Slot]
      /\ \A j \in DOMAIN T : bs[w[j]].id = j /\ Row(os, bs[w[j]].ops, q[j], T[j])
      /\ \A t \in InUse(bs) : bs[t].id \in DOMAIN T /\ t = w[bs[t].id]
      /\ \A o2 \in Taken(os) : \E j \in DOMAIN T : \E a \in 1..Len(T[j]) : o2 = q[j][a]
  BY DEF Records
<1>4. \A j, k \in DOMAIN T : \A a \in 1..Len(T[j]), b \in 1..Len(T[k]) :
         q[j][a] = q[k][b] => j = k
  BY DEF Records
<1>5. PICK L \in SUBSET Op : /\ L = Linked(os, bs[w[i]].ops)
                             /\ L = {q[i][a] : a \in 1..Len(T[i])}
  <2>1. Row(os, bs[w[i]].ops, q[i], T[i])
    BY <1>3
  <2>2. Linked(os, bs[w[i]].ops) = {q[i][a] : a \in 1..Len(T[i])}
    BY <2>1, RowShape
  <2>3. \A a \in 1..Len(T[i]) : q[i][a] \in Op
    BY <2>1, RowShape DEF Taken
  <2> QED BY <2>2, <2>3
<1>6. os2 \in Pool /\ Taken(os2) = Taken(os) \ L
  BY <1>5, Freed
<1>7. \A x \in Op \ L : os2[x] = os[x]
  BY <1>5 DEF FreeOps
<1>8. DOMAIN T2 = DOMAIN T \ {i} /\ \A j \in DOMAIN T2 : T2[j] = T[j] /\ w2[j] = w[j]
  BY <1>1, <1>2
<1>9. ASSUME NEW j \in DOMAIN T2 PROVE Row(os2, bs[w[j]].ops, q[j], T[j])
  <2>1. Row(os, bs[w[j]].ops, q[j], T[j])
    BY <1>3, <1>8
  <2>2. ASSUME NEW a \in 1..Len(T[j])
        PROVE  /\ os2[q[j][a]].next = os[q[j][a]].next
               /\ os2[q[j][a]].variable = os[q[j][a]].variable
    <3>1. q[j][a] \in Op
      BY <2>1, RowShape DEF Taken
    <3>2. q[j][a] \notin L
      BY <1>4, <1>5, <1>8
    <3> QED BY <1>7, <3>1, <3>2
  <2> QED BY <2>1, <2>2, RowKept
<1>10. /\ \A t \in Slot \ {w[i]} : bs2[t] = bs[t]
       /\ w[i] \in Slot /\ bs2[w[i]].id = Free
  BY <1>3 DEF Blocks
<1>11. ASSUME NEW j \in DOMAIN T2
       PROVE  bs2[w2[j]].id = j /\ Row(os2, bs2[w2[j]].ops, q[j], T2[j])
  <2>1. w[j] \in Slot /\ w[j] # w[i]
    BY <1>3, <1>8
  <2>2. bs2[w2[j]] = bs[w[j]] /\ T2[j] = T[j]
    BY <1>8, <1>10, <2>1
  <2> QED BY <1>3, <1>8, <1>9, <2>2
<1>12. ASSUME NEW t \in InUse(bs2) PROVE bs2[t].id \in DOMAIN T2 /\ t = w2[bs2[t].id]
  <2>1. t \in Slot \ {w[i]} /\ bs2[t] = bs[t] /\ t \in InUse(bs)
    BY <1>10 DEF InUse
  <2>2. bs[t].id \in DOMAIN T /\ t = w[bs[t].id] /\ bs[t].id # i
    BY <1>3, <2>1
  <2> QED BY <1>8, <2>1, <2>2
<1>13. \A j, k \in DOMAIN T2 : \A a \in 1..Len(T2[j]), b \in 1..Len(T2[k]) :
          q[j][a] = q[k][b] => j = k
  BY <1>4, <1>8
<1>14. ASSUME NEW o \in Taken(os2)
       PROVE  \E j \in DOMAIN T2 : \E a \in 1..Len(T2[j]) : o = q[j][a]
  <2>1. PICK j \in DOMAIN T : \E a \in 1..Len(T[j]) : o = q[j][a]
    BY <1>3, <1>6
  <2>2. PICK a \in 1..Len(T[j]) : o = q[j][a]
    BY <2>1
  <2>3. j # i
    BY <1>5, <1>6, <2>2
  <2>4. j \in DOMAIN T2 /\ T2[j] = T[j]
    BY <1>8, <2>3
  <2> QED BY <2>2, <2>4
<1>15. DOMAIN T2 \subseteq Id /\ w2 \in [DOMAIN T2 -> Slot] /\ T2 = [j \in DOMAIN T2 |-> T2[j]]
  BY <1>1, <1>2, <1>3
<1>16. Records(os2, bs2, T2, w2, q)
  BY <1>11, <1>12, <1>13, <1>14, <1>15 DEF Records
<1> QED BY <1>1, <1>16

\* No block, and no operation taken.
LEMMA RecordsEmpty ==
    ASSUME NEW os, NEW bs, InUse(bs) = {}, Taken(os) = {}
    PROVE  \E w, q : Records(os, bs, Table!Empty, w, q)
<1>1. PICK T : T = Table!Empty /\ DOMAIN T = {} /\ T = [i \in DOMAIN T |-> T[i]]
  <2>1. PICK T : T = Table!Empty
    OBVIOUS
  <2>2. T = [i \in {} |-> <<>>]
    BY <2>1 DEF Table!Empty
  <2>3. DOMAIN T = {} /\ T = [i \in DOMAIN T |-> T[i]]
    BY <2>2
  <2> QED BY <2>1, <2>3
<1>2. Records(os, bs, T, T, T)
  <2>1. T \in [DOMAIN T -> Slot]
    BY <1>1
  <2> QED BY <1>1, <2>1 DEF Records
<1> QED BY <1>1, <1>2

----------------------------------------------------------------------------
(* What every step does to the client's table.                               *)

ClientLists == {r.list : r \in {q \in Requests : q.doing \in {"create", "append"}}}

\* The list in hand is one of the client's.
ListInv == handler.doing \in {"create", "append"} => handler.list \in ClientLists

Recorded == \E T, w, q : Records(ops, blocks, T, w, q)
RecordsInv == ~entered /\ worker.doing # "reset" => Recorded

Answers(T, T2) ==
    \/ T2 = T /\ UNCHANGED ClientAnswer
    \/ T2 = Table!Empty /\ UNCHANGED ClientAnswer
    \/ <<ClientAnswer', T2>> \in Table!Outcomes(T)

\* From table T to one the client's table can go to.
Follows(T) == \E T2, w2, q2 : Records(ops', blocks', T2, w2, q2) /\ Answers(T, T2)

LEMMA StepList ==
    ASSUME HandlerInv, ListInv, [Next]_vars
    PROVE  ListInv'
<1>1. CASE Create
  <2>1. PICK what \in {"create", "append"}, i \in Id :
           handler = Listed(what, i, handler.list) /\ IsList(handler.list)
    BY <1>1, HandledCommand DEF Create, Handling
  <2>2. CASE \E a : Answer(a)
    BY <2>2 DEF Answer, ListInv
  <2>3. CASE handler' = [handler EXCEPT !.doing = "append"]
    <3>1. PICK list : list = handler.list /\ handler = Listed(what, i, list)
      BY <2>1
    <3>2. handler'.list = list
      BY <2>3, <3>1 DEF Listed
    <3>3. list \in ClientLists
      BY <1>1, <3>1 DEF ListInv, Create, Handling
    <3> QED BY <3>2, <3>3 DEF ListInv
  <2> QED BY <1>1, <2>2, <2>3 DEF Create
<1>2. ASSUME NEW command \in Requests, Take(command) PROVE ListInv'
  BY <1>2 DEF Take, ListInv, ClientLists
<1>3. CASE \E a : Answer(a)
  BY <1>3 DEF Answer, ListInv
<1>4. CASE Give
  BY <1>4 DEF Give, ListInv, Idle
<1>5. CASE UNCHANGED handler
  BY <1>5 DEF ListInv
<1>6. ASSUME NotFound \/ AppendBlock \/ Delete \/ Start \/ Single \/ Stop \/ Reset
      PROVE  \E a : Answer(a)
  BY <1>6 DEF NotFound, AppendBlock, Delete, Start, Single, Stop, Reset
<1>7. ASSUME \/ \E s \in Slot : Fire(s)
             \/ ReadCommand \/ WorkerStep \/ Persist \/ Link \/ Fill \/ UNCHANGED vars
      PROVE  UNCHANGED handler
  BY <1>7 DEF Fire, ReadCommand, WorkerStep, Receive, Resume, Stored, ResetNext, ResetStop,
              ResetDelete, ResetOnly, LogRunBlock, Persist, Link, Fill, vars
<1>8. \/ Create
      \/ \E command \in Requests : Take(command)
      \/ NotFound \/ AppendBlock \/ Delete \/ Start \/ Single \/ Stop \/ Reset
      \/ Give
      \/ \E s \in Slot : Fire(s)
      \/ ReadCommand \/ WorkerStep \/ Persist \/ Link \/ Fill \/ UNCHANGED vars
  BY DEF Next, Serve, Own, Handle
<1> QED BY <1>1, <1>2, <1>3, <1>4, <1>5, <1>6, <1>7, <1>8

LEMMA FoundRecord ==
    ASSUME PoolInv, NEW T, NEW w, NEW q, Records(ops, blocks, T, w, q), NEW i \in Id
    PROVE  /\ Has(i) # {} <=> i \in DOMAIN T
           /\ i \in DOMAIN T => Find(i) = w[i] /\ w[i] \in Slot /\ blocks[w[i]].id = i
<1>1. ops \in Pool /\ Has(i) = HasIn(blocks, i) /\ Find(i) = Lowest(HasIn(blocks, i))
  BY DEF PoolInv, PoolTyped, Has, HasIn, Find
<1>2. i \in DOMAIN T => w[i] \in Slot /\ blocks[w[i]].id = i
  BY DEF Records
<1> QED BY <1>1, <1>2, RecordsTable

LEMMA CreateFollows ==
    ASSUME PoolInv, HandlerInv, NEW T, NEW w, NEW q, Records(ops, blocks, T, w, q), Create
    PROVE  Follows(T)
<1>1. handler.doing = "create"
  BY DEF Create, Handling
<1>2. PICK i \in Id : i = handler.id /\ \E list : handler = Listed("create", i, list)
  <2>1. PICK what \in {"create", "append"}, i \in Id : handler = Listed(what, i, handler.list)
    BY <1>1, HandledCommand
  <2>2. what = "create" /\ i = handler.id
    BY <1>1, <2>1 DEF Listed
  <2> QED BY <2>1, <2>2
<1>3. ClientAnswer = "none" /\ ops' = ops /\ ops \in Pool /\ blocks \in Blocks
  BY <1>1 DEF ClientAnswer, Create, PoolInv, PoolTyped
<1>4. Has(i) # {} <=> i \in DOMAIN T
  BY FoundRecord
<1>5. PICK N : N = Cardinality(DOMAIN T)
  OBVIOUS
<1>6. N = Cardinality(Slot) <=> Has(Free) = {}
  BY <1>3, <1>5, RecordsFull DEF Has, HasIn
<1>7. Table!Created(T, i) =
         IF i \in DOMAIN T THEN <<"EEXIST", T>>
         ELSE IF N = Cardinality(Slot) THEN <<"ENOMEM", T>>
         ELSE <<"none", Table!With(T, i, <<>>)>>
  BY <1>5 DEF Table!Created, Table!Cardinality, Cardinality, Table!IsFiniteSet, IsFiniteSet
<1>8. Table!Created(T, i) \in Table!Outcomes(T)
  BY DEF Table!Outcomes
<1>9. CASE Has(i) # {} /\ Answer("EEXIST") /\ UNCHANGED blocks
  <2>1. ClientAnswer' = "EEXIST"
    BY <1>9 DEF Answer, ClientAnswer
  <2>2. <<ClientAnswer', T>> \in Table!Outcomes(T)
    BY <1>4, <1>7, <1>8, <1>9, <2>1
  <2> QED BY <1>3, <1>9, <2>2 DEF Follows, Answers
<1>10. CASE Has(i) = {} /\ Has(Free) = {} /\ Answer("ENOMEM") /\ UNCHANGED blocks
  <2>1. ClientAnswer' = "ENOMEM"
    BY <1>10 DEF Answer, ClientAnswer
  <2>2. <<ClientAnswer', T>> \in Table!Outcomes(T)
    BY <1>4, <1>6, <1>7, <1>8, <1>10, <2>1
  <2> QED BY <1>3, <1>10, <2>2 DEF Follows, Answers
<1>11. CASE /\ Has(i) = {} /\ Has(Free) # {}
            /\ blocks' = [blocks EXCEPT ![Lowest(Has(Free))] = [id |-> i, ops |-> Nil]]
            /\ handler' = [handler EXCEPT !.doing = "append"]
  <2>1. PICK s \in Slot : s = Lowest(Has(Free)) /\ blocks[s].id = Free
    <3>1. Has(Free) \in SUBSET Nat
      BY PoolAssumption DEF Has
    <3>2. Lowest(Has(Free)) \in Has(Free)
      BY <1>11, <3>1, LowestIsIn
    <3> QED BY <3>2 DEF Has
  <2>2. i \notin DOMAIN T
    BY <1>4, <1>11
  <2>3. blocks' = [blocks EXCEPT ![s] = [id |-> i, ops |-> Nil]]
    BY <1>11, <2>1
  <2>4. PICK bs : bs = [blocks EXCEPT ![s] = [id |-> i, ops |-> Nil]]
    OBVIOUS
  <2>5. \E w2, q2 : Records(ops, bs, Table!With(T, i, <<>>), w2, q2)
    BY <1>3, <2>1, <2>2, <2>4, RecordCreate
  <2>6. ClientAnswer' = "none"
    BY <1>2, <1>11 DEF ClientAnswer, Listed
  <2>7. <<ClientAnswer', Table!With(T, i, <<>>)>> \in Table!Outcomes(T)
    BY <1>6, <1>7, <1>8, <1>11, <2>2, <2>6
  <2>8. ops' = ops /\ blocks' = bs
    BY <1>3, <2>3, <2>4
  <2> QED BY <2>5, <2>7, <2>8 DEF Follows, Answers
<1>12. \/ Has(i) # {} /\ Answer("EEXIST") /\ UNCHANGED blocks
       \/ Has(i) = {} /\ Has(Free) = {} /\ Answer("ENOMEM") /\ UNCHANGED blocks
       \/ /\ Has(i) = {} /\ Has(Free) # {}
          /\ blocks' = [blocks EXCEPT ![Lowest(Has(Free))] = [id |-> i, ops |-> Nil]]
          /\ handler' = [handler EXCEPT !.doing = "append"]
  BY <1>2 DEF Create
<1> QED BY <1>9, <1>10, <1>11, <1>12

LEMMA AppendFollows ==
    ASSUME PoolInv, HandlerInv, ListInv,
           NEW T, NEW w, NEW q, Records(ops, blocks, T, w, q), AppendBlock
    PROVE  Follows(T)
<1>1. handler.doing = "append" /\ Has(handler.id) # {}
  BY DEF AppendBlock, Handling
<1>2. PICK list : list = handler.list /\ list \in ClientLists
  BY <1>1 DEF ListInv
<1>3. PICK i \in Id : i = handler.id /\ IsList(list)
  <2>1. PICK what \in {"create", "append"}, i \in Id :
           handler = Listed(what, i, handler.list) /\ IsList(handler.list)
    BY <1>1, HandledCommand
  <2>2. i = handler.id
    BY <2>1 DEF Listed
  <2> QED BY <1>2, <2>1, <2>2
<1>4. i \in DOMAIN T /\ Find(i) = w[i] /\ w[i] \in Slot /\ blocks[w[i]].id = i
  BY <1>1, <1>3, FoundRecord
<1>5. PICK s \in Slot : s = w[i] /\ s = Find(handler.id)
  BY <1>3, <1>4
<1>6. ops \in Pool /\ blocks \in Blocks /\ blocks[s].ops \in Heads
  BY DEF PoolInv, PoolTyped, Blocks
<1>7. PICK l0 \in Lists : l0 = [ops |-> ops, head |-> blocks[s].ops, answer |-> "ok"]
  BY <1>6 DEF Lists
<1>8. IsList(T[i]) /\ Table!Used(T) \in Nat /\ Table!Used(T) = Cardinality(Taken(ops))
  <2>1. Row(ops, blocks[w[i]].ops, q[i], T[i])
    BY <1>4 DEF Records
  <2> QED BY <1>6, <2>1, RecordsUsed DEF Row
<1>9. Looped(l0, blocks, T, w, i, list, 0)
  <2>1. l0.ops = ops /\ l0.head = blocks[s].ops /\ l0.answer = "ok"
    BY <1>7
  <2>2. [blocks EXCEPT ![w[i]].ops = l0.head] = blocks
    BY <1>5, <1>6, <2>1 DEF Blocks
  <2>3. Prolonged(T[i], list, 0) = T[i]
    BY <1>3, <1>8, ProlongedByNone
  <2>4. Table!With(T, i, T[i]) = T
    <3>1. T = [j \in DOMAIN T |-> T[j]]
      BY DEF Records
    <3>2. Table!With(T, i, T[i]) = [j \in DOMAIN T |-> T[j]]
      BY <1>4 DEF Table!With
    <3> QED BY <3>1, <3>2
  <2>5. \E q2 : Records(l0.ops, [blocks EXCEPT ![w[i]].ops = l0.head],
                        Table!With(T, i, Prolonged(T[i], list, 0)), w, q2)
    BY <2>1, <2>2, <2>3, <2>4
  <2>6. Cardinality(Taken(l0.ops)) = Table!Used(T) + 0
    BY <1>8, <2>1
  <2>7. Reached(l0, blocks, T, w, i, list, 0)
    BY <2>5, <2>6 DEF Reached
  <2> QED BY <2>1, <2>7 DEF Looped
<1>10. PICK l : l = AppendVariables(l0, list)
  OBVIOUS
<1>11. Looped(l, blocks, T, w, i, list, Len(list))
  BY <1>3, <1>4, <1>6, <1>8, <1>9, <1>10, ListTaken
<1>12. PICK T2, q2 : /\ Records(l.ops, [blocks EXCEPT ![w[i]].ops = l.head], T2, w, q2)
                     /\ Table!Extended(T, i, list) = <<l.answer, T2>>
  <2>1. ListTakes(l, blocks, T, w, i, list)
    BY <1>3, <1>4, <1>6, <1>8, <1>11, ListExtends
  <2> QED BY <2>1 DEF ListTakes
<1>13. ops' = l.ops /\ blocks' = [blocks EXCEPT ![s].ops = l.head] /\ Answer(l.answer)
  BY <1>2, <1>5, <1>7, <1>10 DEF AppendBlock
<1>14. ClientAnswer' = l.answer
  BY <1>13 DEF Answer, ClientAnswer
<1>15. Table!Extended(T, i, list) \in Table!Outcomes(T)
  BY <1>2, <1>4 DEF Table!Outcomes, ClientLists
<1>16. Records(ops', blocks', T2, w, q2)
  BY <1>5, <1>12, <1>13
<1>17. <<ClientAnswer', T2>> \in Table!Outcomes(T)
  BY <1>12, <1>14, <1>15
<1> QED BY <1>16, <1>17 DEF Follows, Answers

LEMMA DeleteFollows ==
    ASSUME PoolInv, HandlerInv, NEW T, NEW w, NEW q, Records(ops, blocks, T, w, q), Delete
    PROVE  Follows(T)
<1>1. handler.doing = "delete" /\ Has(handler.id) # {}
  BY DEF Delete, Handling
<1>2. PICK i \in Id : i = handler.id
  BY <1>1, HandledCommand
<1>3. i \in DOMAIN T /\ Find(i) = w[i]
  BY <1>1, <1>2, FoundRecord
<1>4. PoolTyped /\ NoCircle(ops) /\ ops \in Pool /\ blocks \in Blocks
  BY DEF PoolInv, PoolTyped, Sound
<1>5. /\ ops' = FreeOps(ops, Linked(ops, blocks[w[i]].ops))
      /\ blocks' = [blocks EXCEPT ![w[i]].id = Free] /\ Answer("ok")
  <2>1. ops' = FreeOps(ops, OpsOf(Find(handler.id)))
    BY DEF Delete
  <2>2. blocks' = [blocks EXCEPT ![Find(handler.id)].id = Free] /\ Answer("ok")
    BY <1>4, DeleteEnds
  <2> QED BY <1>2, <1>3, <2>1, <2>2 DEF OpsOf
<1>6. PICK T2 : T2 = [j \in DOMAIN T \ {i} |-> T[j]]
  OBVIOUS
<1>7. PICK os, bs : /\ os = FreeOps(ops, Linked(ops, blocks[w[i]].ops))
                    /\ bs = [blocks EXCEPT ![w[i]].id = Free]
  OBVIOUS
<1>8. \E w2 : Records(os, bs, T2, w2, q)
  BY <1>3, <1>4, <1>6, <1>7, RecordDelete
<1>9. ClientAnswer' = "ok"
  BY <1>5 DEF Answer, ClientAnswer
<1>10. <<ClientAnswer', T2>> \in Table!Outcomes(T)
  <2>1. Table!Deleted(T, i) = <<"ok", T2>>
    BY <1>6 DEF Table!Deleted
  <2>2. Table!Deleted(T, i) \in Table!Outcomes(T)
    BY <1>3 DEF Table!Outcomes
  <2> QED BY <1>9, <2>1, <2>2
<1> QED BY <1>5, <1>7, <1>8, <1>10 DEF Follows, Answers

\* Every block and every operation given back.
LEMMA AllGivenBack ==
    ASSUME PoolTyped,
           ops' = FreeOps(ops, Op), blocks' = [s \in Slot |-> [blocks[s] EXCEPT !.id = Free]]
    PROVE  \E w, q : Records(ops', blocks', Table!Empty, w, q)
<1>1. Taken(ops') = {}
  BY Freed DEF PoolTyped, Taken
<1>2. InUse(blocks') = {}
  BY DEF PoolTyped, Blocks, InUse
<1> QED BY <1>1, <1>2, RecordsEmpty

LEMMA ResetFollows ==
    ASSUME PoolTyped, NEW T, Reset
    PROVE  Follows(T)
<1>1. \E w, q : Records(ops', blocks', Table!Empty, w, q)
  BY AllGivenBack DEF Reset, LogReset
<1>2. ClientAnswer' = "ok"
  BY DEF Reset, Answer, ClientAnswer
<1>3. <<ClientAnswer', Table!Empty>> \in Table!Outcomes(T)
  BY <1>2 DEF Table!Outcomes
<1> QED BY <1>1, <1>3 DEF Follows, Answers

\* An answer about a table that stays as it is.
LEMMA AnswerFollows ==
    ASSUME PoolInv, HandlerInv, NEW T, NEW w, NEW q, Records(ops, blocks, T, w, q),
           NotFound \/ Start \/ Single \/ Stop \/ Give
    PROVE  Follows(T)
<1>1. UNCHANGED <<ops, blocks>>
  BY DEF NotFound, Start, Single, Stop, Give
<1>2. CASE Give
  <2>1. ClientAnswer' = "none"
    BY <1>2 DEF Give, ClientAnswer, Idle
  <2>2. <<ClientAnswer', T>> \in Table!Outcomes(T)
    BY <2>1 DEF Table!Outcomes
  <2> QED BY <1>1, <2>2 DEF Follows, Answers
<1>3. CASE NotFound
  <2>1. handler.doing \in {"append", "delete", "start", "single", "stop"} /\ Has(handler.id) = {}
    BY <1>3 DEF NotFound, Handling
  <2>2. PICK i \in Id : i = handler.id
    <3>1. CASE handler.doing = "append"
      <4>1. PICK what \in {"create", "append"}, i \in Id : handler = Listed(what, i, handler.list)
        BY <3>1, HandledCommand
      <4> QED BY <4>1 DEF Listed
    <3>2. CASE handler.doing # "append"
      BY <2>1, <3>2, HandledCommand
    <3> QED BY <3>1, <3>2
  <2>3. i \in Id \ DOMAIN T
    BY <2>1, <2>2, FoundRecord
  <2>4. ClientAnswer' = "ENOENT"
    BY <1>3 DEF NotFound, Answer, ClientAnswer
  <2>5. <<ClientAnswer', T>> \in Table!Outcomes(T)
    BY <2>3, <2>4 DEF Table!Outcomes
  <2> QED BY <1>1, <2>5 DEF Follows, Answers
<1>4. CASE Start \/ Single \/ Stop
  <2>1. handler.doing \in {"start", "single", "stop"} /\ Has(handler.id) # {} /\ Answer("ok")
    BY <1>4 DEF Start, Single, Stop, Handling
  <2>2. PICK i \in Id : i = handler.id
    BY <2>1, HandledCommand
  <2>3. i \in DOMAIN T
    BY <2>1, <2>2, FoundRecord
  <2>4. ClientAnswer' = "ok"
    BY <2>1 DEF Answer, ClientAnswer
  <2>5. <<ClientAnswer', T>> \in Table!Outcomes(T)
    BY <2>3, <2>4 DEF Table!Outcomes
  <2> QED BY <1>1, <2>5 DEF Follows, Answers
<1> QED BY <1>2, <1>3, <1>4

\* A command is taken without an answer, and the other steps leave the handler alone.
LEMMA NothingAnswered ==
    ASSUME \/ \E command \in Requests : Take(command)
           \/ \E s \in Slot : Fire(s)
           \/ ReadCommand \/ WorkerStep \/ Persist \/ Link \/ Fill \/ UNCHANGED vars
    PROVE  UNCHANGED ClientAnswer
<1>1. CASE UNCHANGED handler
  BY <1>1 DEF ClientAnswer
<1>2. ASSUME NEW command \in Requests, Take(command) PROVE UNCHANGED ClientAnswer
  <2>1. command.doing # "answer"
    BY PoolAssumption DEF IsCommand, ResetAll, For, Listed
  <2>2. ClientAnswer = "none" /\ ClientAnswer' = "none"
    BY <1>2, <2>1 DEF Take, ClientAnswer, Idle
  <2> QED BY <2>2
<1>3. \/ UNCHANGED handler
      \/ \E command \in Requests : Take(command)
  BY DEF Fire, ReadCommand, WorkerStep, Receive, Resume, LogRunBlock, Stored, ResetNext,
         ResetStop, ResetDelete, ResetOnly, Persist, Link, Fill, vars
<1> QED BY <1>1, <1>2, <1>3

LEMMA OtherFollows ==
    ASSUME NEW T, NEW w, NEW q, Records(ops, blocks, T, w, q),
           \/ \E command \in Requests : Take(command)
           \/ \E s \in Slot : Fire(s)
           \/ ReadCommand \/ Receive \/ Resume \/ Stored \/ Persist \/ Link \/ Fill
           \/ UNCHANGED vars
    PROVE  Follows(T)
<1>1. UNCHANGED <<ops, blocks>>
  BY ElsewhereKeeps DEF Elsewhere
<1>2. UNCHANGED ClientAnswer
  BY NothingAnswered DEF WorkerStep
<1>3. Records(ops', blocks', T, w, q)
  BY <1>1
<1> QED BY <1>2, <1>3 DEF Follows, Answers

LEMMA StepFollows ==
    ASSUME PoolInv, HandlerInv, ListInv, NEW T, NEW w, NEW q, Records(ops, blocks, T, w, q),
           worker.doing # "reset", [Next]_vars
    PROVE  Follows(T)
<1>1. CASE Create
  BY <1>1, CreateFollows
<1>2. CASE AppendBlock
  BY <1>2, AppendFollows
<1>3. CASE Delete
  BY <1>3, DeleteFollows
<1>4. CASE Reset
  BY <1>4, ResetFollows DEF PoolInv
<1>5. CASE NotFound \/ Start \/ Single \/ Stop \/ Give
  BY <1>5, AnswerFollows
<1>6. CASE \/ \E command \in Requests : Take(command)
           \/ \E s \in Slot : Fire(s)
           \/ ReadCommand \/ Receive \/ Resume \/ Stored \/ Persist \/ Link \/ Fill
           \/ UNCHANGED vars
  BY <1>6, OtherFollows
<1>7. ~(ResetNext \/ ResetStop \/ ResetDelete)
  BY DEF ResetNext, ResetStop, ResetDelete, InReset
<1> QED BY <1>1, <1>2, <1>3, <1>4, <1>5, <1>6, <1>7, AnyStep DEF Elsewhere

----------------------------------------------------------------------------
LEMMA ClientTableIs ==
    ASSUME ops \in Pool, NEW T, NEW w, NEW q, Records(ops, blocks, T, w, q),
           worker.doing # "reset"
    PROVE  ClientTable = T
<1>1. TableOf(ops, blocks) = T
  BY RecordsTable
<1>2. ClientTable = TableOf(ops, blocks)
  BY DEF ClientTable, TableOf, Used, InUse, Find, Has, HasIn
<1> QED BY <1>1, <1>2

LEMMA InitRecords == Init => RecordsInv /\ ListInv /\ Table!Init
<1> SUFFICES ASSUME Init PROVE RecordsInv /\ ListInv /\ Table!Init
  OBVIOUS
<1>1. InUse(blocks) = {} /\ Taken(ops) = {} /\ ops \in Pool
  BY DEF Init, InUse, Taken, Pool, Heads
<1>2. PICK w, q : Records(ops, blocks, Table!Empty, w, q)
  BY <1>1, RecordsEmpty
<1>3. ClientTable = Table!Empty
  BY <1>1, <1>2, ClientTableIs DEF Init, Idle
<1>4. ClientAnswer = "none" /\ ListInv
  BY DEF Init, ClientAnswer, ListInv, Idle
<1> QED BY <1>2, <1>3, <1>4 DEF RecordsInv, Recorded, Table!Init

\* A step outside the worker's reset, or into it.
LEMMA ServingRecords ==
    ASSUME LogInv, LogInv', ListInv, RecordsInv, [Next]_vars, ~entered, worker.doing # "reset"
    PROVE  RecordsInv' /\ Table!Next
<1>1. PICK T, w, q : Records(ops, blocks, T, w, q)
  BY DEF RecordsInv, Recorded
<1>2. PoolInv /\ HandlerInv /\ ops \in Pool /\ ops' \in Pool
  BY DEF LogInv, PoolInv, PoolTyped, Undisturbed
<1>3. PICK T2, w2, q2 : Records(ops', blocks', T2, w2, q2) /\ Answers(T, T2)
  BY <1>1, <1>2, StepFollows DEF Follows
<1>4. ClientTable = T
  BY <1>1, <1>2, ClientTableIs
<1>5. CASE worker'.doing # "reset"
  <2>1. TableOf(ops', blocks') = T2
    BY <1>2, <1>3, RecordsTable
  <2>2. ClientTable' = TableOf(ops', blocks')
    BY <1>5 DEF ClientTable, TableOf, Used, InUse, Find, Has, HasIn
  <2> QED BY <1>3, <1>4, <2>1, <2>2 DEF Table!Next, Answers, RecordsInv, Recorded
<1>6. CASE worker'.doing = "reset"
  <2>1. ClientTable' = Table!Empty
    BY <1>6 DEF ClientTable, Table!Empty
  <2>2. ~Handle
    BY <1>6 DEF Handle, Create, NotFound, AppendBlock, Delete, Start, Single, Stop, Reset, Give,
                Handling
  <2>3. UNCHANGED ClientAnswer
    BY <2>2, NothingAnswered DEF Next, Serve, Own
  <2> QED BY <1>6, <2>1, <2>3 DEF Table!Next, RecordsInv
<1> QED BY <1>5, <1>6

\* A step of the worker's reset, or beside it: the client has no table and no answer.
LEMMA ResettingRecords ==
    ASSUME LogInv, LogInv', [Next]_vars, ~entered, ~entered', worker.doing = "reset"
    PROVE  RecordsInv' /\ Table!Next
<1>1. ClientTable = Table!Empty
  BY DEF ClientTable, Table!Empty
<1>2. ~Handle
  BY HandlerAlone DEF LogInv
<1>3. UNCHANGED ClientAnswer
  BY <1>2, NothingAnswered DEF Next, Serve, Own
<1>4. CASE worker'.doing = "reset"
  <2>1. ClientTable' = Table!Empty
    BY <1>4 DEF ClientTable, Table!Empty
  <2> QED BY <1>3, <1>4, <2>1 DEF Table!Next, RecordsInv
<1>5. CASE worker'.doing # "reset"
  <2>1. ResetNext
    <3>1. ~Receive /\ ~Resume /\ ~Stored
      BY DEF Receive, Resume, Stored
    <3>2. ~ResetStop /\ ~ResetDelete
      BY <1>5 DEF ResetStop, ResetDelete, Resetting
    <3>3. ASSUME \/ \E command \in Requests : Take(command)
                 \/ \E s \in Slot : Fire(s)
                 \/ ReadCommand \/ Persist \/ Link \/ Fill \/ UNCHANGED vars
          PROVE  worker' = worker
      BY <3>3 DEF Take, Fire, ReadCommand, Persist, Link, Fill, vars
    <3> QED BY <1>2, <1>5, <3>1, <3>2, <3>3 DEF Next, Serve, Own, WorkerStep
  <2>2. /\ ops' = FreeOps(ops, Op)
        /\ blocks' = [s \in Slot |-> [blocks[s] EXCEPT !.id = Free]]
    BY <1>5, <2>1 DEF ResetNext, Resetting
  <2>3. PICK w, q : Records(ops', blocks', Table!Empty, w, q)
    BY <2>2, AllGivenBack DEF LogInv
  <2>4. TableOf(ops', blocks') = Table!Empty
    BY <2>3, RecordsTable DEF LogInv, PoolTyped
  <2>5. ClientTable' = TableOf(ops', blocks')
    BY <1>5 DEF ClientTable, TableOf, Used, InUse, Find, Has, HasIn
  <2> QED BY <1>1, <1>3, <2>3, <2>4, <2>5 DEF Table!Next, RecordsInv, Recorded
<1> QED BY <1>4, <1>5

LEMMA StepRecords ==
    ASSUME LogInv, LogInv', ListInv, RecordsInv, [Next]_vars
    PROVE  RecordsInv' /\ (entered' \/ Table!Next)
<1> SUFFICES ASSUME ~entered' PROVE RecordsInv' /\ Table!Next
  BY DEF RecordsInv
<1>1. ~entered
  BY DEF Next, Serve, Take, Own, Handle, Create, NotFound, AppendBlock, Delete, Start, Single,
         Stop, Reset, Give, Handling, Fire, ReadCommand, WorkerStep, Receive, Resume,
         LogRunBlock, Stored, ResetNext, ResetStop, ResetDelete, ResetOnly, Persist, Link, Fill,
         vars
<1>2. CASE worker.doing = "reset"
  BY <1>1, <1>2, ResettingRecords
<1>3. CASE worker.doing # "reset"
  BY <1>1, <1>3, ServingRecords
<1> QED BY <1>2, <1>3

\* The pool, its links and the slots are a table of lists: every command leaves in them what
\* the client was answered, of a list that does not fit the part before the error
\* (logCreateBlock, logAppendBlock, logDeleteBlock, logReset). A worker's reset, without the
\* lock, empties the table at its start, and this holds until a command is taken in the
\* middle of one.
THEOREM ServiceKeepsTheTable == Spec => KeepsTheTable
<1>1. Init => ListInv /\ RecordsInv /\ Table!Init
  BY InitRecords
<1>2. LogInv /\ LogInv' /\ ListInv /\ RecordsInv /\ [Next]_vars
        => ListInv' /\ RecordsInv' /\ [entered' \/ Table!Next]_(Table!vars)
  BY StepList, StepRecords DEF LogInv
<1> QED BY <1>1, <1>2, LogInvariant, PTL DEF Spec, KeepsTheTable
=============================================================================
