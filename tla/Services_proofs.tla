-------------------------- MODULE Services_proofs --------------------------
(* Proofs about the storage, and about the two services together.            *)
(*                                                                           *)
(* The storage's invariant is that the memory, once the operation under way  *)
(* has written all it has left to write, is laid out as a table (Laid): from *)
(* the first item each leads to the next, and the last is the end.  A walk   *)
(* through a table finds the nearest item it looks for (WalkLeast), a write  *)
(* makes a table of a table (the lemmas on Makes), and so does each turn of  *)
(* the packing (PackStep), whatever the number of turns.                     *)
(*                                                                           *)
(* What power lost between two writes leaves is a memory of which each byte  *)
(* is that before the writes or that after them (Mixed).  Whatever the       *)
(* bytes, if a walk through it finds an end then it meets the items of the   *)
(* other keys (SparesOthers), and as long as no write moves memory what is   *)
(* left to write is of that kind (Planned).                                  *)
(*                                                                           *)
(* For the refinement of KvMap the table laid out is that of the promise, its *)
(* items apart in the memory (Keeps): a hole, a new value or a new item keep *)
(* all others, a turn of the packing moves each with its value (TurnKeeps),  *)
(* and a packed table leaves no byte between two items, so that what does    *)
(* not fit it does not fit at all (DenseFull).                               *)
EXTENDS Services, LogService_proofs, SequenceTheorems

----------------------------------------------------------------------------
(* Writes of the memory, one after another.                                  *)

Writes ==
    {w \in [at : Nat, bytes : Seq(Byte), moving : BOOLEAN] : w.at + Len(w.bytes) <= MemorySize}

LEMMA WriteType ==
    ASSUME NEW w \in Writes
    PROVE  /\ w.at \in Nat /\ w.bytes \in Seq(Byte) /\ w.moving \in BOOLEAN
           /\ Len(w.bytes) \in Nat /\ w.at + Len(w.bytes) <= MemorySize
           /\ \A i \in 1..Len(w.bytes) : w.bytes[i] \in Byte
<1>1. w.at \in Nat /\ w.bytes \in Seq(Byte) /\ w.moving \in BOOLEAN
      /\ w.at + Len(w.bytes) <= MemorySize
  BY DEF Writes
<1> QED BY <1>1

LEMMA PutType ==
    ASSUME NEW m \in Memory, NEW w \in Writes
    PROVE  Put(m, w) \in Memory
<1>1. ASSUME NEW a \in 0..(MemorySize - 1), a \in w.at..(w.at + Len(w.bytes) - 1)
      PROVE  w.bytes[a - w.at + 1] \in Byte
  <2>1. a \in Int /\ w.at \in Nat /\ Len(w.bytes) \in Nat
    BY <1>1, WriteType, TableAssumption
  <2>2. a - w.at + 1 \in 1..Len(w.bytes)
    BY <1>1, <2>1
  <2> QED BY <2>2, WriteType
<1> QED BY <1>1 DEF Put, Memory

\* What a byte is after a write.
LEMMA PutByte ==
    ASSUME NEW m \in Memory, NEW w \in Writes, NEW a \in 0..(MemorySize - 1)
    PROVE  Put(m, w)[a] =
               IF a >= w.at /\ a < w.at + Len(w.bytes) THEN w.bytes[a - w.at + 1] ELSE m[a]
BY WriteType, TableAssumption DEF Put, Memory

StepsBy(f, k, ws) == \A n \in 1..k : f[n] = Put(f[n - 1], ws[n])

LEMMA AppliedSteps ==
    ASSUME NEW m, NEW ws \in Seq(Writes)
    PROVE  \E f : f[0] = m /\ Applied(m, ws) = f[Len(ws)] /\ StepsBy(f, Len(ws), ws)
<1> DEFINE Is(f, k) == f = [n \in 0..k |-> IF n = 0 THEN m ELSE Put(f[n - 1], ws[n])]
<1>0. PICK k \in Nat : k = Len(ws)
  OBVIOUS
<1> HIDE DEF Is
<1> DEFINE NoneYet == {n \in 0..k : ~ \E f : Is(f, n)}
<1>1. ASSUME NoneYet # {} PROVE FALSE
  <2>1. PICK n \in NoneYet : \A i \in NoneYet : n <= i
    BY <1>0, <1>1, SmallestUpTo
  <2>2. n # 0
    <3> DEFINE one == [i \in 0..0 |-> m]
    <3>1. one = [i \in 0..0 |-> IF i = 0 THEN m ELSE Put(one[i - 1], ws[i])]
      OBVIOUS
    <3> HIDE DEF one
    <3> QED BY <2>1, <3>1 DEF Is
  <2>3. PICK f : Is(f, n - 1)
    <3>1. n - 1 \in 0..k /\ n - 1 \notin NoneYet
      BY <1>0, <2>1, <2>2
    <3> QED BY <3>1
  <2> DEFINE g == [i \in 0..n |-> IF i = n THEN Put(f[n - 1], ws[n]) ELSE f[i]]
  <2>4. \A i \in 0..(n - 1) : g[i] = f[i]
    BY <2>1
  <2>5. g[n] = Put(g[n - 1], ws[n])
    BY <2>1, <2>2, <2>4
  <2>6. ASSUME NEW i \in 0..n PROVE g[i] = IF i = 0 THEN m ELSE Put(g[i - 1], ws[i])
    <3>1. CASE i = n
      BY <3>1, <2>5, <2>2
    <3>2. CASE i # n
      <4>1. i \in 0..(n - 1) /\ (i # 0 => i - 1 \in 0..(n - 1))
        BY <2>1, <3>2
      <4>2. f[i] = IF i = 0 THEN m ELSE Put(f[i - 1], ws[i])
        BY <2>3, <4>1 DEF Is
      <4> QED BY <2>4, <4>1, <4>2
    <3> QED BY <3>1, <3>2
  <2> HIDE DEF g
  <2>7. g = [i \in 0..n |-> g[i]]
    BY DEF g
  <2>8. Is(g, n)
    BY <2>6, <2>7 DEF Is
  <2> QED BY <2>1, <2>8
<1>2. \E f : Is(f, k)
  BY <1>1
<1>3. PICK f : f = CHOOSE h : Is(h, k)
  OBVIOUS
<1>4. Applied(m, ws) = f[Len(ws)]
  BY <1>0, <1>3, Zenon DEF Applied, Is
<1>5. Is(f, k)
  <2> QED BY <1>2, <1>3
<1> QED BY <1>0, <1>4, <1>5 DEF StepsBy, Is

LEMMA AppliedNone == ASSUME NEW m PROVE Applied(m, <<>>) = m
<1>1. <<>> \in Seq(Writes) /\ Len(<<>>) = 0
  BY EmptySeq
<1> QED BY <1>1, AppliedSteps

\* Steps from the same memory with the same bytes are the same steps.
SameBytes(k, ws, vs) ==
    \A n \in 1..k : ws[n].at = vs[n].at /\ ws[n].bytes = vs[n].bytes

LEMMA SameSteps ==
    ASSUME NEW k \in Nat, NEW f, NEW g, NEW ws, NEW vs, f[0] = g[0],
           StepsBy(f, k, ws), StepsBy(g, k, vs), SameBytes(k, ws, vs)
    PROVE  f[k] = g[k]
<1> DEFINE Other == {n \in 0..k : f[n] # g[n]}
<1> SUFFICES ASSUME Other # {} PROVE FALSE
  OBVIOUS
<1>1. PICK n \in Other : \A i \in Other : n <= i
  BY SmallestUpTo
<1>2. n \in 1..k /\ n - 1 \in 0..k /\ n - 1 \notin Other
  BY <1>1
<1>3. Put(f[n - 1], ws[n]) = Put(g[n - 1], vs[n])
  BY <1>2 DEF Put, SameBytes
<1> QED BY <1>1, <1>2, <1>3 DEF StepsBy

\* s is h followed by the n elements of t.
Begins(s, h, t, n) ==
    /\ Head(s) = h /\ Tail(s) = t /\ s[1] = h /\ Len(t) = n /\ Len(s) = n + 1
    /\ \A i \in 1..n : t[i] = s[i + 1]

LEMMA HeadTail ==
    ASSUME NEW S, NEW s \in Seq(S), s # <<>>
    PROVE  \E h \in S, t \in Seq(S), n \in Nat : Begins(s, h, t, n)
<1>1. /\ Head(s) \in S /\ Tail(s) \in Seq(S) /\ Len(Tail(s)) = Len(s) - 1
      /\ \A i \in 1..Len(Tail(s)) : Tail(s)[i] = s[i + 1]
  BY HeadTailProperties
<1>2. PICK t \in Seq(S) : t = Tail(s)
  BY <1>1
<1>3. Len(t) = Len(s) - 1 /\ \A i \in 1..Len(t) : t[i] = s[i + 1]
  BY <1>1, <1>2, Zenon
<1>4. PICK n \in Nat : n = Len(t)
  OBVIOUS
<1>5. Len(s) = n + 1
  BY <1>3, <1>4
<1>6. Head(s) = s[1]
  OBVIOUS
<1>7. Begins(s, Head(s), t, n)
  BY <1>2, <1>3, <1>4, <1>5, <1>6 DEF Begins
<1> QED BY <1>1, <1>7, Zenon

\* What an operation is about to write, and what it has left once the first is written.
LEMMA AppliedHead ==
    ASSUME NEW m, NEW ws \in Seq(Writes), ws # <<>>
    PROVE  Applied(m, ws) = Applied(Put(m, Head(ws)), Tail(ws))
<1>1. PICK w \in Writes, t \in Seq(Writes), k \in Nat : Begins(ws, w, t, k)
  BY HeadTail
<1>2. PICK f : f[0] = m /\ Applied(m, ws) = f[k + 1] /\ StepsBy(f, k + 1, ws)
  BY <1>1, AppliedSteps DEF Begins
<1>3. PICK g : g[0] = Put(m, w) /\ Applied(Put(m, w), t) = g[k] /\ StepsBy(g, k, t)
  BY <1>1, AppliedSteps DEF Begins
<1> DEFINE h == [n \in 0..k |-> f[n + 1]]
<1>4. h[0] = g[0] /\ h[k] = f[k + 1]
  BY <1>1, <1>2, <1>3 DEF StepsBy, Begins
<1>5. StepsBy(h, k, t)
  <2> SUFFICES ASSUME NEW n \in 1..k PROVE h[n] = Put(h[n - 1], t[n])
    BY DEF StepsBy
  <2>1. h[n] = f[n + 1] /\ h[n - 1] = f[n] /\ n + 1 \in 1..(k + 1) /\ (n + 1) - 1 = n
    OBVIOUS
  <2> QED BY <1>1, <1>2, <2>1 DEF StepsBy, Begins
<1> HIDE DEF h
<1>6. h[k] = g[k]
  BY <1>3, <1>4, <1>5, SameSteps DEF SameBytes
<1> QED BY <1>1, <1>2, <1>3, <1>4, <1>6 DEF Begins

\* The mark of a move makes no difference.
LEMMA AppliedMoving ==
    ASSUME NEW m, NEW ws \in Seq(Writes)
    PROVE  Moving(ws) \in Seq(Writes) /\ Applied(m, Moving(ws)) = Applied(m, ws)
<1>1. /\ Len(ws) \in Nat /\ DOMAIN ws = 1..Len(ws)
      /\ \A n \in 1..Len(ws) : ws[n] \in Writes
  OBVIOUS
<1>2. ASSUME NEW n \in 1..Len(ws)
      PROVE  /\ Moving(ws)[n] \in Writes
             /\ Moving(ws)[n].at = ws[n].at /\ Moving(ws)[n].bytes = ws[n].bytes
  <2>1. ws[n] \in Writes /\ Moving(ws)[n] = [ws[n] EXCEPT !.moving = TRUE]
    BY <1>1, <1>2 DEF Moving
  <2> QED BY <2>1 DEF Writes
<1>3. Moving(ws) \in Seq(Writes) /\ Len(Moving(ws)) = Len(ws)
  <2>1. Moving(ws) \in [1..Len(ws) -> Writes]
    BY <1>1, <1>2 DEF Moving
  <2> QED BY <1>1, <2>1
<1>4. PICK f : f[0] = m /\ Applied(m, ws) = f[Len(ws)]
               /\ StepsBy(f, Len(ws), ws)
  BY AppliedSteps
<1>5. PICK g : g[0] = m /\ Applied(m, Moving(ws)) = g[Len(ws)]
               /\ StepsBy(g, Len(ws), Moving(ws))
  BY <1>3, AppliedSteps
<1>6. f[Len(ws)] = g[Len(ws)]
  <2>1. SameBytes(Len(ws), ws, Moving(ws))
    BY <1>2 DEF SameBytes
  <2> QED BY <1>1, <1>4, <1>5, <2>1, SameSteps
<1> QED BY <1>3, <1>4, <1>5, <1>6

LEMMA AppliedType ==
    ASSUME NEW m \in Memory, NEW ws \in Seq(Writes)
    PROVE  Applied(m, ws) \in Memory
<1>1. PICK f : f[0] = m /\ Applied(m, ws) = f[Len(ws)]
               /\ StepsBy(f, Len(ws), ws)
  BY AppliedSteps
<1>0. Len(ws) \in Nat
  OBVIOUS
<1> DEFINE Other == {n \in 0..Len(ws) : f[n] \notin Memory}
<1>2. ASSUME Other # {} PROVE FALSE
  <2>1. PICK n \in Other : \A i \in Other : n <= i
    BY <1>0, <1>2, SmallestUpTo
  <2>2. n \in 1..Len(ws) /\ n - 1 \in 0..Len(ws) /\ n - 1 \notin Other
    BY <1>1, <2>1
  <2>3. Put(f[n - 1], ws[n]) \in Memory
    BY <2>2, PutType
  <2> QED BY <1>1, <2>1, <2>2, <2>3 DEF StepsBy
<1> QED BY <1>0, <1>1, <1>2

Joins(u, s, t, i, j) ==
    /\ u = s \o t /\ Len(s) = i /\ Len(t) = j /\ Len(u) = i + j
    /\ \A n \in 1..(i + j) : u[n] = IF n <= i THEN s[n] ELSE t[n - i]

LEMMA ConcatShape ==
    ASSUME NEW S, NEW s \in Seq(S), NEW t \in Seq(S),
           NEW i \in Nat, NEW j \in Nat, i = Len(s), j = Len(t)
    PROVE  \E u \in Seq(S) : Joins(u, s, t, i, j)
<1>1. /\ s \o t \in Seq(S) /\ Len(s \o t) = Len(s) + Len(t)
      /\ \A n \in 1..Len(s) + Len(t) : (s \o t)[n] = IF n <= Len(s) THEN s[n] ELSE t[n - Len(s)]
  BY ConcatProperties
<1>2. Joins(s \o t, s, t, i, j)
  BY <1>1 DEF Joins
<1> QED BY <1>1, <1>2, Zenon

LEMMA ConcatTail ==
    ASSUME NEW S, NEW ws \in Seq(S), NEW vs \in Seq(S), ws # <<>>
    PROVE  /\ ws \o vs \in Seq(S) /\ ws \o vs # <<>>
           /\ Head(ws \o vs) = Head(ws) /\ Tail(ws \o vs) = Tail(ws) \o vs
<1>1. PICK w \in S, t \in Seq(S), l \in Nat : Begins(ws, w, t, l)
  BY HeadTail, Zenon
<1>2. PICK j \in Nat : j = Len(vs)
  OBVIOUS
<1>3. PICK u \in Seq(S) : Joins(u, ws, vs, l + 1, j)
  BY <1>1, <1>2, ConcatShape DEF Begins
<1>4. PICK s \in Seq(S) : Joins(s, t, vs, l, j)
  BY <1>1, <1>2, ConcatShape DEF Begins
<1>5. u # <<>>
  BY <1>1, <1>2, <1>3, EmptySeq DEF Begins, Joins
<1>6. PICK v \in S, r \in Seq(S), z \in Nat : Begins(u, v, r, z)
  BY <1>5, HeadTail, Zenon
<1>7. v = w
  BY <1>1, <1>2, <1>3, <1>6 DEF Begins, Joins
<1>8. ASSUME NEW i \in 1..(l + j) PROVE r[i] = s[i]
  <2>1. i \in 1..z /\ i + 1 \in 1..((l + 1) + j) /\ (i + 1) - (l + 1) = i - l
        /\ (i + 1 <= l + 1 <=> i <= l)
    BY <1>1, <1>2, <1>3, <1>6, <1>8 DEF Begins, Joins
  <2>2. r[i] = IF i <= l THEN ws[i + 1] ELSE vs[i - l]
    BY <1>3, <1>6, <2>1 DEF Begins, Joins
  <2>3. CASE i <= l
    BY <1>1, <1>4, <1>8, <2>2, <2>3 DEF Begins, Joins
  <2>4. CASE ~(i <= l)
    BY <1>4, <1>8, <2>2, <2>4 DEF Begins, Joins
  <2> QED BY <2>3, <2>4 DEF Begins, Joins
<1>9. r = s
  <2>1. Len(r) = l + j
    BY <1>3, <1>6 DEF Begins, Joins
  <2> QED BY <1>4, <1>8, <2>1, SeqEqual DEF Joins
<1> QED BY <1>1, <1>3, <1>4, <1>5, <1>6, <1>7, <1>9 DEF Begins, Joins

Splits(ws, vs) == \A m : Applied(m, ws \o vs) = Applied(Applied(m, ws), vs)

LEMMA SplitsTail ==
    ASSUME NEW ws \in Seq(Writes), NEW vs \in Seq(Writes), ws # <<>>, Splits(Tail(ws), vs)
    PROVE  Splits(ws, vs)
<1> SUFFICES ASSUME NEW m
             PROVE  Applied(m, ws \o vs) = Applied(Applied(m, ws), vs)
  BY DEF Splits
<1>1. Applied(m, ws \o vs) = Applied(Put(m, Head(ws)), Tail(ws) \o vs)
  <2>1. PICK u \in Seq(Writes) : u = ws \o vs
    BY ConcatTail
  <2>2. u # <<>> /\ Head(u) = Head(ws) /\ Tail(u) = Tail(ws) \o vs
    BY <2>1, ConcatTail
  <2>3. Applied(m, u) = Applied(Put(m, Head(u)), Tail(u))
    BY <2>2, AppliedHead
  <2> QED BY <2>1, <2>2, <2>3
<1>2. Applied(m, ws) = Applied(Put(m, Head(ws)), Tail(ws))
  BY AppliedHead
<1> QED BY <1>1, <1>2 DEF Splits

LEMMA AppliedConcat ==
    ASSUME NEW ws \in Seq(Writes), NEW vs \in Seq(Writes), NEW m
    PROVE  Applied(m, ws \o vs) = Applied(Applied(m, ws), vs)
<1> DEFINE Split(n) == \A us \in Seq(Writes) : Len(us) = n => Splits(us, vs)
<1>1. PICK k \in Nat : k = Len(ws)
  OBVIOUS
<1> HIDE DEF Split
<1> DEFINE Other == {n \in 0..k : ~ Split(n)}
<1>2. ASSUME Other # {} PROVE FALSE
  <2>1. PICK n \in Other : \A i \in Other : n <= i
    BY <1>2, SmallestUpTo
  <2>2. PICK us \in Seq(Writes) : Len(us) = n /\ ~ Splits(us, vs)
    BY <2>1 DEF Split
  <2>3. us # <<>>
    <3>1. <<>> \o vs = vs
      BY ConcatEmptySeq
    <3>2. Splits(<<>>, vs)
      BY <3>1, AppliedNone DEF Splits
    <3> QED BY <2>2, <3>2
  <2>4. Tail(us) \in Seq(Writes) /\ Len(Tail(us)) = Len(us) - 1 /\ Len(us) \in Nat \ {0}
    BY <2>3, HeadTailProperties, EmptySeq
  <2>5. n - 1 \in 0..k /\ n - 1 \notin Other
    BY <2>1, <2>2, <2>4
  <2>6. Splits(Tail(us), vs)
    BY <2>2, <2>4, <2>5 DEF Split
  <2> QED BY <2>2, <2>3, <2>6, SplitsTail
<1>3. Split(k)
  BY <1>2
<1> QED BY <1>1, <1>3 DEF Split, Splits

----------------------------------------------------------------------------
(* Walks.                                                                    *)

LEMMA Lengths ==
    ASSUME NEW m \in Memory, NEW x \in Nat, x + 1 < MemorySize
    PROVE  FullLength(m, x) \in Nat
<1>1. m[x] \in Byte /\ m[x + 1] \in Byte
  BY TableAssumption DEF Memory
<1>2. m[x] \in Nat /\ m[x + 1] \in Nat
  BY <1>1 DEF Byte
<1>3. \A b, c \in Nat : b + 256 * c \in Nat
  OBVIOUS
<1>4. m[x] + 256 * m[x + 1] \in Nat
  BY <1>2, <1>3
<1> QED BY <1>4 DEF FullLength

OnFrom(f, m, limit, S, k) ==
    /\ f = [x \in Nat |-> f[x]]
    /\ \A x \in Nat : x >= k =>
          f[x] = IF x >= limit THEN None ELSE IF x \in S THEN x ELSE f[x + FullLength(m, x)]

LEMMA LongerOn ==
    ASSUME NEW m \in Memory, NEW limit \in Nat, limit < MemorySize, NEW S,
           NEW k \in Nat, k < limit, NEW f, OnFrom(f, m, limit, S, k + 1)
    PROVE  \E g : OnFrom(g, m, limit, S, k)
<1>1. PICK len \in Nat : len = FullLength(m, k)
  BY Lengths, TableAssumption
<1> DEFINE here == IF k \in S THEN k ELSE IF len = 0 THEN None ELSE f[k + len]
<1> DEFINE g == [x \in Nat |-> IF x = k THEN here ELSE f[x]]
<1>2. /\ g[k] = here /\ \A x \in Nat : x # k => g[x] = f[x]
  OBVIOUS
<1>3. g = [x \in Nat |-> g[x]]
  OBVIOUS
<1> HIDE DEF g
<1>4. ASSUME NEW x \in Nat, x >= k
      PROVE  g[x] = IF x >= limit THEN None ELSE IF x \in S THEN x ELSE g[x + FullLength(m, x)]
  <2>1. CASE x = k
    BY <1>1, <1>2, <2>1
  <2>2. CASE x # k
    <3>1. g[x] = f[x] /\ x >= k + 1
      BY <1>2, <1>4, <2>2
    <3>2. CASE x >= limit
      BY <3>1, <3>2 DEF OnFrom
    <3>3. CASE ~(x >= limit)
      <4>1. FullLength(m, x) \in Nat
        BY <3>3, Lengths, TableAssumption
      <4>2. g[x + FullLength(m, x)] = f[x + FullLength(m, x)]
        BY <1>2, <3>1, <4>1
      <4> QED BY <3>1, <3>3, <4>2 DEF OnFrom
    <3> QED BY <3>2, <3>3
  <2> QED BY <2>1, <2>2
<1> QED BY <1>3, <1>4 DEF OnFrom

LEMMA SomeOn ==
    ASSUME NEW m \in Memory, NEW limit \in Nat, limit < MemorySize, NEW S
    PROVE  \E f : OnFrom(f, m, limit, S, 0)
<1> DEFINE Known0(n) == \E f : OnFrom(f, m, limit, S, limit - n)
<1> HIDE DEF Known0
<1> DEFINE Other == {n \in 0..limit : ~ Known0(n)}
<1>1. ASSUME Other # {} PROVE FALSE
  <2>1. PICK n \in Other : \A i \in Other : n <= i
    BY <1>1, SmallestUpTo
  <2>2. n # 0
    <3> DEFINE f == [x \in Nat |-> None]
    <3>1. f = [x \in Nat |-> f[x]] /\ \A x \in Nat : f[x] = None
      OBVIOUS
    <3> HIDE DEF f
    <3>2. OnFrom(f, m, limit, S, limit - 0)
      BY <3>1 DEF OnFrom
    <3> QED BY <2>1, <3>2 DEF Known0
  <2>3. n - 1 \in 0..limit /\ n - 1 \notin Other
    BY <2>1, <2>2
  <2>4. PICK f : OnFrom(f, m, limit, S, limit - (n - 1))
    BY <2>3 DEF Known0
  <2>5. limit - (n - 1) = (limit - n) + 1 /\ limit - n \in Nat /\ limit - n < limit
    BY <2>1, <2>2
  <2>6. \E g : OnFrom(g, m, limit, S, limit - n)
    BY <2>4, <2>5, LongerOn
  <2> QED BY <2>1, <2>6 DEF Known0
<1>2. Known0(limit)
  BY <1>1
<1>3. limit - limit = 0
  OBVIOUS
<1> QED BY <1>2, <1>3 DEF Known0

LEMMA WalkStep ==
    ASSUME NEW m \in Memory, NEW limit \in Nat, limit < MemorySize, NEW S, NEW x \in Nat
    PROVE  Walk(m, x, limit, S) =
               IF x >= limit THEN None
               ELSE IF x \in S THEN x ELSE Walk(m, x + FullLength(m, x), limit, S)
<1> DEFINE Is(f) ==
        f = [y \in Nat |->
                IF y >= limit THEN None ELSE IF y \in S THEN y ELSE f[y + FullLength(m, y)]]
<1>1. PICK f : f = CHOOSE g : Is(g)
  OBVIOUS
<1>2. \A a : Walk(m, a, limit, S) = f[a]
  BY <1>1, Zenon DEF Walk
<1>3. \E g : Is(g)
  <2>1. PICK g : OnFrom(g, m, limit, S, 0)
    BY SomeOn
  <2>2. Is(g)
    BY <2>1 DEF OnFrom
  <2> QED BY <2>2
<1> HIDE DEF Is
<1>4. Is(f)
  BY <1>1, <1>3
<1>5. f[x] = IF x >= limit THEN None ELSE IF x \in S THEN x ELSE f[x + FullLength(m, x)]
  BY <1>4 DEF Is
<1> QED BY <1>2, <1>5

(* A table: the items from address a to the end tag at e start at the        *)
(* addresses of A; when t, each is long enough for its key.                  *)
ItemOk(m, A, e, t, x) ==
    /\ FullLength(m, x) \in Nat /\ 4 <= FullLength(m, x) /\ x + FullLength(m, x) \in A
    /\ t => 3 + KeyLength(m, x) <= FullLength(m, x)
    /\ \A y \in A : y <= x \/ x + FullLength(m, x) <= y

Laid(m, a, A, e, t) ==
    /\ A \subseteq Nat /\ a \in A /\ e \in A /\ e + 2 < MemorySize
    /\ \A x \in A : a <= x /\ x <= e
    /\ FullLength(m, e) = EndTag
    /\ \A x \in A \ {e} : ItemOk(m, A, e, t, x)

LEMMA LaidItem ==
    ASSUME NEW m \in Memory, NEW a, NEW A, NEW e, NEW t, Laid(m, a, A, e, t), NEW x \in A, x # e
    PROVE  /\ x \in Nat /\ x + 4 <= e /\ x + FullLength(m, x) <= e
           /\ x + FullLength(m, x) \in A
           /\ FullLength(m, x) \in Nat /\ 4 <= FullLength(m, x) /\ FullLength(m, x) # EndTag
BY TableAssumption DEF Laid, ItemOk, EndTag

LEMMA Spaced ==
    ASSUME NEW m \in Memory, NEW a, NEW A, NEW e, NEW t, Laid(m, a, A, e, t),
           NEW x \in A, NEW y \in A, x < y
    PROVE  /\ x # e /\ x \in Nat /\ y \in Nat /\ e \in Nat /\ y <= e /\ a <= x
           /\ FullLength(m, x) \in Nat /\ 4 <= FullLength(m, x) /\ x + FullLength(m, x) \in A
           /\ x + FullLength(m, x) <= y
<1>1. x \in Nat /\ y \in Nat /\ e \in Nat /\ y <= e /\ a <= x
  BY DEF Laid
<1>2. x # e
  BY <1>1
<1>3. ItemOk(m, A, e, t, x)
  BY <1>2 DEF Laid
<1>4. FullLength(m, x) \in Nat /\ 4 <= FullLength(m, x) /\ x + FullLength(m, x) \in A
      /\ (y <= x \/ x + FullLength(m, x) <= y)
  BY <1>3 DEF ItemOk
<1> QED BY <1>1, <1>2, <1>4

LEMMA NoneIsNoAddress == None \notin Nat /\ \A m : None \notin Ends(m) /\ None \notin Headers
BY DEF None, Ends, Headers

\* What a walk from x finds in a table: the first item of S, or nothing.
Nearest(r, A, S, x, limit) ==
    /\ r = None \/ (r \in A /\ r \in S /\ x <= r /\ r < limit)
    /\ \A y \in A : y \in S /\ x <= y /\ y < limit => r # None /\ r <= y

LEMMA WalkLeast ==
    ASSUME NEW m \in Memory, NEW a, NEW A, NEW e, NEW t, Laid(m, a, A, e, t),
           NEW limit \in Nat, limit < MemorySize, MemorySize <= limit + 3, NEW S, NEW x \in A
    PROVE  Nearest(Walk(m, x, limit, S), A, S, x, limit)
<1> DEFINE Good(z) == Nearest(Walk(m, z, limit, S), A, S, z, limit)
<1>0. A \subseteq Nat /\ e \in A /\ e \in Nat /\ \A z \in A : z <= e
  BY DEF Laid
<1> HIDE DEF Good
<1>1. ASSUME NEW z \in A, z \in S \/ z >= limit PROVE Good(z)
  <2>1. z \in Nat
    BY <1>0
  <2>2. Walk(m, z, limit, S) = IF z >= limit THEN None ELSE z
    BY <1>1, <2>1, WalkStep
  <2>3. CASE z >= limit
    <3>1. Nearest(None, A, S, z, limit)
      BY <1>0, <2>1, <2>3 DEF Nearest
    <3> QED BY <2>2, <2>3, <3>1 DEF Good
  <2>4. CASE ~(z >= limit)
    <3>1. Nearest(z, A, S, z, limit)
      BY <1>0, <1>1, <2>1, <2>4, NoneIsNoAddress DEF Nearest
    <3> QED BY <2>2, <2>4, <3>1 DEF Good
  <2> QED BY <2>3, <2>4
<1>2. ASSUME e \notin S, e < limit PROVE Good(e)
  <2>1. Walk(m, e, limit, S) = Walk(m, e + EndTag, limit, S)
    BY <1>0, <1>2, WalkStep DEF Laid
  <2>2. e + EndTag \in Nat /\ e + EndTag >= limit
    BY <1>0, TableAssumption DEF EndTag
  <2>3. Walk(m, e + EndTag, limit, S) = None
    BY <2>2, WalkStep
  <2> QED BY <1>0, <1>2, <2>1, <2>3 DEF Good, Nearest
<1>3. ASSUME NEW z \in A, z # e, z \notin S, z < limit, Good(z + FullLength(m, z))
      PROVE  Good(z)
  <2>1. PICK l \in Nat : l = FullLength(m, z) /\ 4 <= l
    BY <1>3, LaidItem
  <2>2. z \in Nat /\ \A y \in A : y <= z \/ z + l <= y
    BY <1>0, <1>3, <2>1 DEF Laid, ItemOk
  <2>3. Walk(m, z, limit, S) = Walk(m, z + l, limit, S)
    BY <1>3, <2>1, <2>2, WalkStep
  <2>4. PICK r : r = Walk(m, z + l, limit, S)
    OBVIOUS
  <2>5. Nearest(r, A, S, z + l, limit)
    BY <1>3, <2>1, <2>4 DEF Good
  <2>6. Nearest(r, A, S, z, limit)
    <3>1. r = None \/ (r \in A /\ r \in S /\ z <= r /\ r < limit)
      <4>1. ASSUME r \in Nat, z + l <= r PROVE z <= r
        BY <2>1, <2>2, <4>1
      <4> QED BY <1>0, <2>5, <4>1 DEF Nearest
    <3>2. ASSUME NEW y \in A, y \in S, z <= y, y < limit PROVE z + l <= y
      <4>1. y \in Nat /\ y # z
        BY <1>0, <1>3, <3>2
      <4> QED BY <2>2, <3>2, <4>1
    <3> QED BY <2>5, <3>1, <3>2 DEF Nearest
  <2> QED BY <2>3, <2>4, <2>6 DEF Good
<1> DEFINE Other == {n \in 0..e : e - n \in A /\ ~ Good(e - n)}
<1>4. ASSUME Other # {} PROVE FALSE
  <2>1. PICK n \in Other : \A i \in Other : n <= i
    BY <1>0, <1>4, SmallestUpTo
  <2>2. PICK z \in A : z = e - n /\ ~ Good(z)
    BY <2>1
  <2>3. z \notin S /\ z < limit /\ z # e
    BY <1>0, <1>1, <1>2, <2>2
  <2>4. PICK l \in Nat : l = FullLength(m, z) /\ 4 <= l /\ z + l \in A /\ z + l <= e
    BY <2>3, LaidItem
  <2>5. ~ Good(z + l)
    BY <1>3, <2>2, <2>3, <2>4
  <2>6. n - l \in 0..e /\ e - (n - l) = z + l /\ n - l < n
    BY <1>0, <2>1, <2>2, <2>4
  <2>7. n - l \in Other
    BY <2>4, <2>5, <2>6
  <2> QED BY <2>1, <2>6, <2>7
<1>5. e - x \in 0..e /\ e - (e - x) = x
  BY <1>0, LaidItem DEF Laid
<1>6. Good(x)
  BY <1>4, <1>5
<1> QED BY <1>6 DEF Good

LEMMA HeadersOf ==
    ASSUME NEW m \in Memory, NEW x \in Nat, x + 2 < MemorySize
    PROVE  /\ x \in Headers
           /\ x \in Ends(m) <=> FullLength(m, x) = EndTag
           /\ x \in Broken(m) <=> FullLength(m, x) < 4
           /\ x \in Holes(m) <=> KeyLength(m, x) = 0
BY TableAssumption DEF Headers, Ends, Broken, Holes

LEMMA EndOfTable ==
    ASSUME NEW m \in Memory, NEW a, NEW A, NEW e, NEW t, Laid(m, a, A, e, t), NEW x \in A
    PROVE  FindEnd(m, x) = e
<1> DEFINE S == Ends(m) \cup Broken(m)
<1> DEFINE r == Walk(m, x, MemorySize - 2, S)
<1>1. e \in Nat /\ e \in Ends(m) /\ e \in A /\ x <= e /\ e < MemorySize - 2 /\ A \subseteq Nat
  BY HeadersOf, TableAssumption DEF Laid
<1>2. \A y \in A : y \in S => y = e
  <2> SUFFICES ASSUME NEW y \in A, y # e PROVE y \notin S
    OBVIOUS
  <2>1. y \in Nat /\ y + 4 <= e /\ FullLength(m, y) \in Nat /\ 4 <= FullLength(m, y)
        /\ FullLength(m, y) # EndTag
    BY LaidItem
  <2>2. y + 2 < MemorySize
    BY <1>1, <2>1, TableAssumption
  <2> QED BY <2>1, <2>2, HeadersOf
<1> HIDE DEF S
<1>3. e \in S
  BY <1>1 DEF S
<1>4. Nearest(r, A, S, x, MemorySize - 2)
  <2>1. MemorySize - 2 \in Nat /\ MemorySize - 2 < MemorySize
        /\ MemorySize <= (MemorySize - 2) + 3
    BY TableAssumption
  <2> HIDE DEF r
  <2> QED BY <2>1, WalkLeast DEF r
<1>5. r = e
  BY <1>1, <1>2, <1>3, <1>4 DEF Nearest
<1> QED BY <1>1, <1>5 DEF FindEnd, S

\* Conversely, the addresses a walk to an end tag has come by.
LEMMA LaidLonger ==
    ASSUME NEW m \in Memory, NEW x \in Nat, NEW l \in Nat, l = FullLength(m, x), 4 <= l,
           NEW A, NEW e, Laid(m, x + l, A, e, FALSE)
    PROVE  Laid(m, x, A \cup {x}, e, FALSE)
<1> DEFINE B == A \cup {x}
<1>1. /\ A \subseteq Nat /\ e \in A /\ \A y \in A : x + l <= y /\ y <= e
      /\ x + l \in A /\ e + 2 < MemorySize /\ FullLength(m, e) = EndTag
  BY DEF Laid
<1>2. x \in Nat /\ e \in Nat /\ x + l <= e /\ x <= e /\ x # e
  BY <1>1
<1>3. ASSUME NEW y \in A, y # e PROVE ItemOk(m, B, e, FALSE, y)
  <2>1. ItemOk(m, A, e, FALSE, y) /\ y \in Nat /\ x + l <= y
    BY <1>1, <1>3 DEF Laid
  <2>2. x <= y
    BY <2>1
  <2> QED BY <2>1, <2>2 DEF ItemOk
<1>4. ItemOk(m, B, e, FALSE, x)
  BY <1>1 DEF ItemOk
<1>5. \A y \in B : x <= y /\ y <= e
  BY <1>1, <1>2
<1> QED BY <1>1, <1>2, <1>3, <1>4, <1>5 DEF Laid

LEMMA FoundTable ==
    ASSUME NEW m \in Memory, NEW x \in Nat, FindEnd(m, x) # None
    PROVE  \E A : Laid(m, x, A, FindEnd(m, x), FALSE)
<1> DEFINE S == Ends(m) \cup Broken(m)
<1> DEFINE limit == MemorySize - 2
<1> DEFINE Tag(y) == Walk(m, y, limit, S)
<1> DEFINE Found(y) == Tag(y) \in Ends(m) => \E A : Laid(m, y, A, Tag(y), FALSE)
<1>0. limit \in Nat /\ limit < MemorySize /\ limit + 2 = MemorySize
  BY TableAssumption
<1> HIDE DEF S, limit
<1>1. ASSUME NEW y \in Nat PROVE Tag(y) = IF y >= limit THEN None ELSE IF y \in S THEN y
                                          ELSE Tag(y + FullLength(m, y))
  BY <1>0, WalkStep
<1> HIDE DEF Tag
<1>2. ASSUME NEW y \in Nat, y >= limit PROVE Found(y)
  BY <1>1, <1>2, NoneIsNoAddress
<1>3. ASSUME NEW y \in Nat, y < limit, y \in S PROVE Found(y)
  <2>1. Tag(y) = y
    BY <1>0, <1>1, <1>3
  <2>2. ASSUME y \in Ends(m) PROVE Laid(m, y, {y}, y, FALSE)
    <3>1. y + 2 < MemorySize
      BY <1>0, <1>3
    <3>2. FullLength(m, y) = EndTag
      BY <2>2 DEF Ends
    <3>3. y <= y
      OBVIOUS
    <3> QED BY <3>1, <3>2, <3>3 DEF Laid
  <2> QED BY <2>1, <2>2
<1>4. ASSUME NEW y \in Nat, y < limit, y \notin S, Found(y + FullLength(m, y)) PROVE Found(y)
  <2>1. y + 2 < MemorySize
    BY <1>0, <1>4
  <2>2. PICK l \in Nat : l = FullLength(m, y)
    BY <2>1, Lengths, TableAssumption
  <2>3. 4 <= l
    BY <1>4, <2>1, <2>2, HeadersOf DEF S
  <2>4. Tag(y) = Tag(y + l)
    BY <1>0, <1>1, <1>4, <2>2
  <2>5. ASSUME Tag(y) \in Ends(m) PROVE \E A : Laid(m, y, A, Tag(y), FALSE)
    <3>1. PICK A : Laid(m, y + l, A, Tag(y), FALSE)
      BY <1>4, <2>2, <2>4, <2>5
    <3>2. Laid(m, y, A \cup {y}, Tag(y), FALSE)
      BY <2>2, <2>3, <3>1, LaidLonger
    <3> QED BY <3>2
  <2> QED BY <2>5
<1> HIDE DEF Found
<1> DEFINE Other == {n \in 0..limit : ~ Found(limit - n)}
<1>5. ASSUME Other # {} PROVE FALSE
  <2>1. PICK n \in Other : \A i \in Other : n <= i
    BY <1>0, <1>5, SmallestUpTo
  <2>2. PICK y \in Nat : y = limit - n /\ ~ Found(y) /\ y <= limit
    BY <1>0, <2>1
  <2>3. y < limit /\ y \notin S
    BY <1>0, <1>2, <1>3, <2>2
  <2>4. PICK l \in Nat : l = FullLength(m, y) /\ 4 <= l
    <3>1. y + 2 < MemorySize
      BY <1>0, <2>3, <2>2
    <3>2. PICK l \in Nat : l = FullLength(m, y)
      BY <3>1, Lengths, TableAssumption
    <3>3. y \notin Broken(m)
      BY <2>3 DEF S
    <3> QED BY <3>1, <3>2, <3>3, HeadersOf
  <2>5. ~ Found(y + l)
    BY <1>4, <2>2, <2>3, <2>4
  <2>6. y + l < limit
    BY <1>0, <1>2, <2>4, <2>5
  <2>7. n - l \in 0..limit /\ limit - (n - l) = y + l /\ n - l < n
    BY <1>0, <2>1, <2>2, <2>4, <2>6
  <2>8. n - l \in Other
    BY <2>5, <2>7
  <2> QED BY <2>1, <2>7, <2>8
<1>6. ASSUME NEW y \in Nat PROVE Found(y)
  <2>1. CASE y >= limit
    BY <1>2, <2>1
  <2>2. CASE ~(y >= limit)
    <3>1. limit - y \in 0..limit /\ limit - (limit - y) = y
      BY <1>0, <2>2
    <3> QED BY <1>5, <3>1
  <2> QED BY <2>1, <2>2
<1>7. FindEnd(m, x) = IF Tag(x) \in Ends(m) THEN Tag(x) ELSE None
  BY DEF FindEnd, Tag, S, limit
<1> QED BY <1>6, <1>7 DEF Found

LEMMA EndsOfTable ==
    ASSUME NEW m \in Memory, NEW a, NEW A, NEW e, NEW t, Laid(m, a, A, e, t), NEW x \in A
    PROVE  /\ x \in Headers /\ (x \in Ends(m) <=> x = e)
           /\ x \in Holes(m) <=> KeyLength(m, x) = 0
           /\ x \in Nat /\ e \in Nat /\ x <= e /\ x + 2 < MemorySize
<1>1. /\ x \in Nat /\ e \in Nat /\ x <= e /\ e + 2 < MemorySize /\ FullLength(m, e) = EndTag
      /\ e \in A
  BY DEF Laid
<1>2. x + 2 < MemorySize
  BY <1>1, TableAssumption
<1>3. x # e => FullLength(m, x) # EndTag
  BY LaidItem
<1> QED BY <1>1, <1>2, <1>3, HeadersOf

LEMMA HoleOfTable ==
    ASSUME NEW m \in Memory, NEW a, NEW A, NEW e, NEW t, Laid(m, a, A, e, t), NEW x \in A
    PROVE  Nearest(FindHole(m, x), A, Holes(m), x, MemorySize - 2)
<1>1. MemorySize - 2 \in Nat /\ MemorySize - 2 < MemorySize
      /\ MemorySize <= (MemorySize - 2) + 3
  BY TableAssumption
<1> QED BY <1>1, WalkLeast DEF FindHole

LEMMA ItemOfTable ==
    ASSUME NEW m \in Memory, NEW a, NEW A, NEW e, NEW t, Laid(m, a, A, e, t), NEW x \in A, NEW S
    PROVE  Nearest(BeforeEnd(m, x, S), A \ {e}, S, x, MemorySize - 3)
<1>1. PICK limit \in Nat : limit = MemorySize - 3 /\ limit < MemorySize /\ MemorySize <= limit + 3
                          /\ limit + 3 = MemorySize
  BY TableAssumption
<1>2. PICK r : r = Walk(m, x, limit, Ends(m) \cup S)
  OBVIOUS
<1>3. Nearest(r, A, Ends(m) \cup S, x, limit)
  BY <1>1, <1>2, WalkLeast
<1>4. BeforeEnd(m, x, S) = IF r \in Ends(m) THEN None ELSE r
  BY <1>1, <1>2 DEF BeforeEnd
<1>5. ASSUME NEW y \in A, y # e PROVE y \in Nat /\ y < e /\ y < limit /\ y \notin Ends(m)
  <2>1. y + 4 <= e /\ y \in Nat /\ e \in Nat /\ e + 2 < MemorySize
    <3>1. e \in Nat /\ e + 2 < MemorySize
      BY DEF Laid
    <3> QED BY <1>5, <3>1, LaidItem
  <2> QED BY <1>1, <1>5, <2>1, EndsOfTable
<1>6. CASE r \in Ends(m)
  <2>1. r = e
    BY <1>3, <1>6, NoneIsNoAddress, EndsOfTable DEF Nearest
  <2>2. ASSUME NEW y \in A \ {e}, y \in S, x <= y PROVE FALSE
    <3>1. r <= y /\ y < e /\ y \in Nat
      BY <1>3, <1>5, <2>2 DEF Nearest
    <3>2. e \in Nat
      BY EndsOfTable
    <3> QED BY <2>1, <3>1, <3>2
  <2>3. Nearest(None, A \ {e}, S, x, limit)
    BY <2>2 DEF Nearest
  <2> QED BY <1>1, <1>4, <1>6, <2>3
<1>7. CASE r \notin Ends(m)
  <2>1. r # e
    <3>1. e \in A
      BY DEF Laid
    <3> QED BY <1>7, <3>1, EndsOfTable
  <2>2. Nearest(r, A \ {e}, S, x, limit)
    BY <1>3, <1>5, <1>7, <2>1 DEF Nearest
  <2> QED BY <1>1, <1>4, <1>7, <2>2
<1> QED BY <1>6, <1>7

\* The item after x, with holes only in between, or none and nothing but holes.
LEMMA NextOfTable ==
    ASSUME NEW m \in Memory, NEW a, NEW A, NEW e, NEW t, Laid(m, a, A, e, t), NEW x \in A,
           NEW i, i = FindNextItem(m, x)
    PROVE  /\ i # None =>
                 x # e /\ i \in A /\ i # e /\ KeyLength(m, i) # 0 /\ x + FullLength(m, x) <= i
           /\ \A y \in A \ {e} : x < y /\ (i = None \/ y < i) => KeyLength(m, y) = 0
<1>0. e \in Nat /\ A \subseteq Nat /\ e + 2 < MemorySize /\ \A y \in A : y <= e
  BY DEF Laid
<1>1. CASE x \in Ends(m)
  <2>1. x = e /\ i = None
    BY <1>1, EndsOfTable DEF FindNextItem
  <2> QED BY <1>0, <2>1
<1>2. CASE x \notin Ends(m)
  <2>1. x # e
    BY <1>2, EndsOfTable
  <2>2. PICK l \in Nat : l = FullLength(m, x) /\ x + l \in A
    BY <2>1, LaidItem
  <2>3. i = BeforeEnd(m, x + l, Headers \ Holes(m))
    BY <1>2, <2>2 DEF FindNextItem
  <2>4. Nearest(i, A \ {e}, Headers \ Holes(m), x + l, MemorySize - 3)
    BY <2>2, <2>3, ItemOfTable
  <2>5. i # None => i \in A /\ i # e /\ i \notin Holes(m) /\ x + l <= i
    BY <2>4 DEF Nearest
  <2>6. i # None => KeyLength(m, i) # 0
    BY <2>5, EndsOfTable
  <2>7. ASSUME NEW y \in A, y # e, x < y, i = None \/ y < i, KeyLength(m, y) # 0 PROVE FALSE
    <3>1. x + l <= y
      BY <2>2, <2>7, Spaced
    <3>2. y \in Headers \ Holes(m)
      BY <2>7, EndsOfTable
    <3>3. y + 4 <= e /\ y \in Nat
      BY <2>7, LaidItem
    <3>4. y < MemorySize - 3
      BY <1>0, <3>3, TableAssumption
    <3>5. i # None /\ i <= y
      BY <2>4, <2>7, <3>1, <3>2, <3>4 DEF Nearest
    <3>6. i \in Nat
      BY <1>0, <2>5, <3>5
    <3> QED BY <2>7, <3>3, <3>5, <3>6
  <2> QED BY <2>1, <2>2, <2>5, <2>6, <2>7
<1> QED BY <1>1, <1>2

LEMMA KeyOfTable ==
    ASSUME NEW m \in Memory, NEW A, NEW e, NEW t, Laid(m, First, A, e, t), NEW k
    PROVE  /\ \/ ItemOf(m, k) = None
              \/ ItemOf(m, k) \in A \ {e} /\ ItemOf(m, k) \in Holding(m, k)
           /\ \A y \in A \ {e} : y \in Holding(m, k) => ItemOf(m, k) # None /\ ItemOf(m, k) <= y
<1>1. First \in A
  BY DEF Laid
<1>2. PICK r : r = ItemOf(m, k) /\ Nearest(r, A \ {e}, Holding(m, k), First, MemorySize - 3)
  BY <1>1, ItemOfTable DEF ItemOf, FindItemByKey
<1>3. ASSUME NEW y \in A, y # e PROVE First <= y /\ y < MemorySize - 3
  <2>1. y + 4 <= e /\ y \in Nat /\ e \in Nat /\ e + 2 < MemorySize /\ First <= y
    BY <1>3, LaidItem DEF Laid
  <2> QED BY <2>1, TableAssumption
<1> QED BY <1>2, <1>3 DEF Nearest

----------------------------------------------------------------------------
(* What each kind of write does.                                             *)

Addresses == 0..(MemorySize - 1)

\* From m to f, the memory changes only in the n bytes from a.
Within(m, f, a, n) ==
    /\ f \in Memory
    /\ \A x \in Addresses : x < a \/ a + n <= x => f[x] = m[x]

LEMMA AppliedOne ==
    ASSUME NEW m, NEW w \in Writes
    PROVE  <<w>> \in Seq(Writes) /\ Applied(m, <<w>>) = Put(m, w)
<1>1. <<w>> \in Seq(Writes) /\ <<w>> # <<>> /\ Head(<<w>>) = w /\ Tail(<<w>>) = <<>>
  OBVIOUS
<1> QED BY <1>1, AppliedHead, AppliedNone

\* The writes ws of m make f, which has the bytes of each of them in the n bytes from a.
Leaves(ws, f) ==
    \A i \in 1..Len(ws) : \A j \in 1..Len(ws[i].bytes) : f[ws[i].at + j - 1] = ws[i].bytes[j]
Inside(ws, a, n) ==
    \A i \in 1..Len(ws) : a <= ws[i].at /\ ws[i].at + Len(ws[i].bytes) <= a + n
Makes(m, ws, f, a, n) ==
    /\ ws \in Seq(Writes) /\ f = Applied(m, ws)
    /\ Within(m, f, a, n) /\ Leaves(ws, f) /\ Inside(ws, a, n)

LEMMA WriteFields ==
    ASSUME NEW a, NEW b
    PROVE  Write(a, b).at = a /\ Write(a, b).bytes = b /\ Write(a, b).moving = FALSE
BY DEF Write

Alone(a, b) == <<Write(a, b)>>

LEMMA LeavesOne ==
    ASSUME NEW a, NEW b, NEW f, Leaves(Alone(a, b), f), NEW j \in 1..Len(b)
    PROVE  f[a + j - 1] = b[j]
<1>1. PICK w : w = Write(a, b)
  OBVIOUS
<1>2. w.at = a /\ w.bytes = b
  BY <1>1, WriteFields
<1>3. PICK ws : ws = <<w>>
  OBVIOUS
<1>4. Len(ws) = 1 /\ ws[1] = w
  BY <1>3
<1>5. Leaves(ws, f)
  BY <1>1, <1>3 DEF Alone
<1>6. 1 \in 1..Len(ws) /\ j \in 1..Len(ws[1].bytes)
  BY <1>2, <1>4
<1>7. f[ws[1].at + j - 1] = ws[1].bytes[j]
  BY <1>5, <1>6 DEF Leaves
<1> QED BY <1>2, <1>4, <1>7

LEMMA WriteMakes ==
    ASSUME NEW m \in Memory, NEW a \in Nat, NEW b \in Seq(Byte), NEW n \in Nat, n = Len(b),
           a + n <= MemorySize, NEW g, g = Applied(m, Alone(a, b))
    PROVE  Makes(m, Alone(a, b), g, a, n)
<1>1. PICK w \in Writes : w = Write(a, b) /\ w.at = a /\ w.bytes = b
  <2>1. PICK w : w = Write(a, b)
    OBVIOUS
  <2>2. w = [at |-> a, bytes |-> b, moving |-> FALSE]
    BY <2>1 DEF Write
  <2>3. w \in [at : Nat, bytes : Seq(Byte), moving : BOOLEAN] /\ w.at = a /\ w.bytes = b
    BY <2>2
  <2> QED BY <2>1, <2>3 DEF Writes
<1>2. PICK f : f = Put(m, w)
  OBVIOUS
<1>3. f \in Memory /\ <<w>> \in Seq(Writes) /\ Applied(m, <<w>>) = f
  BY <1>2, PutType, AppliedOne
<1>4. ASSUME NEW x \in Addresses
      PROVE  f[x] = IF x >= a /\ x < a + n THEN b[x - a + 1] ELSE m[x]
  BY <1>1, <1>2, <1>4, PutByte DEF Addresses
<1>5. Within(m, f, a, n)
  BY <1>3, <1>4, TableAssumption DEF Within, Addresses
<1>6. ASSUME NEW j \in 1..n PROVE f[a + j - 1] = b[j]
  <2>1. a + j - 1 \in Addresses /\ a + j - 1 >= a /\ a + j - 1 < a + n
    BY <1>6, TableAssumption DEF Addresses
  <2>2. (a + j - 1) - a + 1 = j
    OBVIOUS
  <2> QED BY <1>4, <2>1, <2>2
<1>7. Leaves(<<w>>, f)
  <2>1. Len(<<w>>) = 1 /\ <<w>>[1] = w
    OBVIOUS
  <2> QED BY <1>1, <1>6, <2>1 DEF Leaves
<1>8. Inside(<<w>>, a, n)
  <2>1. Len(<<w>>) = 1 /\ <<w>>[1] = w
    OBVIOUS
  <2> QED BY <1>1, <2>1 DEF Inside
<1>9. Alone(a, b) = <<w>>
  BY <1>1 DEF Alone
<1> QED BY <1>3, <1>5, <1>7, <1>8, <1>9 DEF Makes

\* Writes of disjoint places, one after the other.
LEMMA MakesBoth ==
    ASSUME NEW m \in Memory, NEW ws, NEW f, NEW a \in Nat, NEW n \in Nat, Makes(m, ws, f, a, n),
           NEW vs, NEW g, NEW b \in Nat, NEW k \in Nat, Makes(f, vs, g, b, k),
           a + n <= b
    PROVE  Makes(m, ws \o vs, g, a, (b + k) - a)
<1>1. /\ ws \in Seq(Writes) /\ vs \in Seq(Writes)
      /\ f = Applied(m, ws) /\ g = Applied(f, vs) /\ f \in Memory /\ g \in Memory
  BY DEF Makes, Within
<1>2. ws \o vs \in Seq(Writes) /\ Applied(m, ws \o vs) = g
  BY <1>1, AppliedConcat, ConcatProperties
<1>3. Within(m, g, a, (b + k) - a)
  <2> SUFFICES ASSUME NEW x \in Addresses, x < a \/ a + ((b + k) - a) <= x PROVE g[x] = m[x]
    BY <1>1 DEF Within
  <2>1. x \in Nat /\ (x < a \/ b + k <= x)
    BY TableAssumption DEF Addresses
  <2>2. g[x] = f[x]
    BY <2>1 DEF Makes, Within
  <2>3. f[x] = m[x]
    BY <2>1 DEF Makes, Within
  <2> QED BY <2>2, <2>3
<1>4. PICK k1 \in Nat, k2 \in Nat, u \in Seq(Writes) :
          k1 = Len(ws) /\ k2 = Len(vs) /\ u = ws \o vs /\ Joins(u, ws, vs, k1, k2)
  <2>1. PICK k1 \in Nat, k2 \in Nat : k1 = Len(ws) /\ k2 = Len(vs)
    BY <1>1, LenProperties
  <2>2. PICK u \in Seq(Writes) : Joins(u, ws, vs, k1, k2)
    BY <1>1, <2>1, ConcatShape
  <2> QED BY <2>1, <2>2 DEF Joins
<1>5. ASSUME NEW i \in 1..(k1 + k2), NEW j \in 1..Len(u[i].bytes)
      PROVE  g[u[i].at + j - 1] = u[i].bytes[j]
  <2>1. CASE i <= k1
    <3>1. u[i] = ws[i] /\ i \in 1..Len(ws)
      BY <1>4, <1>5, <2>1 DEF Joins
    <3>2. PICK w \in Writes : w = ws[i] /\ w = u[i]
      BY <1>1, <3>1, ElementOfSeq
    <3>3. f[w.at + j - 1] = w.bytes[j]
      BY <1>5, <3>1, <3>2 DEF Makes, Leaves
    <3>5. w.at \in Nat /\ Len(w.bytes) \in Nat /\ w.at + Len(w.bytes) <= MemorySize
      BY WriteType
    <3>4. w.at + Len(w.bytes) <= b
      <4>1. w.at + Len(w.bytes) <= a + n
        BY <3>1, <3>2 DEF Makes, Inside
      <4> QED BY <3>5, <4>1
    <3>6. j \in 1..Len(w.bytes)
      BY <1>5, <3>2
    <3>7. PICK x \in Nat : x = w.at + j - 1 /\ x < b /\ x < MemorySize
      <4>1. \A c, l \in Nat : c + l <= b /\ c + l <= MemorySize /\ j \in 1..l =>
                c + j - 1 \in Nat /\ c + j - 1 < b /\ c + j - 1 < MemorySize
        BY TableAssumption
      <4> QED BY <3>4, <3>5, <3>6, <4>1
    <3>8. x \in Addresses
      BY <3>7, TableAssumption DEF Addresses
    <3>9. g[x] = f[x]
      BY <3>7, <3>8 DEF Makes, Within
    <3> QED BY <3>2, <3>3, <3>7, <3>9
  <2>2. CASE ~(i <= k1)
    <3>1. u[i] = vs[i - k1] /\ i - k1 \in 1..Len(vs)
      BY <1>4, <1>5, <2>2 DEF Joins
    <3> QED BY <1>5, <3>1 DEF Makes, Leaves
  <2> QED BY <2>1, <2>2
<1>6. Leaves(ws \o vs, g)
  <2>1. Len(u) = k1 + k2
    BY <1>4 DEF Joins
  <2> QED BY <1>4, <1>5, <2>1 DEF Leaves
<1>7. Inside(ws \o vs, a, (b + k) - a)
  <2> SUFFICES ASSUME NEW i \in 1..(k1 + k2)
               PROVE  a <= u[i].at /\ u[i].at + Len(u[i].bytes) <= a + ((b + k) - a)
    <3>1. Len(u) = k1 + k2
      BY <1>4 DEF Joins
    <3> QED BY <1>4, <3>1 DEF Inside
  <2>1. PICK w \in Writes : w = u[i]
    BY <1>4, ElementOfSeq DEF Joins
  <2>2. w.at \in Nat /\ Len(w.bytes) \in Nat
    BY WriteType
  <2>3. (a <= w.at /\ w.at + Len(w.bytes) <= a + n) \/ (b <= w.at /\ w.at + Len(w.bytes) <= b + k)
    <3>1. CASE i <= k1
      <4>1. w = ws[i] /\ i \in 1..Len(ws)
        BY <1>4, <2>1, <3>1 DEF Joins
      <4> QED BY <4>1 DEF Makes, Inside
    <3>2. CASE ~(i <= k1)
      <4>1. w = vs[i - k1] /\ i - k1 \in 1..Len(vs)
        BY <1>4, <2>1, <3>2 DEF Joins
      <4> QED BY <4>1 DEF Makes, Inside
    <3> QED BY <3>1, <3>2
  <2>4. \A x, y \in Nat : (a <= x /\ x + y <= a + n) \/ (b <= x /\ x + y <= b + k) =>
            a <= x /\ x + y <= a + ((b + k) - a)
    OBVIOUS
  <2> QED BY <2>1, <2>2, <2>3, <2>4
<1> QED BY <1>2, <1>3, <1>6, <1>7 DEF Makes

\* The bytes of a header: they say what was written.
TwoBytes(n) == n \in Nat /\ n < 65536

LEMMA HeaderBytes ==
    ASSUME NEW n, TwoBytes(n), NEW k \in Byte
    PROVE  /\ Header(n, k) \in Seq(Byte) /\ Len(Header(n, k)) = 3
           /\ Header(n, k)[1] + 256 * Header(n, k)[2] = n /\ Header(n, k)[3] = k
<1>1. n % 256 \in Byte /\ n \div 256 \in Byte /\ (n % 256) + 256 * (n \div 256) = n
  BY DEF Byte, TwoBytes
<1> HIDE DEF Byte
<1>2. PICK b, c : b = n % 256 /\ c = n \div 256
  OBVIOUS
<1>3. b \in Byte /\ c \in Byte /\ b + 256 * c = n
  BY <1>1, <1>2
<1>4. Header(n, k) = <<b, c, k>>
  BY <1>2 DEF Header
<1> QED BY <1>3, <1>4

LEMMA HeaderMakes ==
    ASSUME NEW m \in Memory, NEW a \in Nat, NEW n, TwoBytes(n), NEW k \in Byte,
           a + 3 <= MemorySize, NEW f, f = Applied(m, Alone(a, Header(n, k)))
    PROVE  /\ Makes(m, Alone(a, Header(n, k)), f, a, 3)
           /\ FullLength(f, a) = n /\ KeyLength(f, a) = k
<1>1. PICK b : b = Header(n, k)
  OBVIOUS
<1>2. b \in Seq(Byte) /\ Len(b) = 3 /\ b[1] + 256 * b[2] = n /\ b[3] = k
  BY <1>1, HeaderBytes
<1>3. f = Applied(m, Alone(a, b))
  BY <1>1
<1>4. Makes(m, Alone(a, b), f, a, 3)
  <2>1. PICK n3 \in Nat : n3 = Len(b) /\ n3 = 3 /\ a + n3 <= MemorySize
    BY <1>2
  <2>0. b \in Seq(Byte)
    BY <1>2
  <2>2. Makes(m, Alone(a, b), f, a, n3)
    BY <1>3, <2>0, <2>1, WriteMakes
  <2> QED BY <2>1, <2>2
<1>5. ASSUME NEW j \in 1..3 PROVE f[a + j - 1] = b[j]
  <2>1. j \in 1..Len(b) /\ Leaves(Alone(a, b), f)
    BY <1>2, <1>4 DEF Makes
  <2> QED BY <2>1, LeavesOne
<1>6. a + 1 - 1 = a /\ a + 2 - 1 = a + 1 /\ a + 3 - 1 = a + 2
  OBVIOUS
<1>7. f[a] = b[1] /\ f[a + 1] = b[2] /\ f[a + 2] = b[3]
  BY <1>5, <1>6
<1> QED BY <1>1, <1>2, <1>4, <1>7 DEF FullLength, KeyLength

LEMMA EndMakes ==
    ASSUME NEW m \in Memory, NEW a \in Nat, a + 2 <= MemorySize,
           NEW f, f = Applied(m, WriteEnd(a))
    PROVE  Makes(m, WriteEnd(a), f, a, 2) /\ FullLength(f, a) = EndTag
<1>1. PICK b : b = <<255, 255>>
  OBVIOUS
<1>2. b \in Seq(Byte) /\ Len(b) = 2 /\ b[1] = 255 /\ b[2] = 255
  <2>1. PICK c \in Byte : c = 255
    BY DEF Byte
  <2>2. b = <<c, c>>
    BY <1>1, <2>1
  <2> QED BY <2>1, <2>2
<1>3. f = Applied(m, Alone(a, b))
  BY <1>1 DEF WriteEnd, Alone
<1>4. Makes(m, Alone(a, b), f, a, 2)
  <2>1. PICK n2 \in Nat : n2 = Len(b) /\ n2 = 2 /\ a + n2 <= MemorySize
    BY <1>2
  <2>0. b \in Seq(Byte)
    BY <1>2
  <2>2. Makes(m, Alone(a, b), f, a, n2)
    BY <1>3, <2>0, <2>1, WriteMakes
  <2> QED BY <2>1, <2>2
<1>5. ASSUME NEW j \in 1..2 PROVE f[a + j - 1] = b[j]
  <2>1. j \in 1..Len(b) /\ Leaves(Alone(a, b), f)
    BY <1>2, <1>4 DEF Makes
  <2> QED BY <2>1, LeavesOne
<1>6. a + 1 - 1 = a /\ a + 2 - 1 = a + 1
  OBVIOUS
<1>7. f[a] = 255 /\ f[a + 1] = 255
  BY <1>2, <1>5, <1>6
<1> QED BY <1>1, <1>4, <1>7 DEF FullLength, EndTag, WriteEnd, Alone

\* Writing an item of n bytes.
Entry(f, a, k, n) ==
    FullLength(f, a) = n /\ KeyLength(f, a) = Len(k) /\ Bytes(f, a + 3, Len(k)) = k

LEMMA SmallIsByte == \A i \in Nat : i <= 255 => i \in Byte
BY DEF Byte

LEMMA ItemSizes ==
    ASSUME NEW k \in Key, NEW v \in Value
    PROVE  /\ k \in Seq(Byte) /\ v \in Seq(Byte)
           /\ Len(k) \in Nat /\ Len(v) \in Nat /\ 1 <= Len(k)
           /\ Len(k) \in Byte /\ ItemSize(k, v) \in Nat /\ ItemSize(k, v) = 3 + Len(k) + Len(v)
           /\ 4 <= ItemSize(k, v)
<1>1. k \in Seq(Byte) /\ v \in Seq(Byte) /\ 1 <= Len(k) /\ Len(k) <= 255
  BY TableAssumption
<1>2. Len(k) \in Nat /\ Len(v) \in Nat
  BY <1>1
<1>3. Len(k) \in Byte
  <2>1. PICK i \in Nat : i = Len(k) /\ i <= 255
    BY <1>1, <1>2
  <2>2. i \in Byte
    BY <2>1, SmallIsByte
  <2> QED BY <2>1, <2>2
<1>4. \A i, j \in Nat : 1 <= i => 3 + i + j \in Nat /\ 4 <= 3 + i + j
  OBVIOUS
<1> QED BY <1>1, <1>2, <1>3, <1>4 DEF ItemSize

LEMMA ItemMakes ==
    ASSUME NEW m \in Memory, NEW a \in Nat, NEW k \in Key, NEW v \in Value,
           NEW n \in Nat, n = ItemSize(k, v), a + n <= MemorySize,
           NEW f, f = Applied(m, WriteItem(a, k, v))
    PROVE  Makes(m, WriteItem(a, k, v), f, a, n) /\ Entry(f, a, k, n)
<1>1. PICK i \in Nat, j \in Nat : i = Len(k) /\ j = Len(v) /\ n = 3 + i + j /\ i \in Byte
  BY ItemSizes
<1>2. k \in Seq(Byte) /\ v \in Seq(Byte)
  BY ItemSizes
<1>3. TwoBytes(n) /\ a + 3 <= MemorySize /\ (a + 3) + i <= MemorySize
      /\ (a + 3 + i) + j <= MemorySize
  BY <1>1, TableAssumption DEF EndTag, TwoBytes
<1> DEFINE ws == Alone(a, Header(n, i))
<1> DEFINE us == Alone(a + 3, k)
<1> DEFINE vs == Alone(a + 3 + i, v)
<1>4. PICK g : g = Applied(m, ws) /\ Makes(m, ws, g, a, 3) /\ FullLength(g, a) = n
              /\ KeyLength(g, a) = i
  BY <1>1, <1>3, HeaderMakes
<1>5. g \in Memory
  BY <1>4 DEF Makes, Within
<1>6. PICK h : h = Applied(g, us) /\ Makes(g, us, h, a + 3, i)
  <2>0. PICK c \in Nat : c = a + 3 /\ c + i <= MemorySize
    BY <1>3
  <2>1. \A x : x = Applied(g, Alone(c, k)) => Makes(g, Alone(c, k), x, c, i)
    BY <1>1, <1>2, <1>5, <2>0, WriteMakes
  <2> QED BY <2>0, <2>1 DEF us
<1>7. h \in Memory
  BY <1>6 DEF Makes, Within
<1>8. PICK l : l = Applied(h, vs) /\ Makes(h, vs, l, a + 3 + i, j)
  <2>0. PICK c \in Nat : c = a + 3 + i /\ c + j <= MemorySize
    BY <1>3
  <2>1. \A l : l = Applied(h, Alone(c, v)) => Makes(h, Alone(c, v), l, c, j)
    BY <1>1, <1>2, <1>7, <2>0, WriteMakes
  <2> QED BY <2>0, <2>1
<1>9. WriteItem(a, k, v) = ws \o (us \o vs)
  BY <1>1 DEF WriteItem, Alone
<1> HIDE DEF ws, us, vs
<1>10. Makes(g, us \o vs, l, a + 3, i + j)
  <2>0. PICK b \in Nat, c \in Nat : b = a + 3 /\ c = a + 3 + i /\ b + i <= c
    OBVIOUS
  <2>1. Makes(g, us \o vs, l, b, (c + j) - b)
    <3>1. Makes(g, us, h, b, i) /\ Makes(h, vs, l, c, j)
      BY <1>6, <1>8, <2>0
    <3> QED BY <1>1, <1>5, <2>0, <3>1, MakesBoth
  <2>2. (c + j) - b = i + j
    BY <2>0
  <2> QED BY <2>0, <2>1, <2>2
<1>11. Makes(m, ws \o (us \o vs), l, a, n)
  <2>0. PICK b \in Nat, c \in Nat : b = a + 3 /\ c = i + j /\ a + 3 <= b
    OBVIOUS
  <2>1. Makes(m, ws \o (us \o vs), l, a, (b + c) - a)
    <3>1. Makes(g, us \o vs, l, b, c)
      BY <1>10, <2>0
    <3> QED BY <1>4, <2>0, <3>1, MakesBoth
  <2>2. (b + c) - a = n
    BY <1>1, <2>0
  <2> QED BY <2>1, <2>2
<1>12. l = f
  BY <1>9, <1>11 DEF Makes
<1>13. \A x \in Nat : x < a + 3 + i => l[x] = h[x]
  <2> SUFFICES ASSUME NEW x \in Nat, x < a + 3 + i PROVE l[x] = h[x]
    OBVIOUS
  <2>1. x \in Addresses
    BY <1>3, TableAssumption DEF Addresses
  <2> QED BY <1>8, <2>1 DEF Makes, Within
<1>14. \A x \in Nat : x < a + 3 => l[x] = g[x]
  <2> SUFFICES ASSUME NEW x \in Nat, x < a + 3 PROVE l[x] = g[x]
    OBVIOUS
  <2>1. x \in Addresses /\ x < a + 3 + i
    BY <1>3, TableAssumption DEF Addresses
  <2> QED BY <1>6, <1>13, <2>1 DEF Makes, Within
<1>15. FullLength(l, a) = n /\ KeyLength(l, a) = i
  <2>1. l[a] = g[a] /\ l[a + 1] = g[a + 1] /\ l[a + 2] = g[a + 2]
    BY <1>14
  <2> QED BY <1>4, <2>1 DEF FullLength, KeyLength
<1>16. ASSUME NEW q \in 1..i PROVE l[a + 3 + q - 1] = k[q]
  <2>3. h[a + 3 + q - 1] = k[q]
    BY <1>1, <1>6, <1>16, LeavesOne DEF Makes, us
  <2>4. a + 3 + q - 1 \in Nat /\ a + 3 + q - 1 < a + 3 + i
    BY <1>16
  <2> QED BY <1>13, <2>3, <2>4
<1>17. Bytes(l, a + 3, i) = k
  <2>1. k = [q \in 1..i |-> k[q]]
    BY <1>1, <1>2
  <2> QED BY <1>16, <2>1 DEF Bytes
<1> QED BY <1>1, <1>9, <1>11, <1>12, <1>15, <1>17 DEF Entry

----------------------------------------------------------------------------
(* Moving a part of the memory, a chunk at a time.                           *)

NextChunk(left) == IF left < Chunk THEN left ELSE Chunk

LEMMA ChunkSize ==
    ASSUME NEW left \in Nat, left # 0
    PROVE  NextChunk(left) \in Nat /\ 1 <= NextChunk(left) /\ NextChunk(left) <= left
BY TableAssumption DEF NextChunk

ChunkStep(c, m, from, to, n, l) ==
    IF l = 0 THEN <<>>
    ELSE <<Write(to + (n - l), Bytes(m, from + (n - l), NextChunk(l)))>> \o c[l - NextChunk(l)]

LEMMA MoveChunks ==
    ASSUME NEW m, NEW from, NEW to, NEW n \in Nat
    PROVE  \E c : /\ MoveMemory(m, from, to, n) = c[n]
                  /\ \A l \in 0..n : c[l] = ChunkStep(c, m, from, to, n, l)
<1> DEFINE Is(c, k) == c = [l \in 0..k |-> ChunkStep(c, m, from, to, n, l)]
<1> HIDE DEF Is
<1> DEFINE NoneYet == {k \in 0..n : ~ \E c : Is(c, k)}
<1>1. ASSUME NoneYet # {} PROVE FALSE
  <2>1. PICK k \in NoneYet : \A i \in NoneYet : k <= i
    BY <1>1, SmallestUpTo
  <2>2. k # 0
    <3> DEFINE one == [l \in 0..0 |-> <<>>]
    <3>1. one = [l \in 0..0 |-> ChunkStep(one, m, from, to, n, l)]
      BY DEF ChunkStep
    <3> HIDE DEF one
    <3> QED BY <2>1, <3>1 DEF Is
  <2>3. k \in Nat /\ k - 1 \in 0..n /\ k - 1 \notin NoneYet
    BY <2>1, <2>2
  <2>4. PICK c : Is(c, k - 1)
    BY <2>3
  <2> DEFINE d == [l \in 0..k |-> IF l = k THEN ChunkStep(c, m, from, to, n, k) ELSE c[l]]
  <2>5. \A l \in 0..(k - 1) : d[l] = c[l]
    BY <2>3
  <2>6. d[k] = ChunkStep(c, m, from, to, n, k)
    BY <2>3
  <2>7. d = [l \in 0..k |-> d[l]]
    OBVIOUS
  <2> HIDE DEF d
  <2>8. ASSUME NEW l \in 0..k PROVE d[l] = ChunkStep(d, m, from, to, n, l)
    <3>1. l # 0 => l - NextChunk(l) \in 0..(k - 1)
      BY <2>3, ChunkSize
    <3>2. ChunkStep(d, m, from, to, n, l) = ChunkStep(c, m, from, to, n, l)
      BY <2>5, <3>1 DEF ChunkStep
    <3>3. CASE l = k
      BY <2>6, <3>2, <3>3
    <3>4. CASE l # k
      <4>1. l \in 0..(k - 1)
        BY <2>3, <3>4
      <4>2. c[l] = ChunkStep(c, m, from, to, n, l)
        BY <2>4, <4>1 DEF Is
      <4> QED BY <2>5, <3>2, <4>1, <4>2
    <3> QED BY <3>3, <3>4
  <2>9. Is(d, k)
    BY <2>7, <2>8 DEF Is
  <2> QED BY <2>1, <2>9
<1>2. \E c : Is(c, n)
  BY <1>1
<1>3. PICK c : c = CHOOSE d : Is(d, n)
  OBVIOUS
<1>4. Is(c, n)
  BY <1>2, <1>3
<1>5. MoveMemory(m, from, to, n) = c[n]
  BY <1>3, Zenon DEF MoveMemory, Is, ChunkStep, NextChunk
<1>6. ASSUME NEW l \in 0..n PROVE c[l] = ChunkStep(c, m, from, to, n, l)
  BY <1>4 DEF Is
<1> QED BY <1>5, <1>6

\* f is g with the bytes b..n - 1 of the move done.
Moved(f, g, m, from, to, b, n) ==
    /\ f \in Memory
    /\ \A x \in Addresses :
          f[x] = IF to + b <= x /\ x < to + n THEN m[x - to + from] ELSE g[x]

LEMMA BytesOf ==
    ASSUME NEW m \in Memory, NEW a \in Nat, NEW n \in Nat, a + n <= MemorySize
    PROVE  /\ Bytes(m, a, n) \in Seq(Byte) /\ Len(Bytes(m, a, n)) = n
           /\ \A i \in 1..n : Bytes(m, a, n)[i] = m[a + i - 1]
<1>1. ASSUME NEW i \in 1..n PROVE m[a + i - 1] \in Byte
  <2>1. a + i - 1 \in 0..(MemorySize - 1)
    BY TableAssumption
  <2> QED BY <2>1 DEF Memory
<1>2. Bytes(m, a, n) \in [1..n -> Byte]
  BY <1>1 DEF Bytes
<1>3. Bytes(m, a, n) \in Seq(Byte) /\ Len(Bytes(m, a, n)) = n
  BY <1>2
<1> QED BY <1>3 DEF Bytes

LEMMA MoveMakes ==
    ASSUME NEW m \in Memory, NEW from \in Nat, NEW to \in Nat, NEW n \in Nat,
           from + n <= MemorySize, to + n <= MemorySize
    PROVE  /\ MoveMemory(m, from, to, n) \in Seq(Writes)
           /\ \A g \in Memory :
                 Moved(Applied(g, MoveMemory(m, from, to, n)), g, m, from, to, 0, n)
<1>1. PICK c : /\ MoveMemory(m, from, to, n) = c[n]
               /\ \A l \in 0..n : c[l] = ChunkStep(c, m, from, to, n, l)
  BY MoveChunks
<1> DEFINE Done(l) == /\ c[l] \in Seq(Writes)
                      /\ \A g \in Memory : Moved(Applied(g, c[l]), g, m, from, to, n - l, n)
<1> HIDE DEF Done
<1>2. Done(0)
  <2>1. c[0] = <<>>
    <3>1. c[0] = ChunkStep(c, m, from, to, n, 0)
      BY <1>1
    <3> QED BY <3>1, Zenon DEF ChunkStep
  <2>2. ASSUME NEW g \in Memory PROVE Moved(g, g, m, from, to, n - 0, n)
    BY TableAssumption DEF Moved, Addresses
  <2> QED BY <2>1, <2>2, AppliedNone, EmptySeq DEF Done
<1>3. ASSUME NEW l \in 1..n, Done(l - NextChunk(l)) PROVE Done(l)
  <2>1. PICK k \in Nat : k = NextChunk(l) /\ 1 <= k /\ k <= l
    BY ChunkSize
  <2>2. PICK o \in Nat : o = n - l /\ o + k <= n /\ n - (l - k) = o + k
    BY <2>1
  <2>3. PICK b : b = Bytes(m, from + o, k)
    OBVIOUS
  <2>4. /\ b \in Seq(Byte) /\ Len(b) = k
        /\ \A i \in 1..k : b[i] = m[(from + o) + i - 1]
    <3>1. PICK a \in Nat : a = from + o /\ a + k <= MemorySize
      BY <2>2, TableAssumption
    <3>2. /\ Bytes(m, a, k) \in Seq(Byte) /\ Len(Bytes(m, a, k)) = k
          /\ \A i \in 1..k : Bytes(m, a, k)[i] = m[a + i - 1]
      BY <3>1, BytesOf
    <3> QED BY <2>3, <3>1, <3>2
  <2>5. PICK w : w = Write(to + o, b)
    OBVIOUS
  <2>6. w \in Writes /\ w.at = to + o /\ w.bytes = b
    <3>1. w = [at |-> to + o, bytes |-> b, moving |-> FALSE]
      BY <2>5 DEF Write
    <3>2. to + o \in Nat /\ (to + o) + k <= MemorySize
      BY <2>2, TableAssumption
    <3>3. w \in [at : Nat, bytes : Seq(Byte), moving : BOOLEAN] /\ w.at = to + o /\ w.bytes = b
      BY <2>4, <3>1, <3>2
    <3> QED BY <2>4, <3>2, <3>3 DEF Writes
  <2>7. PICK rest : rest = c[l - k] /\ rest \in Seq(Writes)
    BY <1>3, <2>1 DEF Done
  <2>8. c[l] = <<w>> \o rest
    <3>1. c[l] = <<Write(to + o, Bytes(m, from + o, k))>> \o c[l - k]
      <4>1. c[l] = ChunkStep(c, m, from, to, n, l) /\ l # 0
        BY <1>1
      <4> QED BY <2>1, <2>2, <4>1, Zenon DEF ChunkStep
    <3> QED BY <2>3, <2>5, <2>7, <3>1
  <2>9. <<w>> \in Seq(Writes) /\ c[l] \in Seq(Writes)
    BY <2>6, <2>7, <2>8, AppliedOne, ConcatProperties
  <2>10. ASSUME NEW g \in Memory PROVE Moved(Applied(g, c[l]), g, m, from, to, n - l, n)
    <3>1. PICK h \in Memory : h = Put(g, w)
      BY <2>6, PutType
    <3>2. PICK f : f = Applied(h, rest) /\ Applied(g, c[l]) = f
      <4>1. Applied(g, <<w>>) = h
        BY <2>6, <3>1, AppliedOne
      <4>2. Applied(g, <<w>> \o rest) = Applied(Applied(g, <<w>>), rest)
        BY <2>7, <2>9, AppliedConcat, Zenon
      <4> QED BY <2>8, <4>1, <4>2
    <3>3. Moved(f, h, m, from, to, o + k, n)
      BY <1>3, <2>1, <2>2, <2>7, <3>2 DEF Done
    <3>4. ASSUME NEW x \in Addresses
          PROVE  h[x] = IF x >= to + o /\ x < (to + o) + k THEN b[x - (to + o) + 1] ELSE g[x]
      <4>1. x \in 0..(MemorySize - 1)
        BY DEF Addresses
      <4>2. Put(g, w)[x] =
                IF x >= w.at /\ x < w.at + Len(w.bytes) THEN w.bytes[x - w.at + 1] ELSE g[x]
        BY <2>6, <4>1, PutByte
      <4> QED BY <2>4, <2>6, <3>1, <4>2
    <3>5. ASSUME NEW x \in Addresses
          PROVE  f[x] = IF to + o <= x /\ x < to + n THEN m[x - to + from] ELSE g[x]
      <4>0. x \in Nat
        BY TableAssumption DEF Addresses
      <4>1. CASE to + (o + k) <= x /\ x < to + n
        BY <2>2, <3>3, <4>0, <4>1 DEF Moved
      <4>2. CASE ~(to + (o + k) <= x /\ x < to + n)
        <5>1. f[x] = h[x]
          BY <3>3, <4>2 DEF Moved
        <5>2. CASE x >= to + o /\ x < (to + o) + k
          <6>1. PICK i \in 1..k : i = x - (to + o) + 1 /\ (from + o) + i - 1 = x - to + from
            BY <4>0, <5>2
          <6>2. h[x] = b[i] /\ b[i] = m[x - to + from]
            BY <2>4, <3>4, <5>2, <6>1
          <6> QED BY <2>2, <4>0, <5>1, <5>2, <6>2
        <5>3. CASE ~(x >= to + o /\ x < (to + o) + k)
          <6>1. ~(to + o <= x /\ x < to + n)
            BY <4>0, <4>2, <5>3
          <6> QED BY <3>4, <5>1, <5>3, <6>1
        <5> QED BY <5>2, <5>3
      <4> QED BY <4>1, <4>2
    <3>6. f \in Memory
      BY <3>3 DEF Moved
    <3> QED BY <2>2, <3>2, <3>5, <3>6 DEF Moved
  <2> QED BY <2>9, <2>10 DEF Done
<1> DEFINE Other == {l \in 0..n : ~ Done(l)}
<1>4. ASSUME Other # {} PROVE FALSE
  <2>1. PICK l \in Other : \A i \in Other : l <= i
    BY <1>4, SmallestUpTo
  <2>2. l \in 1..n
    BY <1>2, <2>1
  <2>3. PICK k \in Nat : k = NextChunk(l) /\ 1 <= k /\ k <= l
    BY <2>2, ChunkSize
  <2>4. l - k \in 0..n /\ l - k < l
    BY <2>2, <2>3
  <2>5. Done(l - k)
    BY <2>1, <2>4
  <2> QED BY <1>3, <2>1, <2>2, <2>3, <2>5
<1>5. Done(n) /\ n - n = 0
  BY <1>4
<1> QED BY <1>1, <1>5 DEF Done

----------------------------------------------------------------------------
(* What the writes of an operation do to a table.                            *)

SameHeader(m, f, y) == FullLength(f, y) = FullLength(m, y) /\ KeyLength(f, y) = KeyLength(m, y)

LEMMA Untouched ==
    ASSUME NEW m \in Memory, NEW f, NEW a \in Nat, NEW n \in Nat, Within(m, f, a, n),
           NEW y \in Nat, y + 2 < MemorySize, y + 3 <= a \/ a + n <= y
    PROVE  SameHeader(m, f, y)
<1>1. ASSUME NEW i \in 0..2 PROVE f[y + i] = m[y + i]
  <2>1. y + i \in Addresses /\ (y + i < a \/ a + n <= y + i)
    BY TableAssumption DEF Addresses
  <2> QED BY <2>1 DEF Within
<1>2. f[y + 0] = m[y + 0] /\ f[y + 1] = m[y + 1] /\ f[y + 2] = m[y + 2] /\ y + 0 = y
  BY <1>1
<1> QED BY <1>2 DEF SameHeader, FullLength, KeyLength

LEMMA SameShape ==
    ASSUME NEW m \in Memory, NEW a, NEW A, NEW e, NEW t, Laid(m, a, A, e, t), NEW x \in A, x # e,
           NEW n \in Nat, n = FullLength(m, x), NEW f, Within(m, f, x, n), FullLength(f, x) = n,
           t => 3 + KeyLength(f, x) <= n
    PROVE  Laid(f, a, A, e, t)
<1>1. x \in Nat /\ e \in Nat /\ x + n <= e /\ e + 2 < MemorySize /\ FullLength(m, e) = EndTag
      /\ A \subseteq Nat
  <2>1. x + n <= e
    BY LaidItem
  <2> QED BY <2>1 DEF Laid
<1>2. FullLength(f, e) = EndTag
  BY <1>1, Untouched DEF SameHeader
<1>3. ASSUME NEW y \in A, y # e PROVE ItemOk(f, A, e, t, y)
  <2>1. ItemOk(m, A, e, t, y) /\ y \in Nat /\ y < e
    BY <1>3, LaidItem DEF Laid
  <2>2. CASE y = x
    BY <2>1, <2>2 DEF ItemOk
  <2>3. CASE y # x
    <3>1. y + 3 <= x \/ x + n <= y
      <4>1. CASE y < x
        <5>1. FullLength(m, y) \in Nat /\ 4 <= FullLength(m, y) /\ y + FullLength(m, y) <= x
          BY <4>1, Spaced
        <5> QED BY <1>1, <2>1, <5>1
      <4>2. CASE x < y
        BY <4>2, Spaced
      <4> QED BY <1>1, <2>1, <2>3, <4>1, <4>2
    <3>2. y + 2 < MemorySize
      BY <1>1, <2>1, TableAssumption
    <3>3. SameHeader(m, f, y)
      BY <1>1, <2>1, <3>1, <3>2, Untouched
    <3> QED BY <2>1, <3>3 DEF ItemOk, SameHeader
  <2> QED BY <2>2, <2>3
<1> QED BY <1>1, <1>2, <1>3 DEF Laid

LEMMA Longer ==
    ASSUME NEW m \in Memory, NEW a, NEW A, NEW e, NEW t, Laid(m, a, A, e, t),
           NEW n \in Nat, 4 <= n, e + n + 2 < MemorySize, NEW f, Within(m, f, e, n + 2),
           FullLength(f, e) = n, FullLength(f, e + n) = EndTag, t => 3 + KeyLength(f, e) <= n
    PROVE  Laid(f, a, A \cup {e + n}, e + n, t)
<1> DEFINE B == A \cup {e + n}
<1>1. e \in Nat /\ e \in A /\ A \subseteq Nat /\ a \in A /\ \A x \in A : a <= x /\ x <= e
  BY DEF Laid
<1>2. ASSUME NEW y \in A, y # e PROVE ItemOk(f, B, e + n, t, y)
  <2>1. ItemOk(m, A, e, t, y) /\ y \in Nat /\ y + 4 <= e /\ y + FullLength(m, y) <= e
        /\ FullLength(m, y) \in Nat
    <3>1. ItemOk(m, A, e, t, y)
      BY <1>2 DEF Laid
    <3> QED BY <1>2, <3>1, LaidItem
  <2>2. y + 2 < MemorySize /\ y + 3 <= e
    BY <1>1, <2>1, TableAssumption
  <2>3. SameHeader(m, f, y)
    BY <1>1, <2>1, <2>2, Untouched
  <2>4. y + FullLength(m, y) <= e + n
    BY <1>1, <2>1
  <2> QED BY <2>1, <2>3, <2>4 DEF ItemOk, SameHeader
<1>3. ItemOk(f, B, e + n, t, e)
  <2>1. \A y \in B : y <= e \/ e + n <= y
    BY <1>1
  <2> QED BY <2>1 DEF ItemOk
<1>4. /\ B \subseteq Nat /\ a \in B /\ e + n \in B
      /\ \A y \in B : a <= y /\ y <= e + n
      /\ \A y \in B \ {e + n} : y \in A
  BY <1>1
<1> QED BY <1>2, <1>3, <1>4 DEF Laid

LEMMA Cropped ==
    ASSUME NEW m \in Memory, NEW a, NEW A, NEW e, NEW t, Laid(m, a, A, e, t), NEW h \in A,
           NEW f, Within(m, f, h, 2), FullLength(f, h) = EndTag
    PROVE  Laid(f, a, {x \in A : x <= h}, h, t)
<1> DEFINE B == {x \in A : x <= h}
<1>1. e \in Nat /\ e + 2 < MemorySize /\ A \subseteq Nat /\ a \in A
      /\ \A x \in A : a <= x /\ x <= e
  BY DEF Laid
<1>2. h \in Nat /\ h <= e
  BY <1>1
<1>3. ASSUME NEW y \in A, y <= h, y # h PROVE ItemOk(f, B, h, t, y)
  <2>1. y \in Nat /\ y < h
    BY <1>1, <1>2, <1>3
  <2>2. y # e /\ FullLength(m, y) \in Nat /\ 4 <= FullLength(m, y)
        /\ y + FullLength(m, y) \in A /\ y + FullLength(m, y) <= h
    BY <2>1, Spaced
  <2>3. y + 2 < MemorySize /\ y + 3 <= h
    BY <1>1, <1>2, <2>1, <2>2, TableAssumption
  <2>4. SameHeader(m, f, y)
    BY <1>2, <2>1, <2>3, Untouched
  <2>5. ItemOk(m, A, e, t, y)
    BY <2>2 DEF Laid
  <2> QED BY <2>2, <2>4, <2>5 DEF ItemOk, SameHeader
<1>4. h + 2 < MemorySize
  BY <1>1, <1>2, TableAssumption
<1>5. a <= h /\ a \in B /\ h \in B /\ B \subseteq Nat /\ \A x \in B : a <= x /\ x <= h
  <2>1. a <= h /\ h <= h
    BY <1>1, <1>2
  <2> QED BY <1>1, <2>1
<1> QED BY <1>3, <1>4, <1>5 DEF Laid

\* From m to f the bytes from i up to p go down to h; what is left is a hole before p.
Slid(m, f, h, i, p) ==
    /\ f \in Memory
    /\ \A x \in Addresses :
          /\ x < h \/ h + (p - i) + 3 <= x => f[x] = m[x]
          /\ h <= x /\ x < h + (p - i) => f[x] = m[x + (i - h)]
    /\ FullLength(f, h + (p - i)) = i - h /\ KeyLength(f, h + (p - i)) = 0

LEMMA SlidBy ==
    ASSUME NEW m \in Memory, NEW h \in Nat, NEW i \in Nat, NEW p \in Nat, h < i, i < p,
           NEW g, Moved(g, m, m, i, h, 0, p - i),
           NEW f, Within(g, f, h + (p - i), 3),
           FullLength(f, h + (p - i)) = i - h, KeyLength(f, h + (p - i)) = 0
    PROVE  Slid(m, f, h, i, p)
<1>1. PICK d \in Nat, q \in Nat : d = i - h /\ q = h + (p - i) /\ h < q
  OBVIOUS
<1>2. ASSUME NEW x \in Addresses
      PROVE  /\ x < h \/ q + 3 <= x => f[x] = m[x]
             /\ h <= x /\ x < q => f[x] = m[x + d]
  <2>1. x \in Nat
    BY TableAssumption DEF Addresses
  <2>2. x < q \/ q + 3 <= x => f[x] = g[x]
    BY <1>1 DEF Within
  <2>3. g[x] = IF h + 0 <= x /\ x < h + (p - i) THEN m[x - h + i] ELSE m[x]
    BY DEF Moved
  <2>4. x - h + i = x + d /\ h + 0 = h
    BY <1>1, <2>1
  <2> QED BY <1>1, <2>1, <2>2, <2>3, <2>4
<1>3. f \in Memory
  BY DEF Within
<1> QED BY <1>1, <1>2, <1>3 DEF Slid

\* The addresses of the items then.
Shifted(A, h, i, p) ==
    {x \in A : x < h} \cup {x - (i - h) : x \in {y \in A : i <= y /\ y < p}}
        \cup {h + (p - i)} \cup {x \in A : p <= x}

LEMMA ShiftedIn ==
    ASSUME NEW A, NEW h, NEW i, NEW p, NEW x
    PROVE  x \in Shifted(A, h, i, p) <=>
               \/ x \in A /\ x < h
               \/ \E z \in A : i <= z /\ z < p /\ x = z - (i - h)
               \/ x = h + (p - i)
               \/ x \in A /\ p <= x
BY DEF Shifted

LEMMA Packed ==
    ASSUME NEW m \in Memory, NEW a, NEW A, NEW e, NEW t, Laid(m, a, A, e, t),
           NEW h \in A, NEW i \in A, NEW p \in A, h < i, i < p,
           NEW f, Slid(m, f, h, i, p)
    PROVE  Laid(f, a, Shifted(A, h, i, p), e, t)
<1> DEFINE B == Shifted(A, h, i, p)
<1>0. /\ e \in Nat /\ e \in A /\ e + 2 < MemorySize /\ A \subseteq Nat /\ a \in A /\ a \in Nat
      /\ \A x \in A : a <= x /\ x <= e
  BY DEF Laid
<1>1. h \in Nat /\ i \in Nat /\ p \in Nat /\ p <= e
  BY <1>0
<1>2. PICK d \in Nat, q \in Nat :
          d = i - h /\ q = h + (p - i) /\ 4 <= d /\ q + d = p /\ h < q /\ i = h + d
  <2>1. FullLength(m, h) \in Nat /\ 4 <= FullLength(m, h) /\ h + FullLength(m, h) <= i
    BY Spaced
  <2> QED BY <1>1, <2>1
<1>3. ASSUME NEW x \in Addresses
      PROVE  /\ x < h => f[x] = m[x]
             /\ h <= x /\ x < q => f[x] = m[x + d]
             /\ q + 3 <= x => f[x] = m[x]
  BY <1>2 DEF Slid
<1>22. FullLength(f, q) = d /\ KeyLength(f, q) = 0
  BY <1>2 DEF Slid
<1>4. ASSUME NEW y \in Nat, y + 2 < MemorySize, y + 3 <= h \/ p <= y PROVE SameHeader(m, f, y)
  <2>1. ASSUME NEW j \in 0..2 PROVE f[y + j] = m[y + j]
    <3>1. y + j \in Addresses /\ (y + j < h \/ q + 3 <= y + j)
      BY <1>1, <1>2, <1>4, TableAssumption DEF Addresses
    <3> QED BY <1>3, <3>1
  <2>2. f[y + 0] = m[y + 0] /\ f[y + 1] = m[y + 1] /\ f[y + 2] = m[y + 2] /\ y + 0 = y
    BY <2>1
  <2> QED BY <2>2 DEF SameHeader, FullLength, KeyLength
<1>5. ASSUME NEW y \in Nat, NEW z \in Nat, h <= y, y + 3 <= q, z = y + d
      PROVE  FullLength(f, y) = FullLength(m, z) /\ KeyLength(f, y) = KeyLength(m, z)
  <2>1. ASSUME NEW j \in 0..2 PROVE f[y + j] = m[z + j]
    <3>1. y + j \in Addresses /\ h <= y + j /\ y + j < q /\ (y + j) + d = z + j
      BY <1>0, <1>1, <1>2, <1>5, TableAssumption DEF Addresses
    <3> QED BY <1>3, <3>1
  <2>2. f[y + 0] = m[z + 0] /\ f[y + 1] = m[z + 1] /\ f[y + 2] = m[z + 2] /\ y + 0 = y
        /\ z + 0 = z
    BY <2>1
  <2> QED BY <2>2 DEF FullLength, KeyLength
<1>6. ASSUME NEW x
      PROVE  x \in B <=> \/ x \in A /\ x < h
                         \/ \E z \in A : i <= z /\ z < p /\ x = z - d
                         \/ x = q
                         \/ x \in A /\ p <= x
  <2>1. \/ x \in A /\ x < h
        \/ \E z \in A : i <= z /\ z < p /\ x = z - (i - h)
        \/ x = h + (p - i)
        \/ x \in A /\ p <= x
        <=> x \in Shifted(A, h, i, p)
    BY ShiftedIn
  <2>2. d = i - h /\ q = h + (p - i)
    BY <1>2
  <2> QED BY <2>1, <2>2, Zenon
<1>20. ASSUME NEW x \in B, ~(x \in A /\ x < h) PROVE h <= x
  <2>1. CASE \E z \in A : i <= z /\ z < p /\ x = z - d
    <3>1. PICK z \in A : i <= z /\ x = z - d
      BY <2>1
    <3> QED BY <1>0, <1>1, <1>2, <3>1
  <2>2. CASE x \in A
    BY <1>0, <1>1, <1>20, <2>2
  <2>3. CASE x = q
    BY <1>1, <1>2, <2>3
  <2> QED BY <1>6, <1>20, <2>1, <2>2, <2>3
<1>21. ASSUME NEW x \in B, ~(x \in A /\ p <= x) PROVE x <= q
  <2>1. CASE \E z \in A : i <= z /\ z < p /\ x = z - d
    <3>1. PICK z \in A : z < p /\ x = z - d
      BY <2>1
    <3> QED BY <1>0, <1>1, <1>2, <3>1
  <2>2. CASE x = q
    BY <1>1, <1>2, <2>2
  <2>3. CASE x \in A /\ x < h
    BY <1>0, <1>1, <1>2, <2>3
  <2> QED BY <1>6, <1>21, <2>1, <2>2, <2>3
<1> HIDE DEF B
<1>7. /\ \A x \in A : x < h => x \in B
      /\ \A z \in A : i <= z /\ z < p => z - d \in B
      /\ q \in B
      /\ \A x \in A : p <= x => x \in B
  BY <1>6
<1>8. h \in B
  <2>1. i - d = h /\ i <= i
    BY <1>1, <1>2
  <2> QED BY <1>7, <2>1
<1>9. e \in B
  BY <1>0, <1>1, <1>7
<1>10. a \in B
  <2>1. a <= h
    BY <1>0
  <2> QED BY <1>0, <1>1, <1>7, <1>8, <2>1
<1>11. ASSUME NEW x \in B PROVE x \in Nat /\ a <= x /\ x <= e
  <2>1. CASE x \in A
    BY <1>0, <2>1
  <2>2. CASE x \notin A
    <3>1. h <= x /\ x <= q /\ x \in Nat
      <4>1. h <= x /\ x <= q
        BY <1>20, <1>21, <2>2
      <4>2. x \in Int
        BY <1>0, <1>1, <1>2, <1>6, <2>2
      <4> QED BY <1>1, <4>1, <4>2
    <3> QED BY <1>0, <1>1, <1>2, <3>1
  <2> QED BY <2>1, <2>2
<1>12. FullLength(f, e) = EndTag
  <2>1. SameHeader(m, f, e)
    BY <1>0, <1>1, <1>4
  <2> QED BY <2>1 DEF SameHeader, Laid
<1>13. ASSUME NEW x \in A, x < h PROVE ItemOk(f, B, e, t, x)
  <2>1. PICK l \in Nat : l = FullLength(m, x) /\ 4 <= l /\ x + l \in A /\ x + l <= h /\ x # e
    BY <1>13, Spaced
  <2>2. SameHeader(m, f, x)
    BY <1>0, <1>1, <1>4, <1>13, <2>1, TableAssumption, SMTT(30)
  <2>3. x + l \in B
    BY <1>0, <1>1, <1>7, <1>8, <2>1
  <2>4. ASSUME NEW y \in B PROVE y <= x \/ x + l <= y
    <3>1. CASE y \in A /\ y < h
      <4>1. ItemOk(m, A, e, t, x)
        BY <2>1 DEF Laid
      <4> QED BY <2>1, <3>1, <4>1 DEF ItemOk
    <3>2. CASE ~(y \in A /\ y < h)
      <4>1. h <= y
        BY <1>20, <3>2
      <4> QED BY <1>0, <1>1, <1>11, <2>1, <4>1
    <3> QED BY <3>1, <3>2
  <2>5. t => 3 + KeyLength(m, x) <= FullLength(m, x)
    BY <2>1 DEF Laid, ItemOk
  <2> QED BY <2>1, <2>2, <2>3, <2>4, <2>5 DEF ItemOk, SameHeader
<1>14. ASSUME NEW z \in A, i <= z, z < p, NEW x, x = z - d PROVE ItemOk(f, B, e, t, x)
  <2>0. z \in Nat /\ x \in Nat /\ h <= x /\ z = x + d /\ x < q
    BY <1>0, <1>1, <1>2, <1>14
  <2>1. PICK l \in Nat : l = FullLength(m, z) /\ 4 <= l /\ z + l \in A /\ z + l <= p /\ z # e
    BY <1>14, Spaced
  <2>2. FullLength(f, x) = l /\ KeyLength(f, x) = KeyLength(m, z)
    <3>1. x + 3 <= q
      BY <1>2, <2>0, <2>1
    <3> QED BY <1>5, <2>0, <2>1, <3>1
  <2>3. x + l \in B
    <3>1. x + l = (z + l) - d /\ i <= z + l
      BY <1>1, <1>2, <1>14, <2>0
    <3>2. CASE z + l < p
      BY <1>7, <2>1, <3>1, <3>2
    <3>3. CASE z + l = p
      <4>1. x + l = q
        BY <1>1, <1>2, <2>0, <3>3
      <4> QED BY <1>7, <4>1
    <3> QED BY <1>1, <2>0, <2>1, <3>2, <3>3
  <2>4. ASSUME NEW y \in B PROVE y <= x \/ x + l <= y
    <3>0. y \in Nat
      BY <1>11
    <3>1. CASE y \in A /\ y < h
      BY <1>1, <2>0, <3>0, <3>1
    <3>2. CASE \E w \in A : i <= w /\ w < p /\ y = w - d
      <4>1. PICK w \in A : i <= w /\ w < p /\ y = w - d
        BY <3>2
      <4>2. ItemOk(m, A, e, t, z)
        BY <2>1 DEF Laid
      <4>3. w \in Nat /\ (w <= z \/ z + l <= w)
        BY <1>0, <2>1, <4>2 DEF ItemOk
      <4> QED BY <1>2, <2>0, <4>1, <4>3
    <3>3. CASE y = q
      BY <1>2, <2>0, <2>1, <3>3
    <3>4. CASE y \in A /\ p <= y
      BY <1>1, <1>2, <2>0, <2>1, <3>0, <3>4
    <3> QED BY <1>6, <3>1, <3>2, <3>3, <3>4
  <2>5. t => 3 + KeyLength(m, z) <= FullLength(m, z)
    BY <2>1 DEF Laid, ItemOk
  <2> QED BY <2>1, <2>2, <2>3, <2>4, <2>5 DEF ItemOk
<1>15. ItemOk(f, B, e, t, q)
  <2>1. ASSUME NEW y \in B PROVE y <= q \/ q + d <= y
    <3>1. CASE y \in A /\ p <= y
      BY <1>2, <3>1
    <3>2. CASE ~(y \in A /\ p <= y)
      BY <1>21, <3>2
    <3> QED BY <3>1, <3>2
  <2>2. p \in B /\ q + d = p
    BY <1>1, <1>2, <1>7
  <2>4. 3 + KeyLength(f, q) <= d
    BY <1>2, <1>22
  <2> QED BY <1>2, <1>22, <2>1, <2>2, <2>4 DEF ItemOk
<1>16. ASSUME NEW x \in A, p <= x, x # e PROVE ItemOk(f, B, e, t, x)
  <2>0. x \in Nat /\ x < e /\ x + 2 < MemorySize
    BY <1>0, <1>16, TableAssumption
  <2>1. PICK l \in Nat : l = FullLength(m, x) /\ 4 <= l /\ x + l \in A
    BY <1>16, LaidItem
  <2>2. SameHeader(m, f, x)
    BY <1>4, <1>16, <2>0
  <2>3. x + l \in B
    BY <1>0, <1>1, <1>7, <1>16, <2>0, <2>1
  <2>4. ASSUME NEW y \in B PROVE y <= x \/ x + l <= y
    <3>0. y \in Nat
      BY <1>11
    <3>1. CASE y \in A
      <4>1. ItemOk(m, A, e, t, x)
        BY <1>16 DEF Laid
      <4> QED BY <2>1, <3>1, <4>1 DEF ItemOk
    <3>2. CASE y \notin A
      <4>1. y <= q
        BY <1>21, <3>2
      <4> QED BY <1>1, <1>2, <1>16, <2>0, <3>0, <4>1
    <3> QED BY <3>1, <3>2
  <2>5. t => 3 + KeyLength(m, x) <= FullLength(m, x)
    BY <1>16 DEF Laid, ItemOk
  <2> QED BY <2>1, <2>2, <2>3, <2>4, <2>5 DEF ItemOk, SameHeader
<1>17. \A x \in B \ {e} : ItemOk(f, B, e, t, x)
  BY <1>6, <1>13, <1>14, <1>15, <1>16
<1>18. B \subseteq Nat
  BY <1>11
<1>19. Laid(f, a, B, e, t)
  BY <1>0, <1>9, <1>10, <1>11, <1>12, <1>17, <1>18 DEF Laid
<1> QED BY <1>19 DEF B

LEMMA WithinMakes ==
    ASSUME NEW m, NEW ws, NEW f, NEW a, NEW n, Makes(m, ws, f, a, n)
    PROVE  ws \in Seq(Writes) /\ f = Applied(m, ws) /\ f \in Memory /\ Within(m, f, a, n)
           /\ Leaves(ws, f)
BY DEF Makes, Within

\* A header and the bytes it is for, in a table.
LEMMA LengthOfTable ==
    ASSUME NEW m \in Memory, NEW a, NEW A, NEW e, NEW t, Laid(m, a, A, e, t), NEW x \in A, x # e
    PROVE  /\ x \in Nat /\ e \in Nat /\ FullLength(m, x) \in Nat /\ TwoBytes(FullLength(m, x))
           /\ 4 <= FullLength(m, x) /\ x + FullLength(m, x) <= e /\ e + 2 < MemorySize
<1>1. /\ x \in Nat /\ FullLength(m, x) \in Nat /\ 4 <= FullLength(m, x)
      /\ x + FullLength(m, x) <= e
  BY LaidItem
<1>2. e \in Nat /\ e + 2 < MemorySize
  BY DEF Laid
<1>3. MemorySize \in Nat /\ MemorySize < 65536
  BY TableAssumption DEF EndTag
<1>4. \A x1, l, e1, s \in Nat : x1 + l <= e1 /\ e1 + 2 < s /\ s < 65536 => l < 65536
  OBVIOUS
<1> QED BY <1>1, <1>2, <1>3, <1>4 DEF TwoBytes

LEMMA WriteHoleMakes ==
    ASSUME NEW m \in Memory, NEW x \in Nat, NEW n, TwoBytes(n), x + 3 <= MemorySize,
           NEW f, f = Applied(m, WriteHole(x, n))
    PROVE  Makes(m, WriteHole(x, n), f, x, 3) /\ FullLength(f, x) = n /\ KeyLength(f, x) = 0
<1>1. 0 \in Byte
  BY SmallIsByte
<1>2. WriteHole(x, n) = Alone(x, Header(n, 0))
  BY DEF WriteHole, Alone
<1> QED BY <1>1, <1>2, HeaderMakes

\* What changes in n bytes changes in more.
LEMMA WithinMore ==
    ASSUME NEW m, NEW f, NEW a \in Nat, NEW n \in Nat, NEW k \in Nat, n <= k, Within(m, f, a, n)
    PROVE  Within(m, f, a, k)
<1> SUFFICES ASSUME NEW x \in Addresses, x < a \/ a + k <= x PROVE f[x] = m[x]
  BY DEF Within
<1>1. x < a \/ a + n <= x
  BY TableAssumption DEF Addresses
<1> QED BY <1>1 DEF Within

LEMMA HoleMakes ==
    ASSUME NEW m \in Memory, NEW A, NEW e, NEW t, Laid(m, First, A, e, t), NEW x \in A, x # e,
           NEW ws, ws = WriteHole(x, FullLength(m, x)), NEW f, f = Applied(m, ws)
    PROVE  Makes(m, ws, f, x, 3) /\ Laid(f, First, A, e, t)
<1>1. PICK n \in Nat : n = FullLength(m, x) /\ TwoBytes(n) /\ 4 <= n /\ x + n <= e
                      /\ e + 2 < MemorySize /\ x \in Nat /\ e \in Nat
  BY LengthOfTable
<1>2. x + 3 <= MemorySize
  BY <1>1, TableAssumption
<1>3. Makes(m, ws, f, x, 3) /\ FullLength(f, x) = n /\ KeyLength(f, x) = 0
  BY <1>1, <1>2, WriteHoleMakes
<1>4. Within(m, f, x, 3)
  BY <1>3, WithinMakes
<1>5. Within(m, f, x, n)
  BY <1>1, <1>4, WithinMore
<1>6. 3 + KeyLength(f, x) <= n
  BY <1>1, <1>3
<1> QED BY <1>1, <1>3, <1>5, <1>6, SameShape

LEMMA RewriteMakes ==
    ASSUME NEW m \in Memory, NEW A, NEW e, NEW t, Laid(m, First, A, e, t), NEW x \in A, x # e,
           NEW k \in Key, NEW v \in Value, FullLength(m, x) = ItemSize(k, v),
           NEW ws, ws = WriteItem(x, k, v), NEW f, f = Applied(m, ws)
    PROVE  Makes(m, ws, f, x, ItemSize(k, v)) /\ Laid(f, First, A, e, t)
           /\ Entry(f, x, k, ItemSize(k, v))
<1>1. PICK n \in Nat : n = FullLength(m, x) /\ n = ItemSize(k, v) /\ 4 <= n /\ x + n <= e
                      /\ e + 2 < MemorySize /\ x \in Nat /\ e \in Nat /\ 3 + Len(k) <= n
  <2>1. \A i, j \in Nat : 3 + i <= 3 + i + j
    OBVIOUS
  <2>2. 3 + Len(k) <= ItemSize(k, v)
    BY <2>1, ItemSizes
  <2> QED BY <2>2, LengthOfTable
<1>2. x + n <= MemorySize
  BY <1>1, TableAssumption
<1>3. Makes(m, ws, f, x, n) /\ Entry(f, x, k, n)
  BY <1>1, <1>2, ItemMakes
<1>4. Within(m, f, x, n)
  BY <1>3, WithinMakes
<1>5. FullLength(f, x) = n /\ 3 + KeyLength(f, x) <= n
  BY <1>1, <1>3 DEF Entry
<1> QED BY <1>1, <1>3, <1>4, <1>5, SameShape

LEMMA AppendAtMakes ==
    ASSUME NEW m \in Memory, NEW A, NEW e, NEW t, Laid(m, First, A, e, t),
           NEW k \in Key, NEW v \in Value, Fits(e, k, v),
           NEW ws, ws = AppendAt(e, k, v), NEW f, f = Applied(m, ws)
    PROVE  /\ Makes(m, ws, f, e, ItemSize(k, v) + 2) /\ Entry(f, e, k, ItemSize(k, v))
           /\ Laid(f, First, A \cup {e + ItemSize(k, v)}, e + ItemSize(k, v), t)
<1>1. PICK n \in Nat : n = ItemSize(k, v) /\ 4 <= n /\ 3 + Len(k) <= n
  <2>1. \A i, j \in Nat : 3 + i <= 3 + i + j
    OBVIOUS
  <2>2. 3 + Len(k) <= ItemSize(k, v)
    BY <2>1, ItemSizes
  <2> QED BY <2>2, ItemSizes
<1>2. e \in Nat
  BY DEF Laid
<1>3. e + n + 2 < MemorySize /\ e + n <= MemorySize /\ (e + n) + 2 <= MemorySize
  <2>1. e + n + 2 < MemorySize
    BY <1>1 DEF Fits
  <2> QED BY <1>2, <2>1, TableAssumption
<1>4. PICK g : g = Applied(m, WriteItem(e, k, v))
  OBVIOUS
<1>5. Makes(m, WriteItem(e, k, v), g, e, n) /\ Entry(g, e, k, n)
  BY <1>1, <1>2, <1>3, <1>4, ItemMakes
<1>6. PICK b \in Nat : b = e + n
  BY <1>2
<1>7. PICK h : h = Applied(g, WriteEnd(b))
  OBVIOUS
<1>8. Makes(g, WriteEnd(b), h, b, 2) /\ FullLength(h, b) = EndTag
  BY <1>3, <1>5, <1>6, <1>7, WithinMakes, EndMakes
<1>9. ws = WriteItem(e, k, v) \o WriteEnd(b)
  BY <1>1, <1>6 DEF AppendAt
<1>10. Makes(m, ws, h, e, n + 2)
  <2>1. Makes(m, ws, h, e, (b + 2) - e)
    <3>1. e + n <= b /\ 2 \in Nat
      BY <1>2, <1>6
    <3> QED BY <1>2, <1>5, <1>8, <1>9, <3>1, MakesBoth
  <2>2. (b + 2) - e = n + 2
    BY <1>2, <1>6
  <2> QED BY <2>1, <2>2
<1>11. h = f
  BY <1>10, WithinMakes
<1>12. Entry(f, e, k, n)
  <2>1. ASSUME NEW x \in Nat, x < e + n PROVE f[x] = g[x]
    <3>1. x \in Addresses /\ x < b
      BY <1>2, <1>3, <1>6, <2>1, TableAssumption DEF Addresses
    <3> QED BY <1>8, <1>11, <3>1, WithinMakes DEF Within
  <2>2. f[e] = g[e] /\ f[e + 1] = g[e + 1] /\ f[e + 2] = g[e + 2]
    BY <1>1, <1>2, <2>1
  <2>3. PICK i \in Nat : i = Len(k)
    BY ItemSizes
  <2>4. Bytes(f, e + 3, i) = Bytes(g, e + 3, i)
    <3>1. ASSUME NEW j \in 1..i PROVE f[e + 3 + j - 1] = g[e + 3 + j - 1]
      <4>1. e + 3 + j - 1 \in Nat /\ e + 3 + j - 1 < e + n
        BY <1>1, <1>2, <2>3
      <4> QED BY <2>1, <4>1
    <3> QED BY <3>1 DEF Bytes
  <2> QED BY <1>5, <2>2, <2>3, <2>4 DEF Entry, FullLength, KeyLength
<1>13. Laid(f, First, A \cup {e + n}, e + n, t)
  <2>1. Within(m, f, e, n + 2)
    BY <1>10, <1>11, WithinMakes
  <2>2. FullLength(f, e) = n /\ 3 + KeyLength(f, e) <= n
    BY <1>1, <1>12 DEF Entry
  <2>3. FullLength(f, e + n) = EndTag
    BY <1>6, <1>8, <1>11
  <2> QED BY <1>1, <1>3, <2>1, <2>2, <2>3, Longer
<1> QED BY <1>1, <1>10, <1>11, <1>12, <1>13

LEMMA FormatMakes ==
    ASSUME NEW m \in Memory, NEW f, f = Applied(m, Format), NEW t
    PROVE  Makes(m, Format, f, 0, 3) /\ Laid(f, First, {First}, First, t)
<1>1. PICK b : b = <<1>>
  OBVIOUS
<1>2. b \in Seq(Byte) /\ Len(b) = 1
  <2>1. PICK c \in Byte : c = 1
    BY SmallIsByte
  <2>2. b = <<c>>
    BY <1>1, <2>1
  <2> QED BY <2>2
<1>3. PICK g : g = Applied(m, Alone(0, b))
  OBVIOUS
<1>4. Makes(m, Alone(0, b), g, 0, 1)
  <2>1. PICK n1 \in Nat, z \in Nat :
            n1 = Len(b) /\ n1 = 1 /\ z = 0 /\ z + n1 <= MemorySize
    BY <1>2, TableAssumption
  <2>2. b \in Seq(Byte)
    BY <1>2
  <2>3. g = Applied(m, Alone(z, b))
    BY <1>3, <2>1
  <2>4. Makes(m, Alone(z, b), g, z, n1)
    BY <2>1, <2>2, <2>3, WriteMakes
  <2> QED BY <2>1, <2>4
<1>5. PICK o \in Nat : o = First /\ o = 1 /\ o + 2 < MemorySize
  BY TableAssumption DEF First
<1>6. PICK h : h = Applied(g, WriteEnd(o))
  OBVIOUS
<1>7. Makes(g, WriteEnd(o), h, o, 2) /\ FullLength(h, o) = EndTag
  <2>1. o + 2 <= MemorySize
    BY <1>5, TableAssumption
  <2> QED BY <1>4, <1>6, <2>1, WithinMakes, EndMakes
<1>8. Format = Alone(0, b) \o WriteEnd(o)
  BY <1>1, <1>5 DEF Format, Alone
<1>9. Makes(m, Format, h, 0, 3)
  <2>1. PICK z \in Nat, n1 \in Nat, n2 \in Nat : z = 0 /\ n1 = 1 /\ n2 = 2 /\ z + n1 <= o
    BY <1>5
  <2>2. Makes(m, Alone(0, b), g, z, n1) /\ Makes(g, WriteEnd(o), h, o, n2)
    BY <1>4, <1>7, <2>1
  <2>3. Makes(m, Alone(0, b) \o WriteEnd(o), h, z, (o + n2) - z)
    BY <2>1, <2>2, MakesBoth
  <2>4. (o + n2) - z = 3 /\ z = 0
    BY <1>5, <2>1
  <2> QED BY <1>8, <2>3, <2>4
<1>10. h = f
  BY <1>9, WithinMakes
<1>11. Laid(f, First, {First}, First, t)
  BY <1>5, <1>7, <1>10 DEF Laid
<1> QED BY <1>9, <1>10, <1>11

----------------------------------------------------------------------------
(* Packing.                                                                  *)

\* ws makes a table of m.
MakesTable(m, ws, t) ==
    ws \in Seq(Writes) /\ \E A, e : Laid(Applied(m, ws), First, A, e, t)

Packing(m, d, t) ==
    /\ d.writes \in Seq(Writes)
    /\ \E A, e : /\ Laid(Applied(m, d.writes), First, A, e, t)
                 /\ d.hole = None \/ d.hole \in A
    /\ Applied(m, d.writes)[0] = m[0]

LEMMA MovesOf ==
    ASSUME NEW m \in Memory, NEW h \in Nat, NEW i \in Nat, NEW p \in Nat, p + 2 < MemorySize,
           h + 4 <= i, i < p
    PROVE  LET vs == MoveMemory(m, i, h, p - i) IN LET hs == WriteHole(h + (p - i), i - h) IN
           /\ vs \in Seq(Writes) /\ hs \in Seq(Writes) /\ vs \o hs \in Seq(Writes)
           /\ Slid(m, Applied(m, vs \o hs), h, i, p)
<1>1. PICK n \in Nat, d \in Nat, q \in Nat :
          n = p - i /\ d = i - h /\ q = h + n /\ i + n = p /\ q + d = p /\ 4 <= d
  OBVIOUS
<1>2. MemorySize \in Nat /\ MemorySize < 65536
  BY TableAssumption DEF EndTag
<1>3. i + n <= MemorySize /\ h + n <= MemorySize /\ q + 3 <= MemorySize /\ TwoBytes(d)
  BY <1>1, <1>2 DEF TwoBytes
<1>4. PICK vs \in Seq(Writes) : vs = MoveMemory(m, i, h, n)
  BY <1>3, MoveMakes
<1>5. PICK g : g = Applied(m, vs) /\ Moved(g, m, m, i, h, 0, n)
  BY <1>3, <1>4, MoveMakes
<1>6. g \in Memory
  BY <1>5 DEF Moved
<1>7. PICK hs, f : hs = WriteHole(q, d) /\ f = Applied(g, hs)
  OBVIOUS
<1>8. /\ hs \in Seq(Writes) /\ Within(g, f, q, 3)
      /\ FullLength(f, q) = d /\ KeyLength(f, q) = 0
  BY <1>3, <1>6, <1>7, WriteHoleMakes, WithinMakes
<1>9. vs \o hs \in Seq(Writes) /\ Applied(m, vs \o hs) = f
  BY <1>4, <1>5, <1>7, <1>8, AppliedConcat, ConcatProperties
<1>10. Slid(m, f, h, i, p)
  <2>1. /\ Moved(g, m, m, i, h, 0, p - i) /\ Within(g, f, h + (p - i), 3) /\ h < i
        /\ FullLength(f, h + (p - i)) = i - h /\ KeyLength(f, h + (p - i)) = 0
    BY <1>1, <1>5, <1>8
  <2> QED BY <2>1, SlidBy
<1> QED BY <1>1, <1>4, <1>7, <1>8, <1>9, <1>10

EndSet(m, f, h) == Within(m, f, h, 2) /\ FullLength(f, h) = EndTag

\* A turn of the packing from m to f: the items between the hole h and the next go down, or
\* there are none and the table ends at h.
Ended(m, f, A, e, h) ==
    EndSet(m, f, h) /\ \A y \in A \ {e} : h < y => KeyLength(m, y) = 0
Turned(m, f, A, e, h, i, p) ==
    /\ i \in A /\ p \in A /\ h < i /\ i < p /\ Slid(m, f, h, i, p)
    /\ \A y \in A : /\ h < y /\ y < i => KeyLength(m, y) = 0
                    /\ i <= y /\ y < p => KeyLength(m, y) # 0

LEMMA PackTurn ==
    ASSUME NEW m \in Memory, NEW d, d.writes \in Seq(Writes), d.hole # None,
           NEW now, now = Applied(m, d.writes),
           NEW A, NEW e, NEW t, Laid(now, First, A, e, t), d.hole \in A,
           NEW g, g = Pack(m, d), NEW f, f = Applied(m, g.writes)
    PROVE  /\ g.writes \in Seq(Writes) /\ f \in Memory
           /\ \/ g.hole = None /\ Ended(now, f, A, e, d.hole)
              \/ \E i, p : g.hole = d.hole + (p - i) /\ Turned(now, f, A, e, d.hole, i, p)
<1>1. now \in Memory
  BY AppliedType
<1>2. PICK i : i = FindNextItem(now, d.hole)
  OBVIOUS
<1>3. PICK p : p = IF FindHole(now, i) = None THEN FindEnd(now, i) ELSE FindHole(now, i)
  OBVIOUS
<1>4. g = IF i = None THEN [hole |-> None, writes |-> d.writes \o WriteEnd(d.hole)]
          ELSE [hole |-> d.hole + (p - i),
                writes |-> d.writes \o MoveMemory(now, i, d.hole, p - i)
                                    \o WriteHole(d.hole + (p - i), i - d.hole)]
  BY <1>2, <1>3, Zenon DEF Pack
<1>5. PICK h \in A : h = d.hole
  OBVIOUS
<1>6. /\ i # None => h # e /\ i \in A /\ i # e /\ KeyLength(now, i) # 0
                     /\ h + FullLength(now, h) <= i
      /\ \A y \in A \ {e} : h < y /\ (i = None \/ y < i) => KeyLength(now, y) = 0
  BY <1>1, <1>2, <1>5, NextOfTable
<1>7. A \subseteq Nat /\ e \in A /\ e \in Nat /\ e + 2 < MemorySize /\ \A y \in A : y <= e
  BY DEF Laid
<1>8. ASSUME NEW ws \in Seq(Writes), g.writes = d.writes \o ws
      PROVE  g.writes \in Seq(Writes) /\ f = Applied(now, ws) /\ f \in Memory
  <2>1. PICK us \in Seq(Writes) : us = d.writes
    OBVIOUS
  <2>2. us \o ws \in Seq(Writes) /\ Applied(m, us \o ws) = Applied(now, ws)
    BY <2>1, AppliedConcat, ConcatProperties
  <2> QED BY <1>8, <2>1, <2>2, AppliedType
<1>9. CASE i = None
  <2>1. h \in Nat /\ h + 2 <= MemorySize
    BY <1>1, <1>5, EndsOfTable, TableAssumption
  <2>2. PICK ws, x : ws = WriteEnd(h) /\ x = Applied(now, ws)
    OBVIOUS
  <2>3. ws \in Seq(Writes) /\ Within(now, x, h, 2) /\ FullLength(x, h) = EndTag
    BY <1>1, <2>1, <2>2, EndMakes, WithinMakes
  <2>4. g = [hole |-> None, writes |-> d.writes \o ws]
    BY <1>4, <1>5, <1>9, <2>2
  <2>5. g.hole = None /\ g.writes = d.writes \o ws
    BY <2>4
  <2>6. g.writes \in Seq(Writes) /\ f = x /\ f \in Memory
    BY <1>8, <2>2, <2>3, <2>5
  <2>7. Ended(now, f, A, e, h)
    BY <1>6, <1>9, <2>3, <2>6 DEF Ended, EndSet
  <2> QED BY <1>5, <2>5, <2>6, <2>7
<1>10. CASE i # None
  <2>1. i \in A /\ i # e /\ KeyLength(now, i) # 0 /\ h # e /\ h + FullLength(now, h) <= i
    BY <1>6, <1>10
  <2>2. h + 4 <= i /\ h \in Nat /\ i \in Nat /\ i < e
    <3>1. FullLength(now, h) \in Nat /\ 4 <= FullLength(now, h)
      BY <1>1, <2>1, LaidItem
    <3> QED BY <1>7, <2>1, <3>1
  <2>3. p \in A /\ i < p /\ \A y \in A : i <= y /\ y < p => KeyLength(now, y) # 0
    <3>1. Nearest(FindHole(now, i), A, Holes(now), i, MemorySize - 2)
      BY <1>1, <2>1, HoleOfTable
    <3>2. \A y \in A : y < MemorySize - 2 /\ (y \in Holes(now) <=> KeyLength(now, y) = 0)
      <4> SUFFICES ASSUME NEW y \in A PROVE y < MemorySize - 2
        BY <1>1, EndsOfTable
      <4>1. y \in Nat /\ y <= e
        BY <1>7
      <4>2. MemorySize \in Nat
        BY TableAssumption
      <4> QED BY <1>7, <4>1, <4>2
    <3>3. CASE FindHole(now, i) = None
      <4>1. p = e
        BY <1>1, <1>3, <2>1, <3>3, EndOfTable
      <4> QED BY <1>7, <2>2, <3>1, <3>2, <3>3, <4>1 DEF Nearest
    <3>4. CASE FindHole(now, i) # None
      <4>1. p \in A /\ p \in Holes(now) /\ i <= p /\ p = FindHole(now, i)
        BY <1>3, <3>1, <3>4 DEF Nearest
      <4>2. p # i
        BY <2>1, <3>2, <4>1
      <4>3. ASSUME NEW y \in A, i <= y, y < p, KeyLength(now, y) = 0 PROVE FALSE
        <5>1. p <= y
          BY <3>1, <3>2, <4>1, <4>3 DEF Nearest
        <5> QED BY <1>7, <4>1, <4>3, <5>1
      <4> QED BY <1>7, <2>2, <4>1, <4>2, <4>3
    <3> QED BY <3>3, <3>4
  <2>4. PICK vs, hs : vs = MoveMemory(now, i, h, p - i) /\ hs = WriteHole(h + (p - i), i - h)
    OBVIOUS
  <2>5. /\ vs \in Seq(Writes) /\ hs \in Seq(Writes) /\ vs \o hs \in Seq(Writes)
        /\ Slid(now, Applied(now, vs \o hs), h, i, p)
    <3>1. p \in Nat /\ p + 2 < MemorySize
      BY <1>1, <2>3, EndsOfTable
    <3> QED BY <1>1, <2>2, <2>3, <2>4, <3>1, MovesOf
  <2>6. (d.writes \o vs) \o hs = d.writes \o (vs \o hs)
    <3>1. PICK us \in Seq(Writes) : us = d.writes
      OBVIOUS
    <3>2. (us \o vs) \o hs = us \o (vs \o hs)
      BY <2>5, ConcatAssociative, SMTT(30)
    <3> QED BY <3>1, <3>2
  <2>7. g = [hole |-> h + (p - i), writes |-> d.writes \o (vs \o hs)]
    BY <1>4, <1>5, <1>10, <2>4, <2>6
  <2>8. g.hole = h + (p - i) /\ g.writes = d.writes \o (vs \o hs)
    <3>1. PICK q, us : q = h + (p - i) /\ us = d.writes \o (vs \o hs)
      OBVIOUS
    <3>2. g = [hole |-> q, writes |-> us]
      BY <2>7, <3>1
    <3>3. g.hole = q /\ g.writes = us
      BY <3>2
    <3> QED BY <3>1, <3>3
  <2>9. g.writes \in Seq(Writes) /\ f = Applied(now, vs \o hs) /\ f \in Memory
    BY <1>8, <2>5, <2>8
  <2>10. Turned(now, f, A, e, h, i, p)
    <3>1. \A y \in A : h < y /\ y < i => KeyLength(now, y) = 0
      BY <1>6, <1>7, <1>10, <2>2
    <3> QED BY <2>1, <2>2, <2>3, <2>5, <2>9, <3>1 DEF Turned
  <2> QED BY <1>5, <2>8, <2>9, <2>10
<1> QED BY <1>9, <1>10

LEMMA PackStep ==
    ASSUME NEW m \in Memory, NEW d, NEW t, Packing(m, d, t)
    PROVE  Packing(m, Pack(m, d), t)
<1>1. PICK A, e : /\ Laid(Applied(m, d.writes), First, A, e, t)
                  /\ d.hole = None \/ d.hole \in A
  BY DEF Packing
<1>2. d.writes \in Seq(Writes) /\ Applied(m, d.writes)[0] = m[0]
  BY DEF Packing
<1>3. PICK now \in Memory : now = Applied(m, d.writes)
  BY <1>2, AppliedType
<1>4. CASE d.hole = None
  <2>1. Pack(m, d) = d
    BY <1>4, Zenon DEF Pack
  <2> QED BY <2>1
<1>5. CASE d.hole # None
  <2>0. PICK h \in A : h = d.hole
    BY <1>1, <1>5
  <2>1. PICK g, f : g = Pack(m, d) /\ f = Applied(m, g.writes) /\ h = d.hole
    BY <2>0
  <2>5. h \in Nat /\ 0 < h /\ 0 \in Addresses
    BY <1>1, TableAssumption DEF Laid, First, Addresses
  <2>2. /\ g.writes \in Seq(Writes) /\ f \in Memory
        /\ \/ g.hole = None /\ Ended(now, f, A, e, h)
           \/ \E i, p : g.hole = h + (p - i) /\ Turned(now, f, A, e, h, i, p)
    BY <1>1, <1>2, <1>3, <1>5, <2>1, PackTurn
  <2>3. CASE g.hole = None /\ Ended(now, f, A, e, h)
    <3>1. Laid(f, First, {x \in A : x <= h}, h, t)
      BY <1>1, <1>3, <2>3, Cropped DEF Ended, EndSet
    <3>2. f[0] = now[0]
      BY <2>3, <2>5 DEF Ended, EndSet, Within
    <3> QED BY <1>2, <1>3, <2>1, <2>2, <2>3, <3>1, <3>2 DEF Packing
  <2>4. CASE \E i, p : g.hole = h + (p - i) /\ Turned(now, f, A, e, h, i, p)
    <3>1. PICK i, p : g.hole = h + (p - i) /\ Turned(now, f, A, e, h, i, p)
      BY <2>4
    <3>2. Laid(f, First, Shifted(A, h, i, p), e, t)
      BY <1>1, <1>3, <3>1, Packed DEF Turned
    <3>3. g.hole \in Shifted(A, h, i, p)
      BY <3>1, ShiftedIn
    <3>4. f[0] = now[0]
      BY <2>5, <3>1 DEF Turned, Slid
    <3> QED BY <1>2, <1>3, <2>1, <2>2, <3>2, <3>3, <3>4 DEF Packing
  <2> QED BY <2>2, <2>3, <2>4
<1> QED BY <1>4, <1>5

LEMMA Turns ==
    ASSUME NEW m
    PROVE  \E turn : /\ turn[0] = [hole |-> FindHole(m, First), writes |-> <<>>]
                     /\ \A n \in 1..MemorySize : turn[n] = Pack(m, turn[n - 1])
                     /\ Defrag(m) = Moving(turn[MemorySize].writes)
<1> DEFINE start == [hole |-> FindHole(m, First), writes |-> <<>>]
<1> DEFINE Is(f, k) == f = [n \in 0..k |-> IF n = 0 THEN start ELSE Pack(m, f[n - 1])]
<1>0. PICK k \in Nat : k = MemorySize
  BY TableAssumption
<1>3. PICK f : f = CHOOSE h : Is(h, k)
  OBVIOUS
<1>4. Defrag(m) = Moving(f[MemorySize].writes)
  BY <1>0, <1>3, Zenon DEF Defrag
<1> HIDE DEF Is
<1> DEFINE NoneYet == {n \in 0..k : ~ \E f1 : Is(f1, n)}
<1>1. ASSUME NoneYet # {} PROVE FALSE
  <2>1. PICK n \in NoneYet : \A i \in NoneYet : n <= i
    BY <1>0, <1>1, SmallestUpTo
  <2>2. n # 0
    <3> DEFINE one == [i \in 0..0 |-> start]
    <3>1. one = [i \in 0..0 |-> IF i = 0 THEN start ELSE Pack(m, one[i - 1])]
      OBVIOUS
    <3> HIDE DEF one
    <3>2. Is(one, 0)
      BY <3>1 DEF Is
    <3> QED BY <2>1, <3>2
  <2>3. PICK g : Is(g, n - 1)
    <3>1. n - 1 \in 0..k /\ n - 1 \notin NoneYet
      BY <1>0, <2>1, <2>2
    <3> QED BY <3>1
  <2> HIDE DEF start
  <2> DEFINE h == [i \in 0..n |-> IF i = n THEN Pack(m, g[n - 1]) ELSE g[i]]
  <2>4. \A i \in 0..(n - 1) : h[i] = g[i]
    BY <2>1
  <2>5. h[n] = Pack(m, g[n - 1])
    BY <2>1
  <2>6. h = [i \in 0..n |-> h[i]]
    OBVIOUS
  <2> HIDE DEF h
  <2>7. ASSUME NEW i \in 0..n PROVE h[i] = IF i = 0 THEN start ELSE Pack(m, h[i - 1])
    <3>1. CASE i = n
      <4>1. n - 1 \in 0..(n - 1)
        BY <2>1, <2>2
      <4> QED BY <2>2, <2>4, <2>5, <3>1, <4>1
    <3>2. CASE i # n
      <4>1. i \in 0..(n - 1) /\ (i # 0 => i - 1 \in 0..(n - 1))
        BY <2>1, <3>2
      <4>2. g[i] = IF i = 0 THEN start ELSE Pack(m, g[i - 1])
        BY <2>3, <4>1 DEF Is
      <4> QED BY <2>4, <4>1, <4>2
    <3> QED BY <3>1, <3>2
  <2>8. Is(h, n)
    BY <2>6, <2>7 DEF Is
  <2> QED BY <2>1, <2>8
<1>2. Is(f, k)
  <2>1. \E f1 : Is(f1, k)
    BY <1>0, <1>1
  <2> QED BY <1>3, <2>1
<1> QED BY <1>0, <1>2, <1>4 DEF Is

\* Nothing, or the last of the writes moves a part of the memory.
EndsMoving(ws) == ws = <<>> \/ ws[Len(ws)].moving

LEMMA MovingEnds == ASSUME NEW ws \in Seq(Writes) PROVE EndsMoving(Moving(ws))
<1>1. PICK n \in Nat : n = Len(ws) /\ DOMAIN ws = 1..n
  OBVIOUS
<1>2. PICK vs \in Seq(Writes) : vs = Moving(ws) /\ DOMAIN vs = 1..n
  BY <1>1, AppliedMoving DEF Moving
<1>3. Len(vs) = n
  BY <1>1, <1>2
<1>4. CASE n = 0
  BY <1>2, <1>3, <1>4, EmptySeq DEF EndsMoving
<1>5. CASE n # 0
  <2>1. n \in 1..n /\ ws[n] \in Writes
    BY <1>1, <1>5
  <2>2. vs[n] = [ws[n] EXCEPT !.moving = TRUE]
    BY <1>1, <1>2, <2>1 DEF Moving
  <2>3. vs[n].moving
    BY <2>1, <2>2 DEF Writes
  <2> QED BY <1>2, <1>3, <2>3 DEF EndsMoving
<1> QED BY <1>4, <1>5

LEMMA DefragMakes ==
    ASSUME NEW m \in Memory, NEW A, NEW e, NEW t, Laid(m, First, A, e, t)
    PROVE  MakesTable(m, Defrag(m), t) /\ EndsMoving(Defrag(m)) /\ Applied(m, Defrag(m))[0] = m[0]
<1>1. PICK turn : /\ turn[0] = [hole |-> FindHole(m, First), writes |-> <<>>]
                  /\ \A n \in 1..MemorySize : turn[n] = Pack(m, turn[n - 1])
                  /\ Defrag(m) = Moving(turn[MemorySize].writes)
  BY Turns
<1>2. Packing(m, turn[0], t)
  <2>1. turn[0].hole = FindHole(m, First) /\ turn[0].writes = <<>>
    BY <1>1
  <2>2. First \in A
    BY DEF Laid
  <2>3. FindHole(m, First) = None \/ FindHole(m, First) \in A
    BY <2>2, HoleOfTable DEF Nearest
  <2> QED BY <2>1, <2>3, AppliedNone, EmptySeq DEF Packing
<1> DEFINE Other == {n \in 0..MemorySize : ~ Packing(m, turn[n], t)}
<1>3. ASSUME Other # {} PROVE FALSE
  <2>1. PICK n \in Other : \A i \in Other : n <= i
    BY <1>3, SmallestUpTo, TableAssumption
  <2>2. n \in 1..MemorySize /\ n - 1 \in 0..MemorySize /\ n - 1 \notin Other
    BY <1>2, <2>1, TableAssumption
  <2>3. Packing(m, turn[n - 1], t)
    BY <2>2
  <2> QED BY <1>1, <2>1, <2>2, <2>3, PackStep
<1>4. Packing(m, turn[MemorySize], t)
  BY <1>3, TableAssumption
<1>5. PICK ws \in Seq(Writes) : ws = turn[MemorySize].writes /\ Applied(m, ws)[0] = m[0]
  BY <1>4 DEF Packing
<1>6. PICK B, z : Laid(Applied(m, ws), First, B, z, t)
  BY <1>4, <1>5 DEF Packing
<1>7. Defrag(m) \in Seq(Writes) /\ Applied(m, Defrag(m)) = Applied(m, ws)
  BY <1>1, <1>5, AppliedMoving
<1>8. EndsMoving(Defrag(m))
  BY <1>1, <1>5, MovingEnds
<1> QED BY <1>5, <1>6, <1>7, <1>8 DEF MakesTable

LEMMA MakesTableThen ==
    ASSUME NEW m \in Memory, NEW t, NEW ws \in Seq(Writes), NEW vs,
           MakesTable(Applied(m, ws), vs, t)
    PROVE  MakesTable(m, ws \o vs, t)
<1>1. vs \in Seq(Writes)
  BY DEF MakesTable
<1>2. ws \o vs \in Seq(Writes) /\ Applied(m, ws \o vs) = Applied(Applied(m, ws), vs)
  BY <1>1, AppliedConcat, ConcatProperties
<1> QED BY <1>2 DEF MakesTable

LEMMA NothingMakesTable ==
    ASSUME NEW m \in Memory, NEW A, NEW e, NEW t, Laid(m, First, A, e, t)
    PROVE  MakesTable(m, <<>>, t)
BY AppliedNone, EmptySeq DEF MakesTable

LEMMA AppendAtTable ==
    ASSUME NEW m \in Memory, NEW A, NEW e, NEW t, Laid(m, First, A, e, t),
           NEW k \in Key, NEW v \in Value, Fits(e, k, v)
    PROVE  MakesTable(m, AppendAt(e, k, v), t)
<1>1. PICK ws, f : ws = AppendAt(e, k, v) /\ f = Applied(m, ws)
  OBVIOUS
<1>2. PICK n : n = ItemSize(k, v)
  OBVIOUS
<1>3. Makes(m, ws, f, e, n + 2) /\ Laid(f, First, A \cup {e + n}, e + n, t)
  BY <1>1, <1>2, AppendAtMakes
<1>4. ws \in Seq(Writes)
  BY <1>3, WithinMakes
<1> QED BY <1>1, <1>3, <1>4 DEF MakesTable

LEMMA AppendItemMakes ==
    ASSUME NEW m \in Memory, NEW A, NEW e, NEW t, Laid(m, First, A, e, t),
           NEW k \in Key, NEW v \in Value
    PROVE  AppendItem(m, k, v).ok \in BOOLEAN /\ MakesTable(m, AppendItem(m, k, v).writes, t)
<1>1. First \in A
  BY DEF Laid
<1>2. FindEnd(m, First) = e /\ e # None
  BY <1>1, EndOfTable, NoneIsNoAddress DEF Laid
<1>3. MakesTable(m, Defrag(m), t)
  BY DefragMakes
<1>4. PICK ds \in Seq(Writes) : ds = Defrag(m)
  BY <1>3 DEF MakesTable
<1>5. PICK B, z : Laid(Applied(m, ds), First, B, z, t)
  BY <1>3, <1>4 DEF MakesTable
<1>6. PICK f \in Memory : f = Applied(m, ds)
  BY AppliedType
<1>7. FindEnd(f, First) = z
  <2>1. Laid(f, First, B, z, t) /\ First \in B
    BY <1>5, <1>6 DEF Laid
  <2> QED BY <2>1, EndOfTable
<1>8. AppendItem(m, k, v) =
         IF Fits(e, k, v) THEN [ok |-> TRUE, writes |-> AppendAt(e, k, v)]
         ELSE IF Fits(z, k, v) THEN [ok |-> TRUE, writes |-> ds \o AppendAt(z, k, v)]
         ELSE [ok |-> FALSE, writes |-> ds]
  BY <1>2, <1>4, <1>6, <1>7 DEF AppendItem
<1>9. CASE Fits(e, k, v)
  <2>1. MakesTable(m, AppendAt(e, k, v), t)
    BY <1>9, AppendAtTable
  <2> QED BY <1>8, <1>9, <2>1
<1>10. CASE ~ Fits(e, k, v) /\ Fits(z, k, v)
  <2>1. MakesTable(f, AppendAt(z, k, v), t)
    <3>1. Laid(f, First, B, z, t)
      BY <1>5, <1>6
    <3> QED BY <1>10, <3>1, AppendAtTable
  <2>2. MakesTable(m, ds \o AppendAt(z, k, v), t)
    BY <1>6, <2>1, MakesTableThen
  <2> QED BY <1>8, <1>10, <2>2
<1>11. CASE ~ Fits(e, k, v) /\ ~ Fits(z, k, v)
  BY <1>3, <1>4, <1>8, <1>11
<1> QED BY <1>9, <1>10, <1>11

LEMMA StoreItemMakes ==
    ASSUME NEW m \in Memory, NEW A, NEW e, NEW t, Laid(m, First, A, e, t),
           NEW k \in Key, NEW v \in Value
    PROVE  StoreItem(m, k, v).ok \in BOOLEAN /\ MakesTable(m, StoreItem(m, k, v).writes, t)
<1>1. PICK x : x = ItemOf(m, k)
  OBVIOUS
<1>2. CASE x = None
  <2>1. StoreItem(m, k, v) = AppendItem(m, k, v)
    BY <1>1, <1>2 DEF StoreItem
  <2> QED BY <2>1, AppendItemMakes
<1>3. CASE x # None
  <2>1. x \in A /\ x # e
    BY <1>1, <1>3, KeyOfTable
  <2>2. CASE FullLength(m, x) = ItemSize(k, v)
    <3>1. StoreItem(m, k, v) = [ok |-> TRUE, writes |-> WriteItem(x, k, v)]
      BY <1>1, <1>3, <2>2 DEF StoreItem
    <3>2. MakesTable(m, WriteItem(x, k, v), t)
      BY <2>1, <2>2, RewriteMakes, WithinMakes DEF MakesTable
    <3> QED BY <3>1, <3>2
  <2>3. CASE FullLength(m, x) # ItemSize(k, v)
    <3>1. PICK hs, f : hs = WriteHole(x, FullLength(m, x)) /\ f = Applied(m, hs)
      OBVIOUS
    <3>2. hs \in Seq(Writes) /\ f \in Memory /\ Laid(f, First, A, e, t)
      BY <2>1, <3>1, HoleMakes, WithinMakes
    <3>3. PICK r : r = AppendItem(f, k, v)
      OBVIOUS
    <3>4. r.ok \in BOOLEAN /\ MakesTable(f, r.writes, t)
      BY <3>2, <3>3, AppendItemMakes
    <3>5. StoreItem(m, k, v) = [r EXCEPT !.writes = hs \o @]
      BY <1>1, <1>3, <2>3, <3>1, <3>3 DEF StoreItem
    <3>6. r = [ok |-> r.ok, writes |-> r.writes]
      BY <3>3, Zenon DEF AppendItem
    <3>7. StoreItem(m, k, v).ok = r.ok /\ StoreItem(m, k, v).writes = hs \o r.writes
      BY <3>5, <3>6
    <3> QED BY <3>1, <3>2, <3>4, <3>7, MakesTableThen
  <2> QED BY <2>2, <2>3
<1> QED BY <1>2, <1>3

LEMMA DeleteMakes ==
    ASSUME NEW m \in Memory, NEW A, NEW e, NEW t, Laid(m, First, A, e, t), NEW k \in Key,
           ItemOf(m, k) # None
    PROVE  MakesTable(m, WriteHole(ItemOf(m, k), FullLength(m, ItemOf(m, k))), t)
<1>1. PICK x : x = ItemOf(m, k)
  OBVIOUS
<1>2. x \in A /\ x # e
  BY <1>1, KeyOfTable
<1> QED BY <1>1, <1>2, HoleMakes, WithinMakes DEF MakesTable

----------------------------------------------------------------------------
(* The storage service.                                                      *)

\* With what the operation under way has left to write, the memory is a table.
StorageInv ==
    /\ mem \in Memory /\ MakesTable(mem, writes, trusted)
    /\ answer \in BOOLEAN /\ crashes \in 0..MaxCrashes /\ trusted \in BOOLEAN

LEMMA StorageTyped == StorageInv => StorageTypeOK
<1> SUFFICES ASSUME StorageInv PROVE StorageTypeOK
  OBVIOUS
<1>1. writes \in Seq(Writes)
  BY DEF StorageInv, MakesTable
<1>2. ASSUME NEW i \in DOMAIN writes
      PROVE  writes[i].at \in Nat /\ writes[i].at + Len(writes[i].bytes) <= MemorySize
  <2>1. PICK w \in Writes : w = writes[i]
    BY <1>1
  <2> QED BY <2>1, WriteType
<1> QED BY <1>2 DEF StorageInv, StorageTypeOK

LEMMA StorageStarts == StorageInit => StorageInv
<1> SUFFICES ASSUME StorageInit PROVE StorageInv
  OBVIOUS
<1>1. PICK b \in Byte : mem = Applied([a \in 0..(MemorySize - 1) |-> b], Format)
  BY TableAssumption DEF StorageInit
<1>2. PICK m : m = [a \in 0..(MemorySize - 1) |-> b]
  OBVIOUS
<1>3. m \in Memory
  BY <1>2 DEF Memory
<1>4. mem = Applied(m, Format)
  BY <1>1, <1>2
<1>5. Laid(mem, First, {First}, First, TRUE) /\ mem \in Memory
  BY <1>3, <1>4, FormatMakes, WithinMakes
<1>6. MakesTable(mem, <<>>, TRUE)
  BY <1>5, NothingMakesTable
<1>7. /\ writes = <<>> /\ answer = TRUE /\ crashes = 0 /\ trusted = TRUE
      /\ 0 \in 0..MaxCrashes
  BY TableAssumption DEF StorageInit
<1> QED BY <1>5, <1>6, <1>7 DEF StorageInv

LEMMA FormatsTable == ASSUME NEW m \in Memory, NEW t PROVE MakesTable(m, Format, t)
<1>1. PICK f : f = Applied(m, Format)
  OBVIOUS
<1>2. Makes(m, Format, f, 0, 3) /\ Laid(f, First, {First}, First, t)
  BY <1>1, FormatMakes
<1> QED BY <1>1, <1>2, WithinMakes DEF MakesTable

LEMMA StorageSteps ==
    ASSUME StorageInv, [StorageNext]_storageVars
    PROVE  StorageInv'
<1>0. /\ mem \in Memory /\ writes \in Seq(Writes) /\ MakesTable(mem, writes, trusted)
      /\ answer \in BOOLEAN /\ crashes \in 0..MaxCrashes /\ trusted \in BOOLEAN
  BY DEF StorageInv, MakesTable
<1>1. ASSUME writes = <<>> PROVE \E A, e : Laid(mem, First, A, e, trusted)
  BY <1>0, <1>1, AppliedNone DEF MakesTable
<1>2. ASSUME NEW k \in Key, NEW v \in Value, storageStore(k, v) PROVE StorageInv'
  <2>1. PICK s : s = StoreItem(mem, k, v)
    OBVIOUS
  <2>2. writes = <<>> /\ writes' = s.writes /\ answer' = s.ok
        /\ UNCHANGED <<mem, crashes, trusted>>
    BY <1>2, <2>1 DEF storageStore
  <2>3. s.ok \in BOOLEAN /\ MakesTable(mem, s.writes, trusted)
    BY <1>0, <1>1, <2>1, <2>2, StoreItemMakes
  <2> QED BY <1>0, <2>2, <2>3 DEF StorageInv
<1>3. ASSUME NEW k \in Key, storageDelete(k) PROVE StorageInv'
  <2>1. PICK a : a = ItemOf(mem, k)
    OBVIOUS
  <2>2. writes = <<>> /\ answer' = (a # None) /\ UNCHANGED <<mem, crashes, trusted>>
        /\ writes' = IF a = None THEN <<>> ELSE WriteHole(a, FullLength(mem, a))
    BY <1>3, <2>1 DEF storageDelete
  <2>3. PICK A, e : Laid(mem, First, A, e, trusted)
    BY <1>1, <2>2
  <2>4. MakesTable(mem, writes', trusted)
    <3>1. CASE a = None
      BY <1>0, <2>2, <2>3, <3>1, NothingMakesTable
    <3>2. CASE a # None
      BY <1>0, <2>1, <2>2, <2>3, <3>2, DeleteMakes
    <3> QED BY <3>1, <3>2
  <2> QED BY <1>0, <2>2, <2>4 DEF StorageInv
<1>4. ASSUME DoWrite PROVE StorageInv'
  <2>1. /\ writes # <<>> /\ mem' = Put(mem, Head(writes)) /\ writes' = Tail(writes)
        /\ UNCHANGED <<answer, crashes, trusted>>
    BY <1>4 DEF DoWrite
  <2>2. Head(writes) \in Writes /\ Tail(writes) \in Seq(Writes)
    BY <1>0, <2>1
  <2>3. mem' \in Memory
    BY <1>0, <2>1, <2>2, PutType
  <2>4. Applied(mem', writes') = Applied(mem, writes)
    BY <1>0, <2>1, AppliedHead
  <2>5. MakesTable(mem', writes', trusted')
    BY <1>0, <2>1, <2>2, <2>4 DEF MakesTable
  <2> QED BY <1>0, <2>1, <2>3, <2>5 DEF StorageInv
<1>5. ASSUME Crash PROVE StorageInv'
  <2>1. /\ crashes < MaxCrashes /\ crashes' = crashes + 1
        /\ writes' = IF Check(mem) THEN <<>> ELSE Format
        /\ trusted' = ~ Check(mem) /\ UNCHANGED <<mem, answer>>
    BY <1>5 DEF Crash
  <2>2. crashes' \in 0..MaxCrashes
    BY <1>0, <2>1, TableAssumption
  <2>3. CASE Check(mem)
    <3>1. \E A, e : Laid(mem, First, A, e, FALSE)
      <4>1. FindEnd(mem, First) # None /\ First \in Nat
        BY <2>3 DEF Check, First
      <4> QED BY <1>0, <4>1, FoundTable
    <3>2. MakesTable(mem, <<>>, FALSE)
      BY <1>0, <3>1, NothingMakesTable
    <3>3. trusted' = FALSE /\ writes' = <<>>
      BY <2>1, <2>3
    <3> QED BY <1>0, <2>1, <2>2, <3>2, <3>3 DEF StorageInv
  <2>4. CASE ~ Check(mem)
    <3>1. trusted' = TRUE /\ writes' = Format
      BY <2>1, <2>4
    <3>2. MakesTable(mem, Format, TRUE)
      BY <1>0, FormatsTable
    <3> QED BY <1>0, <2>1, <2>2, <3>1, <3>2 DEF StorageInv
  <2> QED BY <2>3, <2>4
<1>6. CASE UNCHANGED storageVars
  BY <1>0, <1>6 DEF StorageInv, storageVars
<1> QED BY <1>2, <1>3, <1>4, <1>5, <1>6 DEF StorageNext

LEMMA StorageInvariant == StorageSpec => []StorageInv
BY StorageStarts, StorageSteps, PTL DEF StorageSpec

\* Typing of the storage: an operation never writes outside the partition, whatever the
\* keys, the values, the sizes and the moments power goes (kve.c, kve_storage.c).
THEOREM WritesInPartition == StorageSpec => []StorageTypeOK
BY StorageInvariant, StorageTyped, PTL

LEMMA ServicesInvariant == ServicesSpec => [](LogInv /\ StorageInv)
<1>1. ServicesInit => LogInv /\ StorageInv
  BY StorageStarts, LogStarts DEF ServicesInit
<1>2. ASSUME LogInv, StorageInv, [ServicesNext]_servicesVars PROVE LogInv' /\ StorageInv'
  <2>1. [Next]_vars
    <3>1. OneBlock \subseteq Requests /\ TwoBlocks \subseteq Requests
      BY CommandsAssumption
    <3> QED BY <1>2, <3>1
        DEF ServicesNext, InLog, InPool, servicesVars, Next, Serve
  <2>2. [StorageNext]_storageVars
    BY <1>2 DEF ServicesNext, InLog, InPool, servicesVars
  <2>3. LogInv'
    BY <1>2, <2>1, LogStep
  <2> QED BY <1>2, <2>2, <2>3, StorageSteps
<1> QED BY <1>1, <1>2, PTL DEF ServicesSpec

\* Typing of both services, the storage's and the log's.
THEOREM ServicesTypeCorrect == ServicesSpec => []ServicesTypeOK
<1>1. LogInv /\ StorageInv => ServicesTypeOK
  BY LogTyped, StorageTyped DEF ServicesTypeOK
<1> QED BY <1>1, ServicesInvariant, PTL

----------------------------------------------------------------------------
(* What power lost between two writes leaves of the other keys.              *)

\* Every item after the first follows another.
LEMMA ItemBefore ==
    ASSUME NEW m \in Memory, NEW a, NEW A, NEW e, NEW t, Laid(m, a, A, e, t), NEW x \in A, x # a
    PROVE  \E p \in A : p < x /\ p # e /\ p + FullLength(m, p) = x
<1>1. a \in A /\ A \subseteq Nat /\ a < x /\ x \in Nat /\ a \in Nat
  BY DEF Laid
<1> DEFINE Gaps == {n \in 0..x : x - n \in A /\ x - n < x}
<1>2. x - a \in Gaps
  <2>1. x - a \in 0..x /\ x - (x - a) = a
    BY <1>1
  <2> QED BY <1>1, <2>1
<1>3. PICK n \in Gaps : \A i \in Gaps : n <= i
  BY <1>1, <1>2, SmallestUpTo
<1>4. PICK p \in A : p = x - n /\ p < x
  BY <1>3
<1>5. p \in Nat /\ p # e /\ FullLength(m, p) \in Nat /\ 4 <= FullLength(m, p)
      /\ p + FullLength(m, p) \in A /\ p + FullLength(m, p) <= x
  BY <1>4, Spaced
<1>6. ASSUME p + FullLength(m, p) < x PROVE FALSE
  <2>1. PICK q \in A : q = p + FullLength(m, p) /\ q < x /\ p < q /\ q \in Nat
    BY <1>5, <1>6
  <2>2. x - q \in 0..x /\ x - (x - q) = q /\ x - q < n
    BY <1>1, <1>3, <1>4, <1>5, <2>1
  <2>3. x - q \in Gaps
    BY <2>1, <2>2
  <2> QED BY <1>3, <2>2, <2>3
<1> QED BY <1>1, <1>4, <1>5, <1>6

\* Two tables have the same items up to c when the lengths of those before it are the same.
SameLengths(m, d, S, c) == \A x \in S : x < c => FullLength(m, x) = FullLength(d, x)

LEMMA SamePrefix ==
    ASSUME NEW m \in Memory, NEW a, NEW A, NEW e, NEW t, Laid(m, a, A, e, t),
           NEW d \in Memory, NEW D, NEW y, NEW u, Laid(d, a, D, y, u),
           NEW c \in Nat, SameLengths(m, d, A \cap D, c), NEW z \in A, z <= c
    PROVE  z \in D
<1>0. A \subseteq Nat /\ a \in A /\ a \in D /\ FullLength(d, y) = EndTag
  BY DEF Laid
<1> DEFINE Other == {x \in 0..c : x \in A /\ x \notin D}
<1>1. ASSUME Other # {} PROVE FALSE
  <2>1. PICK x \in Other : \A i \in Other : x <= i
    BY <1>1, SmallestUpTo
  <2>2. x \in A /\ x \notin D /\ x # a /\ x \in Nat /\ x <= c
    BY <1>0, <2>1
  <2>3. PICK p \in A : p < x /\ p # e /\ p + FullLength(m, p) = x
    <3>1. \E p \in A : p < x /\ p # e /\ p + FullLength(m, p) = x
      <4>1. \A w \in A : w # a => \E p \in A : p < w /\ p # e /\ p + FullLength(m, p) = w
        BY ItemBefore
      <4> QED BY <2>2, <4>1
    <3> QED BY <3>1
  <2>4. p \in Nat /\ p \in 0..c /\ p < c
    BY <1>0, <2>2, <2>3
  <2>5. p \in D
    <3>1. p \notin Other
      BY <2>1, <2>2, <2>3, <2>4
    <3> QED BY <2>4, <3>1
  <2>6. FullLength(d, p) = FullLength(m, p)
    BY <2>4, <2>5 DEF SameLengths
  <2>7. p # y
    BY <1>0, <2>3, <2>6, LaidItem
  <2>8. p + FullLength(d, p) \in D
    BY <2>5, <2>7, LaidItem
  <2> QED BY <2>2, <2>3, <2>6, <2>8
<1>2. z \in 0..c
  BY <1>0
<1> QED BY <1>1, <1>2

\* The bytes of m and f from x on.
Same(m, f, x, l) == \A z \in Addresses : x <= z /\ z < x + l => m[z] = f[z]

\* The item of k at x, the same in both memories or given back.
OwnItem(m, f, x, k) ==
    /\ x + 3 + Len(k) <= MemorySize /\ m[x] = f[x] /\ m[x + 1] = f[x + 1]
    /\ KeyLength(m, x) \in {0, Len(k)} /\ KeyLength(f, x) \in {0, Len(k)}
    /\ \A i \in 1..Len(k) : m[x + 3 + i - 1] = k[i] /\ f[x + 3 + i - 1] = k[i]

\* From m to f no key but k changes: before c in its items only, and there is no other after.
Spares(m, f, A, e, c, k) ==
    /\ c \in A
    /\ \A x \in A : x < c => Same(m, f, x, FullLength(f, x)) \/ OwnItem(m, f, x, k)
    /\ \A x \in A \ {e} : c <= x => \A j \in Key \ {k} : x \notin Holding(f, j)

\* Some bytes of d are those of m and the others those of f.
Mixed(d, m, f) == d \in Memory /\ \A z \in Addresses : d[z] = m[z] \/ d[z] = f[z]

\* Every key of f but one has its value in d.
Spared(d, f) ==
    \E k \in Key : \A j \in Key \ {k} :
        ItemOf(f, j) # None => ItemOf(d, j) # None /\ Fetch(d, j) = Fetch(f, j)

LEMMA KeyType == ASSUME NEW k \in Key
                 PROVE  k \in Seq(Byte) /\ Len(k) \in Nat /\ 1 <= Len(k)
BY TableAssumption

LEMMA HoldingOf ==
    ASSUME NEW m \in Memory, NEW x \in Nat, x + 2 < MemorySize, NEW k \in Key
    PROVE  x \in Holding(m, k) <=>
              KeyLength(m, x) = Len(k) /\ \A i \in 1..Len(k) : m[x + 3 + i - 1] = k[i]
<1>1. x \in Headers
  BY HeadersOf
<1>2. PICK n \in Nat : n = Len(k)
  BY KeyType
<1>3. k = [i \in 1..n |-> k[i]]
  BY <1>2, KeyType
<1>4. Bytes(m, x + 3, n) = [i \in 1..n |-> m[x + 3 + i - 1]]
  BY DEF Bytes
<1>5. Bytes(m, x + 3, n) = k <=> \A i \in 1..n : m[x + 3 + i - 1] = k[i]
  <2>1. ASSUME Bytes(m, x + 3, n) = k, NEW i \in 1..n PROVE m[x + 3 + i - 1] = k[i]
    BY <1>4, <2>1
  <2>2. ASSUME \A i \in 1..n : m[x + 3 + i - 1] = k[i] PROVE Bytes(m, x + 3, n) = k
    BY <1>3, <1>4, <2>2
  <2> QED BY <2>1, <2>2
<1> QED BY <1>1, <1>2, <1>5 DEF Holding

\* An item of k is of no other key.
LEMMA OneKey ==
    ASSUME NEW m, NEW x, NEW k \in Key, KeyLength(m, x) \in {0, Len(k)},
           \A i \in 1..Len(k) : m[x + 3 + i - 1] = k[i], NEW j \in Key, j # k
    PROVE  x \notin Holding(m, j)
<1> SUFFICES ASSUME x \in Holding(m, j) PROVE FALSE
  OBVIOUS
<1>1. KeyLength(m, x) = Len(j) /\ Bytes(m, x + 3, Len(j)) = j
  BY DEF Holding
<1>2. PICK n \in Nat : n = Len(j) /\ n = Len(k)
  BY <1>1, KeyType
<1>3. j = [i \in 1..n |-> m[x + 3 + i - 1]]
  BY <1>1, <1>2 DEF Bytes
<1>4. \A i \in 1..n : j[i] = k[i]
  BY <1>2, <1>3
<1>5. j \in Seq(Byte) /\ k \in Seq(Byte)
  BY KeyType
<1> QED BY <1>2, <1>4, <1>5, SeqEqual

LEMMA OwnMixed ==
    ASSUME NEW m \in Memory, NEW f \in Memory, NEW d, Mixed(d, m, f), NEW k \in Key,
           NEW x \in Nat, OwnItem(m, f, x, k)
    PROVE  /\ FullLength(d, x) = FullLength(f, x)
           /\ \A j \in Key \ {k} : x \notin Holding(d, j)
<1>1. PICK n \in Nat : n = Len(k)
  BY KeyType
<1>7. x + 3 + n <= MemorySize
  BY <1>1 DEF OwnItem
<1>2. x \in Addresses /\ x + 1 \in Addresses /\ x + 2 \in Addresses
  BY <1>1, <1>7, TableAssumption DEF Addresses
<1>3. d[x] = f[x] /\ d[x + 1] = f[x + 1]
  BY <1>2 DEF Mixed, OwnItem
<1>4. KeyLength(d, x) \in {0, Len(k)}
  BY <1>2 DEF Mixed, OwnItem, KeyLength
<1>5. ASSUME NEW i \in 1..n PROVE d[x + 3 + i - 1] = k[i]
  <2>1. x + 3 + i - 1 \in Addresses
    BY <1>1, <1>7, TableAssumption DEF Addresses
  <2> QED BY <1>1, <2>1 DEF Mixed, OwnItem
<1>6. \A j \in Key \ {k} : x \notin Holding(d, j)
  BY <1>1, <1>4, <1>5, OneKey
<1> QED BY <1>3, <1>6 DEF FullLength

\* What is the same in two memories.
LEMMA SameItem ==
    ASSUME NEW m \in Memory, NEW f \in Memory, NEW x \in Nat, NEW l \in Nat,
           l = FullLength(f, x), 4 <= l, x + l < MemorySize, 3 + KeyLength(f, x) <= l,
           Same(m, f, x, l), NEW j \in Key
    PROVE  /\ FullLength(m, x) = l
           /\ x \in Holding(m, j) <=> x \in Holding(f, j)
           /\ x \in Holding(f, j) =>
                 Bytes(m, x + 3 + Len(j), FullLength(m, x) - 3 - Len(j)) =
                 Bytes(f, x + 3 + Len(j), FullLength(f, x) - 3 - Len(j))
<1>1. ASSUME NEW i \in Nat, i < l PROVE m[x + i] = f[x + i]
  <2>1. x + i \in Addresses /\ x <= x + i /\ x + i < x + l
    BY <1>1, TableAssumption DEF Addresses
  <2> QED BY <2>1 DEF Same
<1>2. m[x] = f[x] /\ m[x + 1] = f[x + 1] /\ m[x + 2] = f[x + 2]
  <2>1. m[x + 0] = f[x + 0] /\ m[x + 1] = f[x + 1] /\ m[x + 2] = f[x + 2] /\ x + 0 = x
    BY <1>1
  <2> QED BY <2>1
<1>3. FullLength(m, x) = l /\ KeyLength(m, x) = KeyLength(f, x)
  BY <1>2 DEF FullLength, KeyLength
<1>4. PICK n \in Nat : n = Len(j)
  BY KeyType
<1>5. x + 2 < MemorySize
  BY TableAssumption
<1>6. ASSUME KeyLength(f, x) = n, NEW i \in 1..n
      PROVE  m[x + 3 + i - 1] = f[x + 3 + i - 1]
  <2>1. 2 + i \in Nat /\ 2 + i < l /\ x + 3 + i - 1 = x + (2 + i)
    BY <1>6
  <2>2. m[x + (2 + i)] = f[x + (2 + i)]
    BY <1>1, <2>1
  <2> QED BY <2>1, <2>2
<1>7. x \in Holding(m, j) <=> x \in Holding(f, j)
  <2>1. x \in Holding(m, j) <=>
           KeyLength(f, x) = n /\ \A i \in 1..n : m[x + 3 + i - 1] = j[i]
    BY <1>3, <1>4, <1>5, HoldingOf
  <2>2. x \in Holding(f, j) <=>
           KeyLength(f, x) = n /\ \A i \in 1..n : f[x + 3 + i - 1] = j[i]
    BY <1>4, <1>5, HoldingOf
  <2> QED BY <1>6, <2>1, <2>2
<1>8. ASSUME x \in Holding(f, j)
      PROVE  Bytes(m, x + 3 + n, l - 3 - n) = Bytes(f, x + 3 + n, l - 3 - n)
  <2>1. ASSUME NEW i \in 1..(l - 3 - n) PROVE m[x + 3 + n + i - 1] = f[x + 3 + n + i - 1]
    <3>1. 2 + n + i \in Nat /\ 2 + n + i < l /\ x + 3 + n + i - 1 = x + (2 + n + i)
      BY <2>1
    <3>2. m[x + (2 + n + i)] = f[x + (2 + n + i)]
      BY <1>1, <3>1
    <3> QED BY <3>1, <3>2
  <2> QED BY <2>1 DEF Bytes
<1> QED BY <1>3, <1>4, <1>7, <1>8

\* The items of a table of which a crash has made nothing else.
Sure == TRUE

LEMMA RoomOfItem ==
    ASSUME NEW m \in Memory, NEW a, NEW A, NEW e, Laid(m, a, A, e, Sure),
           NEW x \in A, x < e
    PROVE  /\ x \in Nat /\ x # e /\ FullLength(m, x) \in Nat /\ 4 <= FullLength(m, x)
           /\ x + FullLength(m, x) <= e /\ x + FullLength(m, x) < MemorySize
           /\ FullLength(m, x) # EndTag /\ 3 + KeyLength(m, x) <= FullLength(m, x)
<1>1. x \in Nat /\ e \in Nat /\ x # e /\ e + 2 < MemorySize
  BY DEF Laid
<1>2. FullLength(m, x) \in Nat /\ 4 <= FullLength(m, x) /\ x + FullLength(m, x) <= e
      /\ FullLength(m, x) # EndTag
  BY <1>1, TableAssumption DEF Laid, ItemOk, EndTag
<1>3. 3 + KeyLength(m, x) <= FullLength(m, x)
  BY <1>1 DEF Laid, ItemOk, Sure
<1> QED BY <1>1, <1>2, <1>3, TableAssumption

LEMMA SparesOthers ==
    ASSUME NEW m \in Memory, NEW f \in Memory, NEW A, NEW e, Laid(f, First, A, e, Sure),
           NEW c, NEW k \in Key, Spares(m, f, A, e, c, k),
           NEW d, Mixed(d, m, f), Check(d)
    PROVE  Spared(d, f)
<1>1. d \in Memory
  BY DEF Mixed
<1>2. PICK D, y : Laid(d, First, D, y, FALSE)
  <2>1. FindEnd(d, First) # None /\ First \in Nat
    BY DEF Check, First
  <2> QED BY <1>1, <2>1, FoundTable
<1>3. /\ A \subseteq Nat /\ D \subseteq Nat /\ c \in A /\ c \in Nat /\ c <= e /\ e \in A
      /\ e \in Nat /\ e + 2 < MemorySize /\ FullLength(d, y) = EndTag
      /\ \A x \in D : x <= y
  BY <1>2 DEF Laid, Spares
<1>4. ASSUME NEW x \in A, x < c
      PROVE  /\ x \in Nat /\ x # e /\ FullLength(f, x) \in Nat /\ 4 <= FullLength(f, x)
             /\ x + FullLength(f, x) < MemorySize /\ FullLength(f, x) # EndTag
             /\ 3 + KeyLength(f, x) <= FullLength(f, x)
  <2>1. x < e
    BY <1>3, <1>4
  <2> QED BY <2>1, RoomOfItem
<1>5. ASSUME NEW x \in A, x < c
      PROVE  \/ Same(d, f, x, FullLength(f, x))
             \/ /\ FullLength(d, x) = FullLength(f, x)
                /\ \A j \in Key \ {k} : x \notin Holding(d, j) /\ x \notin Holding(f, j)
  <2>1. CASE Same(m, f, x, FullLength(f, x))
    <3>1. Same(d, f, x, FullLength(f, x))
      BY <2>1 DEF Same, Mixed
    <3> QED BY <3>1
  <2>2. CASE OwnItem(m, f, x, k)
    <3>1. FullLength(d, x) = FullLength(f, x) /\ \A j \in Key \ {k} : x \notin Holding(d, j)
      BY <1>4, <1>5, <2>2, OwnMixed
    <3>2. \A j \in Key \ {k} : x \notin Holding(f, j)
      BY <2>2, OneKey DEF OwnItem
    <3> QED BY <3>1, <3>2
  <2> QED BY <1>5, <2>1, <2>2 DEF Spares
<1>6. ASSUME NEW x \in A, x < c PROVE FullLength(d, x) = FullLength(f, x)
  <2>1. CASE Same(d, f, x, FullLength(f, x))
    BY <1>1, <1>4, <1>6, <2>1, SameItem
  <2> QED BY <1>5, <1>6, <2>1
<1>7. ASSUME NEW x \in A, x <= c PROVE x \in D
  <2>1. SameLengths(f, d, A \cap D, c)
    BY <1>6 DEF SameLengths
  <2> QED BY <1>1, <1>2, <1>3, <1>7, <2>1, SamePrefix
<1>8. ASSUME NEW x \in D, x <= c PROVE x \in A
  <2>1. SameLengths(d, f, D \cap A, c)
    BY <1>6 DEF SameLengths
  <2> QED BY <1>1, <1>2, <1>3, <1>8, <2>1, SamePrefix
<1> SUFFICES ASSUME NEW j \in Key \ {k}, ItemOf(f, j) # None
             PROVE  ItemOf(d, j) # None /\ Fetch(d, j) = Fetch(f, j)
  BY DEF Spared
<1>9. PICK x \in A : x = ItemOf(f, j) /\ x # e /\ x \in Holding(f, j)
  BY KeyOfTable
<1>10. x < c
  <2>1. ~(c <= x)
    BY <1>9 DEF Spares
  <2> QED BY <1>3, <2>1
<1>11. PICK l \in Nat :
           /\ l = FullLength(f, x) /\ 4 <= l /\ x + l < MemorySize /\ l # EndTag /\ x \in Nat
           /\ 3 + KeyLength(f, x) <= l /\ x <= c
  BY <1>3, <1>4, <1>10
<1>12. Same(d, f, x, l)
  BY <1>5, <1>9, <1>10, <1>11
<1>13. /\ FullLength(d, x) = l /\ x \in Holding(d, j)
       /\ Bytes(d, x + 3 + Len(j), FullLength(d, x) - 3 - Len(j)) =
          Bytes(f, x + 3 + Len(j), FullLength(f, x) - 3 - Len(j))
  BY <1>1, <1>9, <1>11, <1>12, SameItem
<1>14. x \in D \ {y}
  BY <1>3, <1>7, <1>11, <1>13
<1>15. PICK r \in D : r = ItemOf(d, j) /\ r # None /\ r # y /\ r \in Holding(d, j) /\ r <= x
  <2>1. ItemOf(d, j) # None /\ ItemOf(d, j) <= x
    BY <1>1, <1>2, <1>13, <1>14, KeyOfTable
  <2>2. ItemOf(d, j) \in D \ {y} /\ ItemOf(d, j) \in Holding(d, j)
    BY <1>1, <1>2, <2>1, KeyOfTable
  <2> QED BY <2>1, <2>2
<1>16. r \in A /\ r < c
  BY <1>3, <1>8, <1>10, <1>15
<1>17. r \in Holding(f, j)
  <2>1. Same(d, f, r, FullLength(f, r))
    BY <1>5, <1>15, <1>16
  <2> QED BY <1>1, <1>4, <1>15, <1>16, <2>1, SameItem
<1>18. x <= r
  <2>1. r # e
    BY <1>4, <1>16
  <2> QED BY <1>9, <1>16, <1>17, <2>1, KeyOfTable
<1>19. r = x
  BY <1>3, <1>15, <1>16, <1>18
<1> QED BY <1>9, <1>13, <1>15, <1>19 DEF Fetch

Good(m, f) == \A d : Mixed(d, m, f) /\ Check(d) => Spared(d, f)

LEMMA SparesGood ==
    ASSUME NEW m \in Memory, NEW f \in Memory, NEW A, NEW e, Laid(f, First, A, e, Sure),
           NEW c, NEW k \in Key, Spares(m, f, A, e, c, k)
    PROVE  Good(m, f)
BY SparesOthers DEF Good

LEMMA SameHeaderBytes ==
    ASSUME NEW m \in Memory, NEW f \in Memory, NEW x \in Nat, x + 1 < MemorySize,
           FullLength(m, x) = FullLength(f, x)
    PROVE  m[x] = f[x] /\ m[x + 1] = f[x + 1]
<1>1. x \in 0..(MemorySize - 1) /\ x + 1 \in 0..(MemorySize - 1)
  BY TableAssumption
<1>2. m[x] \in Byte /\ m[x + 1] \in Byte /\ f[x] \in Byte /\ f[x + 1] \in Byte
  BY <1>1 DEF Memory
<1>3. \A b \in Byte : b \in Nat /\ b < 256
  BY DEF Byte
<1>4. \A b, c, b1, c1 \in Nat :
          b < 256 /\ b1 < 256 /\ b + 256 * c = b1 + 256 * c1 => b = b1 /\ c = c1
  OBVIOUS
<1>5. m[x] + 256 * m[x + 1] = f[x] + 256 * f[x + 1]
  BY DEF FullLength
<1> QED BY <1>2, <1>3, <1>4, <1>5

LEMMA EntryHolding ==
    ASSUME NEW m \in Memory, NEW x \in Nat, x + 2 < MemorySize, NEW k \in Key, NEW n,
           Entry(m, x, k, n)
    PROVE  x \in Holding(m, k)
<1>1. x \in Headers
  BY HeadersOf
<1> QED BY <1>1 DEF Entry, Holding

LEMMA OnlyKey ==
    ASSUME NEW m \in Memory, NEW x \in Nat, x + 2 < MemorySize, NEW k \in Key,
           x \in Holding(m, k), NEW j \in Key, j # k
    PROVE  x \notin Holding(m, j)
<1>1. KeyLength(m, x) = Len(k) /\ \A i \in 1..Len(k) : m[x + 3 + i - 1] = k[i]
  BY HoldingOf
<1> QED BY <1>1, OneKey

\* What changes in an item leaves the others as they were.
LEMMA OthersSame ==
    ASSUME NEW m \in Memory, NEW f \in Memory, NEW A, NEW e, NEW t, Laid(f, First, A, e, t),
           NEW y \in A, y # e, NEW n \in Nat, Within(m, f, y, n), n <= FullLength(f, y),
           NEW x \in A, x < e, x # y
    PROVE  Same(m, f, x, FullLength(f, x))
<1>1. x \in Nat /\ y \in Nat
  BY DEF Laid
<1>2. PICK l \in Nat : l = FullLength(f, x)
  <2>1. x # e
    BY <1>1
  <2> QED BY <2>1, LaidItem
<1>3. PICK i \in Nat : i = FullLength(f, y)
  BY LaidItem
<1>4. x + l <= y \/ y + i <= x
  <2>1. CASE x < y
    BY <1>2, <2>1, Spaced
  <2>2. CASE y < x
    BY <1>3, <2>2, Spaced
  <2> QED BY <1>1, <2>1, <2>2
<1> SUFFICES ASSUME NEW z \in Addresses, x <= z, z < x + l PROVE m[z] = f[z]
  BY <1>2 DEF Same
<1>5. z < y \/ y + n <= z
  BY <1>1, <1>2, <1>3, <1>4, TableAssumption DEF Addresses
<1> QED BY <1>5 DEF Within

\* The item of a key in a table.
LEMMA ItemHolding ==
    ASSUME NEW m \in Memory, NEW A, NEW e, Laid(m, First, A, e, Sure),
           NEW x \in A, x # e, NEW k \in Key, x \in Holding(m, k)
    PROVE  /\ x \in Nat /\ e \in Nat /\ x < e /\ FullLength(m, x) \in Nat
           /\ x + 3 + Len(k) <= x + FullLength(m, x) /\ x + FullLength(m, x) <= e
           /\ e + 2 < MemorySize /\ x + 2 < MemorySize /\ x + 3 + Len(k) <= MemorySize
           /\ KeyLength(m, x) = Len(k) /\ \A i \in 1..Len(k) : m[x + 3 + i - 1] = k[i]
<1>1. x \in Nat /\ e \in Nat /\ x <= e /\ e + 2 < MemorySize
  BY DEF Laid
<1>2. x < e
  BY <1>1
<1>3. FullLength(m, x) \in Nat /\ x + FullLength(m, x) <= e
      /\ 3 + KeyLength(m, x) <= FullLength(m, x) /\ 4 <= FullLength(m, x)
  BY <1>2, RoomOfItem
<1>4. x + 2 < MemorySize
  BY <1>1, <1>2, TableAssumption
<1>5. KeyLength(m, x) = Len(k) /\ \A i \in 1..Len(k) : m[x + 3 + i - 1] = k[i]
  BY <1>1, <1>4, HoldingOf
<1>6. PICK n \in Nat : n = Len(k)
  BY KeyType
<1>7. x + 3 + n <= x + FullLength(m, x) /\ x + 3 + n <= MemorySize
  BY <1>1, <1>3, <1>5, <1>6, TableAssumption
<1> QED BY <1>1, <1>2, <1>3, <1>4, <1>5, <1>6, <1>7

LEMMA HoleOwn ==
    ASSUME NEW m \in Memory, NEW A, NEW e, Laid(m, First, A, e, Sure),
           NEW x \in A, x # e, NEW k \in Key, x \in Holding(m, k),
           NEW ws, ws = WriteHole(x, FullLength(m, x)), NEW f, f = Applied(m, ws)
    PROVE  /\ Makes(m, ws, f, x, 3) /\ Laid(f, First, A, e, Sure) /\ OwnItem(m, f, x, k)
           /\ FullLength(f, x) = FullLength(m, x)
<1>1. Makes(m, ws, f, x, 3) /\ Laid(f, First, A, e, Sure)
  BY HoleMakes
<1>2. PICK n \in Nat : n = FullLength(m, x) /\ TwoBytes(n)
  BY LengthOfTable
<1>3. /\ x \in Nat /\ x + 2 < MemorySize /\ x + 3 + Len(k) <= MemorySize
      /\ KeyLength(m, x) = Len(k) /\ \A i \in 1..Len(k) : m[x + 3 + i - 1] = k[i]
  BY ItemHolding
<1>4. x + 3 <= MemorySize /\ x + 1 < MemorySize
  BY <1>3, TableAssumption
<1>5. FullLength(f, x) = n /\ KeyLength(f, x) = 0
  BY <1>2, <1>3, <1>4, WriteHoleMakes
<1>6. f \in Memory /\ Within(m, f, x, 3)
  BY <1>1, WithinMakes
<1>7. m[x] = f[x] /\ m[x + 1] = f[x + 1]
  BY <1>2, <1>3, <1>4, <1>5, <1>6, SameHeaderBytes
<1>8. PICK l \in Nat : l = Len(k)
  BY KeyType
<1>9. ASSUME NEW i \in 1..l PROVE f[x + 3 + i - 1] = k[i]
  <2>1. x + 3 + i - 1 \in Addresses /\ x + 3 <= x + 3 + i - 1
    BY <1>3, <1>8, TableAssumption DEF Addresses
  <2>2. f[x + 3 + i - 1] = m[x + 3 + i - 1]
    BY <1>6, <2>1 DEF Within
  <2> QED BY <1>3, <1>8, <2>2
<1> QED BY <1>1, <1>2, <1>3, <1>5, <1>7, <1>8, <1>9 DEF OwnItem

LEMMA HoleSpares ==
    ASSUME NEW m \in Memory, NEW A, NEW e, Laid(m, First, A, e, Sure),
           NEW x \in A, x # e, NEW k \in Key, x \in Holding(m, k),
           NEW ws, ws = WriteHole(x, FullLength(m, x)), NEW f, f = Applied(m, ws)
    PROVE  ws \in Seq(Writes) /\ Leaves(ws, f) /\ Good(m, f)
<1>1. /\ Makes(m, ws, f, x, 3) /\ Laid(f, First, A, e, Sure) /\ OwnItem(m, f, x, k)
      /\ FullLength(f, x) = FullLength(m, x)
  BY HoleOwn
<1>2. f \in Memory /\ Within(m, f, x, 3) /\ ws \in Seq(Writes) /\ Leaves(ws, f)
  BY <1>1, WithinMakes
<1>3. 3 <= FullLength(f, x)
  <2>1. FullLength(m, x) \in Nat /\ 4 <= FullLength(m, x)
    BY LengthOfTable
  <2> QED BY <1>1, <2>1
<1>4. Spares(m, f, A, e, e, k)
  <2>1. e \in A /\ e \in Nat /\ A \subseteq Nat /\ \A y \in A : y <= e
    BY DEF Laid
  <2>2. ASSUME NEW y \in A, y < e PROVE Same(m, f, y, FullLength(f, y)) \/ OwnItem(m, f, y, k)
    BY <1>1, <1>2, <1>3, <2>2, OthersSame
  <2>3. ASSUME NEW y \in A \ {e}, e <= y PROVE FALSE
    BY <2>1, <2>3
  <2> QED BY <2>1, <2>2, <2>3 DEF Spares
<1> QED BY <1>1, <1>2, <1>4, SparesGood

LEMMA RewriteSpares ==
    ASSUME NEW m \in Memory, NEW A, NEW e, Laid(m, First, A, e, Sure),
           NEW x \in A, x # e, NEW k \in Key, x \in Holding(m, k), NEW v \in Value,
           FullLength(m, x) = ItemSize(k, v),
           NEW ws, ws = WriteItem(x, k, v), NEW f, f = Applied(m, ws)
    PROVE  ws \in Seq(Writes) /\ Leaves(ws, f) /\ Good(m, f)
<1>1. PICK n \in Nat : n = ItemSize(k, v)
  BY ItemSizes
<1>2. Makes(m, ws, f, x, n) /\ Laid(f, First, A, e, Sure) /\ Entry(f, x, k, n)
  BY <1>1, RewriteMakes
<1>3. f \in Memory /\ Within(m, f, x, n) /\ ws \in Seq(Writes) /\ Leaves(ws, f)
  BY <1>2, WithinMakes
<1>4. /\ x \in Nat /\ x + 2 < MemorySize /\ x + 3 + Len(k) <= MemorySize
      /\ KeyLength(m, x) = Len(k) /\ \A i \in 1..Len(k) : m[x + 3 + i - 1] = k[i]
  BY ItemHolding
<1>5. FullLength(f, x) = n
  BY <1>2 DEF Entry
<1>6. OwnItem(m, f, x, k)
  <2>1. x \in Holding(f, k)
    BY <1>2, <1>3, <1>4, EntryHolding
  <2>2. KeyLength(f, x) = Len(k) /\ \A i \in 1..Len(k) : f[x + 3 + i - 1] = k[i]
    BY <1>3, <1>4, <2>1, HoldingOf
  <2>3. m[x] = f[x] /\ m[x + 1] = f[x + 1]
    <3>1. MemorySize \in Nat
      BY TableAssumption
    <3>2. x + 1 < MemorySize
      BY <1>4, <3>1
    <3>3. FullLength(m, x) = FullLength(f, x)
      BY <1>1, <1>5
    <3> QED BY <1>3, <1>4, <3>2, <3>3, SameHeaderBytes
  <2> QED BY <1>4, <2>2, <2>3 DEF OwnItem
<1>7. Spares(m, f, A, e, e, k)
  <2>1. e \in A /\ e \in Nat /\ A \subseteq Nat /\ \A y \in A : y <= e
    BY DEF Laid
  <2>2. ASSUME NEW y \in A, y < e PROVE Same(m, f, y, FullLength(f, y)) \/ OwnItem(m, f, y, k)
    <3>1. n <= FullLength(f, x)
      BY <1>5
    <3> QED BY <1>2, <1>3, <1>6, <2>2, <3>1, OthersSame
  <2>3. ASSUME NEW y \in A \ {e}, e <= y PROVE FALSE
    BY <2>1, <2>3
  <2> QED BY <2>1, <2>2, <2>3 DEF Spares
<1> QED BY <1>2, <1>3, <1>7, SparesGood

\* Below the end of the table, m and f are the same, but for an item of k.
LEMMA AppendGood ==
    ASSUME NEW m \in Memory, NEW f \in Memory, NEW A, NEW e \in A, NEW z, NEW k \in Key,
           NEW n, Laid(f, First, A, z, Sure), Entry(f, e, k, n),
           \A x \in A : x < e => Same(m, f, x, FullLength(f, x)) \/ OwnItem(m, f, x, k),
           \A x \in A \ {z} : e <= x => x = e
    PROVE  Good(m, f)
<1>1. e \in Nat /\ e + 2 < MemorySize
  BY EndsOfTable
<1>2. e \in Holding(f, k)
  BY <1>1, EntryHolding
<1>3. \A j \in Key \ {k} : e \notin Holding(f, j)
  BY <1>1, <1>2, OnlyKey
<1>4. Spares(m, f, A, z, e, k)
  BY <1>3 DEF Spares
<1> QED BY <1>4, SparesGood

LEMMA AppendSpares ==
    ASSUME NEW m \in Memory, NEW A, NEW e, Laid(m, First, A, e, Sure),
           NEW k \in Key, NEW v \in Value, Fits(e, k, v),
           NEW ws, ws = AppendAt(e, k, v), NEW f, f = Applied(m, ws)
    PROVE  ws \in Seq(Writes) /\ Leaves(ws, f) /\ Good(m, f)
<1>1. PICK n \in Nat : n = ItemSize(k, v) /\ 4 <= n
  BY ItemSizes
<1>2. PICK B : B = A \cup {e + n}
  OBVIOUS
<1>3. Makes(m, ws, f, e, n + 2) /\ Entry(f, e, k, n) /\ Laid(f, First, B, e + n, Sure)
  BY <1>1, <1>2, AppendAtMakes
<1>4. f \in Memory /\ Within(m, f, e, n + 2) /\ ws \in Seq(Writes) /\ Leaves(ws, f)
  BY <1>3, WithinMakes
<1>5. e \in Nat /\ e \in A /\ A \subseteq Nat /\ \A x \in A : x <= e
  BY DEF Laid
<1>6. ASSUME NEW x \in B, x < e PROVE Same(m, f, x, FullLength(f, x))
  <2>1. e \in B
    BY <1>2, <1>5
  <2>2. PICK l \in Nat : l = FullLength(f, x) /\ x + l <= e /\ x \in Nat
    <3>1. FullLength(f, x) \in Nat /\ x + FullLength(f, x) <= e /\ x \in Nat
      BY <1>3, <1>4, <1>6, <2>1, Spaced
    <3> QED BY <3>1
  <2> SUFFICES ASSUME NEW y \in Addresses, x <= y, y < x + l PROVE m[y] = f[y]
    BY <2>2 DEF Same
  <2>3. y < e
    BY <1>5, <2>2, TableAssumption DEF Addresses
  <2> QED BY <1>4, <2>3 DEF Within
<1>7. ASSUME NEW x \in B \ {e + n}, e <= x PROVE x = e
  BY <1>2, <1>5, <1>7
<1>8. e \in B
  BY <1>2, <1>5
<1>9. Good(m, f)
  BY <1>3, <1>4, <1>6, <1>7, <1>8, AppendGood
<1> QED BY <1>4, <1>9

LEMMA HoleAppendSpares ==
    ASSUME NEW m \in Memory, NEW A, NEW e, Laid(m, First, A, e, Sure),
           NEW x \in A, x # e, NEW k \in Key, x \in Holding(m, k),
           NEW v \in Value, Fits(e, k, v),
           NEW hs, hs = WriteHole(x, FullLength(m, x)),
           NEW ws, ws = hs \o AppendAt(e, k, v), NEW f, f = Applied(m, ws)
    PROVE  ws \in Seq(Writes) /\ Leaves(ws, f) /\ Good(m, f)
<1>0. PICK as : as = AppendAt(e, k, v)
  OBVIOUS
<1>1. PICK n \in Nat : n = ItemSize(k, v) /\ 4 <= n
  BY ItemSizes
<1>2. PICK B : B = A \cup {e + n}
  OBVIOUS
<1>3. PICK h : h = Applied(m, hs)
  OBVIOUS
<1>4. /\ Makes(m, hs, h, x, 3) /\ Laid(h, First, A, e, Sure) /\ OwnItem(m, h, x, k)
      /\ FullLength(h, x) = FullLength(m, x)
  BY <1>3, HoleOwn
<1>5. h \in Memory /\ Within(m, h, x, 3) /\ hs \in Seq(Writes)
  BY <1>4, WithinMakes
<1>6. PICK g : g = Applied(h, as)
  OBVIOUS
<1>7. Makes(h, as, g, e, n + 2) /\ Entry(g, e, k, n) /\ Laid(g, First, B, e + n, Sure)
  BY <1>0, <1>1, <1>2, <1>4, <1>5, <1>6, AppendAtMakes
<1>8. g \in Memory /\ Within(h, g, e, n + 2)
  BY <1>7, WithinMakes
<1>9. /\ x \in Nat /\ e \in Nat /\ x < e /\ FullLength(m, x) \in Nat
      /\ x + 3 + Len(k) <= x + FullLength(m, x) /\ x + FullLength(m, x) <= e
  BY ItemHolding
<1>10. PICK i \in Nat : i = Len(k) /\ x + 3 + i <= e
  BY <1>9, KeyType
<1>11. Makes(m, ws, g, x, (e + (n + 2)) - x)
  <2>1. x + 3 <= e /\ n + 2 \in Nat /\ 3 \in Nat
    BY <1>9, <1>10
  <2>2. ws = hs \o as
    BY <1>0
  <2>3. PICK l \in Nat : l = n + 2
    BY <2>1
  <2>4. Makes(m, hs, h, x, 3) /\ Makes(h, as, g, e, l)
    BY <1>4, <1>7, <2>3
  <2>5. Makes(m, hs \o as, g, x, (e + l) - x)
    BY <1>9, <2>1, <2>4, MakesBoth
  <2> QED BY <2>2, <2>3, <2>5
<1>12. g = f /\ ws \in Seq(Writes) /\ Leaves(ws, f)
  BY <1>11, WithinMakes
<1>13. \A y \in Addresses : y < e => h[y] = f[y]
  BY <1>8, <1>12 DEF Within
<1>14. e \in A /\ A \subseteq Nat /\ e + 2 < MemorySize /\ \A y \in A : y <= e
  BY DEF Laid
<1>15. OwnItem(m, f, x, k)
  <2>1. MemorySize \in Nat /\ x + 3 + i <= MemorySize
    BY <1>4, <1>10, TableAssumption DEF OwnItem
  <2>2. ASSUME NEW y \in Nat, y < x + 3 + i PROVE h[y] = f[y]
    <3>1. y \in Addresses /\ y < e
      BY <1>9, <1>10, <2>1, <2>2 DEF Addresses
    <3> QED BY <1>13, <3>1
  <2>3. h[x] = f[x] /\ h[x + 1] = f[x + 1] /\ h[x + 2] = f[x + 2]
    BY <1>9, <2>2
  <2>4. ASSUME NEW j \in 1..i PROVE h[x + 3 + j - 1] = f[x + 3 + j - 1]
    <3>1. x + 3 + j - 1 \in Nat /\ x + 3 + j - 1 < x + 3 + i
      BY <1>9
    <3> QED BY <2>2, <3>1
  <2> QED BY <1>4, <1>10, <2>3, <2>4 DEF OwnItem, KeyLength
<1>16. ASSUME NEW y \in B, y < e, y # x PROVE Same(m, f, y, FullLength(f, y))
  <2>1. y \in A /\ e \in B
    BY <1>2, <1>9, <1>14, <1>16
  <2>2. PICK l \in Nat : l = FullLength(f, y) /\ y + l <= e /\ y \in Nat /\ 4 <= l
    BY <1>7, <1>8, <1>12, <1>16, <2>1, Spaced, SMTT(30)
  <2>3. FullLength(h, y) = l
    <3>1. y \in Addresses /\ y + 1 \in Addresses /\ y < e /\ y + 1 < e
      BY <1>9, <1>14, <2>2, TableAssumption, SMTT(30) DEF Addresses
    <3> QED BY <1>13, <2>2, <3>1 DEF FullLength
  <2>4. 3 <= FullLength(h, x)
    <3>1. FullLength(m, x) \in Nat /\ 4 <= FullLength(m, x)
      BY LengthOfTable
    <3> QED BY <1>4, <3>1
  <2>5. Same(m, h, y, l)
    BY <1>4, <1>5, <1>16, <2>1, <2>3, <2>4, OthersSame
  <2> SUFFICES ASSUME NEW q \in Addresses, y <= q, q < y + l PROVE m[q] = f[q]
    BY <2>2 DEF Same
  <2>6. q < e
    BY <1>9, <2>2, TableAssumption DEF Addresses
  <2> QED BY <1>13, <2>5, <2>6 DEF Same
<1>17. ASSUME NEW y \in B \ {e + n}, e <= y PROVE y = e
  BY <1>2, <1>9, <1>14, <1>17
<1>18. e \in B /\ f \in Memory
  BY <1>2, <1>8, <1>12, <1>14
<1>19. Good(m, f)
  BY <1>7, <1>12, <1>15, <1>16, <1>17, <1>18, AppendGood
<1> QED BY <1>12, <1>19

LEMMA FormatSpares ==
    ASSUME NEW m \in Memory, NEW f, f = Applied(m, Format)
    PROVE  Format \in Seq(Writes) /\ Leaves(Format, f) /\ Good(m, f)
<1>1. Makes(m, Format, f, 0, 3) /\ Laid(f, First, {First}, First, Sure)
  BY FormatMakes
<1>2. f \in Memory /\ Format \in Seq(Writes) /\ Leaves(Format, f)
  BY <1>1, WithinMakes
<1>3. \A j \in Key : ItemOf(f, j) = None
  BY <1>1, <1>2, KeyOfTable
<1>4. PICK k \in Key : TRUE
  BY TableAssumption
<1>5. ASSUME NEW d PROVE Spared(d, f)
  BY <1>3, <1>4 DEF Spared
<1> QED BY <1>2, <1>5 DEF Good

----------------------------------------------------------------------------
\* What is left to write of ws, once nothing moves any more.
Sparing(d, rest, f) ==
    Leaves(rest, f) /\ \E m \in Memory : Mixed(d, m, f) /\ Good(m, f)

Plan(m, ws, mv, rest) ==
    /\ ws = mv \o rest /\ EndsMoving(mv)
    /\ rest # <<>> => Sparing(Applied(m, mv), rest, Applied(m, ws))
Planned(m, ws) == \E mv \in Seq(Writes), rest \in Seq(Writes) : Plan(m, ws, mv, rest)

LEMMA NotMoving ==
    ASSUME NEW m \in Memory, NEW ws \in Seq(Writes), NEW f, f = Applied(m, ws),
           ws # <<>> => Leaves(ws, f) /\ Good(m, f)
    PROVE  Planned(m, ws)
<1>1. <<>> \in Seq(Writes) /\ <<>> \o ws = ws /\ EndsMoving(<<>>)
  BY EmptySeq, ConcatEmptySeq DEF EndsMoving
<1>2. Applied(m, <<>>) = m
  BY AppliedNone
<1>3. f \in Memory /\ Mixed(m, m, f)
  BY AppliedType DEF Mixed
<1>4. ws # <<>> => Sparing(Applied(m, <<>>), ws, f)
  BY <1>2, <1>3 DEF Sparing
<1>5. Plan(m, ws, <<>>, ws)
  BY <1>1, <1>4 DEF Plan
<1> QED BY <1>1, <1>5 DEF Planned

LEMMA MovingFirst ==
    ASSUME NEW m \in Memory, NEW mv \in Seq(Writes), EndsMoving(mv),
           NEW ws \in Seq(Writes), NEW d, d = Applied(m, mv), NEW f, f = Applied(d, ws),
           ws # <<>> => Leaves(ws, f) /\ Good(d, f)
    PROVE  Planned(m, mv \o ws)
<1>1. d \in Memory /\ f \in Memory
  <2>1. d \in Memory
    BY AppliedType
  <2> QED BY <2>1, AppliedType
<1>2. Applied(m, mv \o ws) = f
  BY AppliedConcat
<1>3. ws # <<>> => Sparing(d, ws, f)
  BY <1>1 DEF Sparing, Mixed
<1>4. Plan(m, mv \o ws, mv, ws)
  BY <1>2, <1>3 DEF Plan
<1> QED BY <1>4 DEF Planned

\* A write that is not a move sets bytes of what is to be.
LEMMA MixedPut ==
    ASSUME NEW m \in Memory, NEW f \in Memory, NEW d, Mixed(d, m, f), NEW w \in Writes,
           \A j \in 1..Len(w.bytes) : f[w.at + j - 1] = w.bytes[j]
    PROVE  Mixed(Put(d, w), m, f)
<1>1. d \in Memory
  BY DEF Mixed
<1>2. PICK e : e = Put(d, w)
  OBVIOUS
<1>3. e \in Memory
  BY <1>1, <1>2, PutType
<1>4. w.at \in Nat /\ Len(w.bytes) \in Nat
  BY WriteType
<1>5. ASSUME NEW z \in Addresses PROVE e[z] = m[z] \/ e[z] = f[z]
  <2>1. e[z] = IF z >= w.at /\ z < w.at + Len(w.bytes) THEN w.bytes[z - w.at + 1] ELSE d[z]
    BY <1>1, <1>2, <1>5, PutByte DEF Addresses
  <2>2. z \in Nat
    BY TableAssumption DEF Addresses
  <2>3. CASE z >= w.at /\ z < w.at + Len(w.bytes)
    <3>1. \A a, n, i \in Nat :
            i >= a /\ i < a + n => i - a + 1 \in 1..n /\ a + (i - a + 1) - 1 = i
      OBVIOUS
    <3>2. z - w.at + 1 \in 1..Len(w.bytes) /\ w.at + (z - w.at + 1) - 1 = z
      BY <1>4, <2>2, <2>3, <3>1
    <3>3. f[w.at + (z - w.at + 1) - 1] = w.bytes[z - w.at + 1]
      BY <3>2
    <3> QED BY <2>1, <2>3, <3>2, <3>3
  <2>4. CASE ~(z >= w.at /\ z < w.at + Len(w.bytes))
    BY <2>1, <2>4 DEF Mixed
  <2> QED BY <2>3, <2>4
<1> QED BY <1>2, <1>3, <1>5 DEF Mixed

LEMMA LeavesTail ==
    ASSUME NEW ws \in Seq(Writes), ws # <<>>, NEW f, Leaves(ws, f)
    PROVE  /\ Leaves(Tail(ws), f)
           /\ \A j \in 1..Len(Head(ws).bytes) : f[Head(ws).at + j - 1] = Head(ws).bytes[j]
<1>1. PICK w \in Writes, t \in Seq(Writes), n \in Nat : Begins(ws, w, t, n)
  BY HeadTail, Zenon
<1>2. 1 \in 1..Len(ws) /\ ws[1] = w
  BY <1>1 DEF Begins
<1>3. \A j \in 1..Len(w.bytes) : f[w.at + j - 1] = w.bytes[j]
  BY <1>2 DEF Leaves
<1>4. Leaves(t, f)
  <2>1. ASSUME NEW i \in 1..n, NEW j \in 1..Len(t[i].bytes)
        PROVE  f[t[i].at + j - 1] = t[i].bytes[j]
    <3>1. t[i] = ws[i + 1] /\ i + 1 \in 1..Len(ws)
      BY <1>1 DEF Begins
    <3> QED BY <2>1, <3>1 DEF Leaves
  <2>2. Len(t) = n
    BY <1>1 DEF Begins
  <2> QED BY <2>1, <2>2 DEF Leaves
<1> QED BY <1>1, <1>3, <1>4 DEF Begins

LEMMA EndsTail ==
    ASSUME NEW ws \in Seq(Writes), ws # <<>>, EndsMoving(ws)
    PROVE  EndsMoving(Tail(ws))
<1>1. PICK w \in Writes, t \in Seq(Writes), n \in Nat : Begins(ws, w, t, n)
  BY HeadTail, Zenon
<1>2. CASE n = 0
  <2>1. Len(t) = 0
    BY <1>1, <1>2 DEF Begins
  <2>2. t = <<>>
    BY <2>1, EmptySeq
  <2> QED BY <1>1, <2>2 DEF Begins, EndsMoving
<1>3. CASE n # 0
  <2>1. Len(t) = n /\ Len(ws) = n + 1 /\ t[n] = ws[n + 1]
    BY <1>1, <1>3 DEF Begins
  <2> QED BY <1>1, <2>1 DEF Begins, EndsMoving
<1> QED BY <1>2, <1>3

LEMMA EndsConcat ==
    ASSUME NEW us \in Seq(Writes), NEW mv \in Seq(Writes), mv # <<>>, EndsMoving(mv)
    PROVE  us \o mv \in Seq(Writes) /\ EndsMoving(us \o mv)
<1>1. PICK i \in Nat, j \in Nat : i = Len(us) /\ j = Len(mv)
  OBVIOUS
<1>2. PICK u \in Seq(Writes) : Joins(u, us, mv, i, j)
  BY <1>1, ConcatShape
<1>3. j # 0
  BY <1>1, EmptySeq
<1>4. u[Len(u)] = mv[j]
  <2>1. Len(u) = i + j /\ i + j \in 1..(i + j) /\ ~(i + j <= i) /\ (i + j) - i = j
    BY <1>2, <1>3 DEF Joins
  <2> QED BY <1>2, <2>1 DEF Joins
<1>5. mv[j].moving
  BY <1>1 DEF EndsMoving
<1> QED BY <1>2, <1>4, <1>5 DEF Joins, EndsMoving

\* A write is done as planned.
LEMMA PlannedStep ==
    ASSUME NEW m \in Memory, NEW ws \in Seq(Writes), ws # <<>>, Planned(m, ws)
    PROVE  Planned(Put(m, Head(ws)), Tail(ws))
<1>1. PICK mv \in Seq(Writes), rest \in Seq(Writes) : Plan(m, ws, mv, rest)
  BY DEF Planned
<1>2. PICK f : f = Applied(m, ws)
  OBVIOUS
<1>3. PICK m1 : m1 = Put(m, Head(ws))
  OBVIOUS
<1>4. m1 \in Memory /\ Applied(m1, Tail(ws)) = f
  <2>1. Head(ws) \in Writes
    BY HeadTailProperties
  <2> QED BY <1>2, <1>3, <2>1, PutType, AppliedHead
<1>5. CASE mv # <<>>
  <2>1. Head(ws) = Head(mv) /\ Tail(ws) = Tail(mv) \o rest
    BY <1>1, <1>5, ConcatTail DEF Plan
  <2>2. Applied(m1, Tail(mv)) = Applied(m, mv) /\ Tail(mv) \in Seq(Writes)
    BY <1>3, <1>5, <2>1, AppliedHead
  <2>3. EndsMoving(Tail(mv))
    BY <1>1, <1>5, EndsTail DEF Plan
  <2>4. Plan(m1, Tail(ws), Tail(mv), rest)
    BY <1>1, <1>2, <1>4, <2>1, <2>2, <2>3 DEF Plan
  <2> QED BY <1>3, <2>2, <2>4 DEF Planned
<1>6. CASE mv = <<>>
  <2>1. rest = ws
    <3>1. <<>> \o rest = rest
      BY ConcatEmptySeq
    <3> QED BY <1>1, <1>6, <3>1 DEF Plan
  <2>2. Sparing(m, ws, f)
    BY <1>1, <1>2, <1>6, <2>1, AppliedNone DEF Plan
  <2>3. PICK m0 \in Memory : Mixed(m, m0, f) /\ Good(m0, f)
    BY <2>2 DEF Sparing
  <2>4. f \in Memory
    BY <1>2, AppliedType
  <2>5. Leaves(ws, f)
    BY <2>2 DEF Sparing
  <2>6. PICK w \in Writes, t \in Seq(Writes) : w = Head(ws) /\ t = Tail(ws)
    BY HeadTailProperties
  <2>7. Leaves(t, f) /\ \A j \in 1..Len(w.bytes) : f[w.at + j - 1] = w.bytes[j]
    BY <2>5, <2>6, LeavesTail
  <2>8. Mixed(m1, m0, f)
    BY <1>3, <2>3, <2>4, <2>6, <2>7, MixedPut
  <2>9. Sparing(m1, t, f)
    BY <2>3, <2>7, <2>8 DEF Sparing
  <2>10. /\ <<>> \in Seq(Writes) /\ <<>> \o t = t /\ EndsMoving(<<>>)
         /\ Applied(m1, <<>>) = m1
    BY EmptySeq, ConcatEmptySeq, AppliedNone DEF EndsMoving
  <2>11. Plan(m1, t, <<>>, t)
    BY <1>4, <2>6, <2>9, <2>10 DEF Plan
  <2> QED BY <1>3, <2>6, <2>10, <2>11 DEF Planned
<1> QED BY <1>5, <1>6

\* What an append writes to a table: at its end, or first the packing that makes room.
PacksFirst(m, ws, ds, as) ==
    /\ ws = ds \o as /\ EndsMoving(ds) /\ (ds = <<>> => as = <<>>)
    /\ as # <<>> =>
          LET d == Applied(m, ds)
              f == Applied(d, as)
          IN  Leaves(as, f) /\ Good(d, f)
Appends(m, ws, e, k, v) ==
    \/ Fits(e, k, v) /\ ws = AppendAt(e, k, v)
    \/ \E ds \in Seq(Writes), as \in Seq(Writes) : PacksFirst(m, ws, ds, as)

LEMMA AppendsSomewhere ==
    ASSUME NEW m \in Memory, NEW A, NEW e, Laid(m, First, A, e, Sure),
           NEW k \in Key, NEW v \in Value
    PROVE  Appends(m, AppendItem(m, k, v).writes, e, k, v)
<1>1. First \in A
  BY DEF Laid
<1>2. FindEnd(m, First) = e /\ e # None
  BY <1>1, EndOfTable, NoneIsNoAddress DEF Laid
<1>3. MakesTable(m, Defrag(m), Sure) /\ EndsMoving(Defrag(m))
  BY DefragMakes
<1>4. PICK ds \in Seq(Writes) : ds = Defrag(m)
  BY <1>3 DEF MakesTable
<1>5. PICK B, z : Laid(Applied(m, ds), First, B, z, Sure)
  BY <1>3, <1>4 DEF MakesTable
<1>6. PICK d \in Memory : d = Applied(m, ds)
  BY AppliedType
<1>7. FindEnd(d, First) = z
  <2>1. Laid(d, First, B, z, Sure) /\ First \in B
    BY <1>5, <1>6 DEF Laid
  <2> QED BY <2>1, EndOfTable
<1>8. AppendItem(m, k, v) =
         IF Fits(e, k, v) THEN [ok |-> TRUE, writes |-> AppendAt(e, k, v)]
         ELSE IF Fits(z, k, v) THEN [ok |-> TRUE, writes |-> ds \o AppendAt(z, k, v)]
         ELSE [ok |-> FALSE, writes |-> ds]
  BY <1>2, <1>4, <1>6, <1>7 DEF AppendItem
<1>9. CASE Fits(e, k, v)
  BY <1>8, <1>9 DEF Appends
<1>10. CASE ~ Fits(e, k, v) /\ Fits(z, k, v)
  <2>1. PICK as, f : as = AppendAt(z, k, v) /\ f = Applied(d, as)
    OBVIOUS
  <2>2. as \in Seq(Writes) /\ Leaves(as, f) /\ Good(d, f)
    <3>1. Laid(d, First, B, z, Sure)
      BY <1>5, <1>6
    <3> QED BY <1>10, <2>1, <3>1, AppendSpares
  <2>3. ds # <<>>
    <3>1. SUFFICES ASSUME ds = <<>> PROVE FALSE
      OBVIOUS
    <3>2. d = m
      BY <1>6, <3>1, AppliedNone
    <3> QED BY <1>2, <1>7, <1>10, <3>2
  <2>4. PacksFirst(m, ds \o as, ds, as)
    BY <1>3, <1>4, <1>6, <2>1, <2>2, <2>3 DEF PacksFirst
  <2> QED BY <1>8, <1>10, <2>1, <2>2, <2>4 DEF Appends
<1>11. CASE ~ Fits(e, k, v) /\ ~ Fits(z, k, v)
  <2>1. <<>> \in Seq(Writes) /\ ds \o <<>> = ds
    BY EmptySeq, ConcatEmptySeq
  <2>2. PacksFirst(m, ds, ds, <<>>)
    BY <1>3, <1>4, <2>1 DEF PacksFirst
  <2>3. AppendItem(m, k, v).writes = ds
    BY <1>8, <1>11
  <2>4. PICK none \in Seq(Writes) : PacksFirst(m, ds, ds, none)
    BY <2>1, <2>2
  <2> QED BY <2>3, <2>4 DEF Appends
<1> QED BY <1>9, <1>10, <1>11

LEMMA AppendPlanned ==
    ASSUME NEW m \in Memory, NEW A, NEW e, Laid(m, First, A, e, Sure),
           NEW k \in Key, NEW v \in Value
    PROVE  Planned(m, AppendItem(m, k, v).writes)
<1>1. PICK ws : ws = AppendItem(m, k, v).writes
  OBVIOUS
<1>2. Appends(m, ws, e, k, v)
  BY <1>1, AppendsSomewhere
<1>3. CASE Fits(e, k, v) /\ ws = AppendAt(e, k, v)
  <2>1. PICK f : f = Applied(m, ws)
    OBVIOUS
  <2>2. ws \in Seq(Writes) /\ Leaves(ws, f) /\ Good(m, f)
    BY <1>3, <2>1, AppendSpares
  <2> QED BY <1>1, <2>1, <2>2, NotMoving
<1>4. ASSUME NEW ds \in Seq(Writes), NEW as \in Seq(Writes), PacksFirst(m, ws, ds, as)
      PROVE  Planned(m, ws)
  <2>1. PICK d, f : d = Applied(m, ds) /\ f = Applied(d, as)
    OBVIOUS
  <2>2. EndsMoving(ds) /\ ws = ds \o as /\ (as # <<>> => Leaves(as, f) /\ Good(d, f))
    BY <1>4, <2>1 DEF PacksFirst
  <2> QED BY <2>1, <2>2, MovingFirst
<1> QED BY <1>1, <1>2, <1>3, <1>4 DEF Appends

LEMMA HoleAppendPlanned ==
    ASSUME NEW m \in Memory, NEW A, NEW e, Laid(m, First, A, e, Sure),
           NEW x \in A, x # e, NEW k \in Key, x \in Holding(m, k), NEW v \in Value,
           NEW hs, hs = WriteHole(x, FullLength(m, x)), NEW h, h = Applied(m, hs)
    PROVE  Planned(m, hs \o AppendItem(h, k, v).writes)
<1>1. hs \in Seq(Writes) /\ Leaves(hs, h) /\ Good(m, h)
  BY HoleSpares
<1>2. Laid(h, First, A, e, Sure) /\ h \in Memory
  BY <1>1, HoleOwn, AppliedType
<1>3. PICK ws : ws = AppendItem(h, k, v).writes
  OBVIOUS
<1>4. Appends(h, ws, e, k, v)
  BY <1>2, <1>3, AppendsSomewhere
<1>5. CASE Fits(e, k, v) /\ ws = AppendAt(e, k, v)
  <2>1. PICK us, f : us = hs \o ws /\ f = Applied(m, us)
    OBVIOUS
  <2>2. us \in Seq(Writes) /\ Leaves(us, f) /\ Good(m, f)
    BY <1>5, <2>1, HoleAppendSpares
  <2> QED BY <1>3, <2>1, <2>2, NotMoving
<1>6. ASSUME NEW ds \in Seq(Writes), NEW as \in Seq(Writes), PacksFirst(h, ws, ds, as)
      PROVE  Planned(m, hs \o ws)
  <2>1. PICK d, f : d = Applied(h, ds) /\ f = Applied(d, as)
    OBVIOUS
  <2>2. /\ EndsMoving(ds) /\ ws = ds \o as /\ (as # <<>> => Leaves(as, f) /\ Good(d, f))
        /\ ds = <<>> => as = <<>>
    BY <1>6, <2>1 DEF PacksFirst
  <2>3. CASE ds = <<>>
    <3>1. hs \o ws = hs
      <4>1. ws = <<>>
        BY <2>2, <2>3, EmptySeq, ConcatEmptySeq
      <4> QED BY <1>1, <4>1, ConcatEmptySeq
    <3>2. Planned(m, hs)
      BY <1>1, NotMoving
    <3> QED BY <3>1, <3>2
  <2>4. CASE ds # <<>>
    <3>1. PICK mv \in Seq(Writes) : mv = hs \o ds /\ EndsMoving(mv)
      BY <1>1, <2>2, <2>4, EndsConcat
    <3>2. Applied(m, mv) = d
      BY <1>1, <2>1, <3>1, AppliedConcat
    <3>3. hs \o ws = mv \o as
      <4>1. \A a, b, c \in Seq(Writes) : (a \o b) \o c = a \o (b \o c)
        BY ConcatAssociative, SMTT(30)
      <4>2. hs \in Seq(Writes)
        BY <1>1
      <4>3. (hs \o ds) \o as = hs \o (ds \o as)
        BY <4>1, <4>2, Zenon
      <4> QED BY <2>2, <3>1, <4>3
    <3>4. Planned(m, mv \o as)
      BY <2>1, <2>2, <3>1, <3>2, MovingFirst
    <3> QED BY <3>3, <3>4
  <2> QED BY <2>3, <2>4
<1> QED BY <1>3, <1>4, <1>5, <1>6 DEF Appends

LEMMA StorePlanned ==
    ASSUME NEW m \in Memory, NEW A, NEW e, Laid(m, First, A, e, Sure),
           NEW k \in Key, NEW v \in Value
    PROVE  Planned(m, StoreItem(m, k, v).writes)
<1>1. PICK x : x = ItemOf(m, k)
  OBVIOUS
<1>2. CASE x = None
  <2>1. StoreItem(m, k, v) = AppendItem(m, k, v)
    BY <1>1, <1>2 DEF StoreItem
  <2> QED BY <2>1, AppendPlanned
<1>3. CASE x # None
  <2>1. x \in A /\ x # e /\ x \in Holding(m, k)
    BY <1>1, <1>3, KeyOfTable
  <2>2. CASE FullLength(m, x) = ItemSize(k, v)
    <3>1. StoreItem(m, k, v) = [ok |-> TRUE, writes |-> WriteItem(x, k, v)]
      BY <1>1, <1>3, <2>2 DEF StoreItem
    <3>2. PICK ws, f : ws = WriteItem(x, k, v) /\ f = Applied(m, ws)
      OBVIOUS
    <3>3. ws \in Seq(Writes) /\ Leaves(ws, f) /\ Good(m, f)
      BY <2>1, <2>2, <3>2, RewriteSpares
    <3> QED BY <3>1, <3>2, <3>3, NotMoving
  <2>3. CASE FullLength(m, x) # ItemSize(k, v)
    <3>1. PICK hs, h : hs = WriteHole(x, FullLength(m, x)) /\ h = Applied(m, hs)
      OBVIOUS
    <3>2. PICK r : r = AppendItem(h, k, v)
      OBVIOUS
    <3>3. StoreItem(m, k, v) = [r EXCEPT !.writes = hs \o @]
      BY <1>1, <1>3, <2>3, <3>1, <3>2 DEF StoreItem
    <3>4. r = [ok |-> r.ok, writes |-> r.writes]
      BY <3>2, Zenon DEF AppendItem
    <3>5. StoreItem(m, k, v).writes = hs \o r.writes
      BY <3>3, <3>4
    <3>6. Planned(m, hs \o r.writes)
      BY <2>1, <3>1, <3>2, HoleAppendPlanned
    <3> QED BY <3>5, <3>6
  <2> QED BY <2>2, <2>3
<1> QED BY <1>2, <1>3

LEMMA DeletePlanned ==
    ASSUME NEW m \in Memory, NEW A, NEW e, Laid(m, First, A, e, Sure), NEW k \in Key,
           NEW x, x = ItemOf(m, k), x # None
    PROVE  Planned(m, WriteHole(x, FullLength(m, x)))
<1>1. x \in A /\ x # e /\ x \in Holding(m, k)
  BY KeyOfTable
<1>2. PICK ws, f : ws = WriteHole(x, FullLength(m, x)) /\ f = Applied(m, ws)
  OBVIOUS
<1>3. ws \in Seq(Writes) /\ Leaves(ws, f) /\ Good(m, f)
  BY <1>1, <1>2, HoleSpares
<1> QED BY <1>2, <1>3, NotMoving

LEMMA FormatPlanned == ASSUME NEW m \in Memory PROVE Planned(m, Format)
<1>1. PICK ws, f : ws = Format /\ f = Applied(m, ws)
  OBVIOUS
<1>2. ws \in Seq(Writes) /\ Leaves(ws, f) /\ Good(m, f)
  BY <1>1, FormatSpares
<1> QED BY <1>1, <1>2, NotMoving

LEMMA NothingPlanned == ASSUME NEW m \in Memory PROVE Planned(m, <<>>)
<1>1. PICK ws \in Seq(Writes) : ws = <<>>
  BY EmptySeq
<1>2. PICK f : f = Applied(m, ws)
  OBVIOUS
<1> QED BY <1>1, <1>2, NotMoving

----------------------------------------------------------------------------
\* Where the end of the table is while an operation writes.

EndBytes == <<255, 255>>
Wrote(m, w) == \A j \in 1..Len(w.bytes) : m[w.at + j - 1] = w.bytes[j]

\* An item is to be appended, or its header is over the end and the end after it to come.
ToAppend(m, ws) == Check(m) /\ Len(ws) = 4 /\ ws[4].bytes = EndBytes
Opened(ws) == Len(ws) \in 1..3 /\ ws[Len(ws)].bytes = EndBytes
\* All but the last write changes nothing, or a hole is made before the item is appended.
Steady(m, ws) == Check(m) /\ \A i \in 1..(Len(ws) - 1) : Wrote(m, ws[i])
HoleFirst(m, ws) ==
    Check(m) /\ Len(ws) = 5 /\ ws[5].bytes = EndBytes /\ Check(Put(m, ws[1]))
Calm(m, ws) == ws = <<>> \/ ToAppend(m, ws) \/ Opened(ws) \/ Steady(m, ws) \/ HoleFirst(m, ws)

\* The memory is packed first.
Packs(m, ws, mv, rest) ==
    /\ ws = mv \o rest /\ mv # <<>> /\ EndsMoving(mv)
    /\ rest = <<>> \/ ToAppend(Applied(m, mv), rest)
EndKept(m, ws) ==
    Calm(m, ws) \/ \E mv \in Seq(Writes), rest \in Seq(Writes) : Packs(m, ws, mv, rest)

LEMMA LaidChecks ==
    ASSUME NEW m \in Memory, NEW A, NEW e, NEW t, Laid(m, First, A, e, t), m[0] = 1
    PROVE  Check(m)
<1>1. FindEnd(m, First) = e /\ e \in Nat
  BY EndOfTable DEF Laid
<1> QED BY <1>1, NoneIsNoAddress DEF Check

LEMMA SameVersion ==
    ASSUME NEW m, NEW f, NEW a \in Nat, 1 <= a, NEW n, Within(m, f, a, n)
    PROVE  f[0] = m[0]
<1>1. 0 \in Addresses
  BY TableAssumption DEF Addresses
<1> QED BY <1>1 DEF Within

LEMMA ThreeAndOne ==
    ASSUME NEW a, NEW b, NEW c, NEW d, NEW u, u = <<a, b, c>> \o <<d>>
    PROVE  Len(u) = 4 /\ u[4] = d
<1>1. PICK S : S = {a, b, c, d}
  OBVIOUS
<1>5. <<a, b, c>> \in Seq(S) /\ <<d>> \in Seq(S)
  BY <1>1
<1>6. Len(<<a, b, c>>) = 3 /\ Len(<<d>>) = 1 /\ <<d>>[1] = d
  OBVIOUS
<1>2. PICK s \in Seq(S), t \in Seq(S) : /\ s = <<a, b, c>> /\ t = <<d>>
                                       /\ Len(s) = 3 /\ Len(t) = 1 /\ t[1] = d
  BY <1>5, <1>6, Zenon
<1>3. PICK w \in Seq(S) : Joins(w, s, t, 3, 1)
  BY <1>2, ConcatShape
<1>4. w = u /\ Len(w) = 4 /\ w[4] = t[1]
  BY <1>2, <1>3 DEF Joins
<1> QED BY <1>2, <1>4

LEMMA AppendToCome ==
    ASSUME NEW m \in Memory, m[0] = 1, NEW A, NEW e, Laid(m, First, A, e, Sure),
           NEW k \in Key, NEW v \in Value, Fits(e, k, v),
           NEW ws, ws = AppendAt(e, k, v)
    PROVE  ToAppend(m, ws) /\ ws \in Seq(Writes) /\ Applied(m, ws)[0] = 1
<1>1. PICK f, n : f = Applied(m, ws) /\ n = ItemSize(k, v) + 2
  OBVIOUS
<1>2. Makes(m, ws, f, e, n)
  BY <1>1, AppendAtMakes
<1>3. e \in Nat /\ 1 <= e
  BY DEF Laid, First
<1>4. ws \in Seq(Writes) /\ f[0] = 1
  BY <1>2, <1>3, SameVersion, WithinMakes
<1>5. Len(ws) = 4 /\ ws[4].bytes = EndBytes
  <2>1. PICK a, b, c, d : /\ a = Write(e, Header(ItemSize(k, v), Len(k)))
                          /\ b = Write(e + 3, k) /\ c = Write(e + 3 + Len(k), v)
                          /\ d = Write(e + ItemSize(k, v), EndBytes)
    OBVIOUS
  <2>2. ws = <<a, b, c>> \o <<d>>
    BY <2>1, Zenon DEF AppendAt, WriteItem, WriteEnd, EndBytes
  <2>3. Len(ws) = 4 /\ ws[4] = d
    BY <2>2, ThreeAndOne
  <2>4. d.bytes = EndBytes
    <3>1. PICK z, y : z = e + ItemSize(k, v) /\ y = EndBytes
      OBVIOUS
    <3>2. d = Write(z, y)
      BY <2>1, <3>1
    <3>3. Write(z, y).bytes = y
      BY WriteFields, Zenon
    <3>4. d.bytes = y
      BY <3>2, <3>3, Zenon
    <3> QED BY <3>1, <3>4, Zenon
  <2> QED BY <2>3, <2>4
<1>6. Check(m)
  BY LaidChecks
<1> QED BY <1>1, <1>4, <1>5, <1>6 DEF ToAppend

\* What appendItemToEnd writes.
LEMMA AppendEnding ==
    ASSUME NEW m \in Memory, m[0] = 1, NEW A, NEW e, Laid(m, First, A, e, Sure),
           NEW k \in Key, NEW v \in Value,
           NEW ws, ws = AppendItem(m, k, v).writes
    PROVE  /\ ws \in Seq(Writes) /\ Applied(m, ws)[0] = 1
           /\ \/ ToAppend(m, ws) \/ ws = <<>>
              \/ \E mv \in Seq(Writes), rest \in Seq(Writes) : Packs(m, ws, mv, rest)
<1>1. First \in A
  BY DEF Laid
<1>2. FindEnd(m, First) = e /\ e # None
  BY <1>1, EndOfTable, NoneIsNoAddress DEF Laid
<1>3. MakesTable(m, Defrag(m), Sure) /\ EndsMoving(Defrag(m))
  BY DefragMakes
<1>4. PICK ds \in Seq(Writes) : ds = Defrag(m)
  BY <1>3 DEF MakesTable
<1>5. PICK B, z : Laid(Applied(m, ds), First, B, z, Sure)
  BY <1>3, <1>4 DEF MakesTable
<1>6. PICK d \in Memory : d = Applied(m, ds) /\ d[0] = 1
  <2>1. Applied(m, ds)[0] = m[0]
    BY <1>4, DefragMakes
  <2> QED BY <2>1, AppliedType
<1>7. Laid(d, First, B, z, Sure) /\ FindEnd(d, First) = z
  <2>1. Laid(d, First, B, z, Sure) /\ First \in B
    BY <1>5, <1>6 DEF Laid
  <2> QED BY <2>1, EndOfTable
<1>8. AppendItem(m, k, v) =
         IF Fits(e, k, v) THEN [ok |-> TRUE, writes |-> AppendAt(e, k, v)]
         ELSE IF Fits(z, k, v) THEN [ok |-> TRUE, writes |-> ds \o AppendAt(z, k, v)]
         ELSE [ok |-> FALSE, writes |-> ds]
  BY <1>2, <1>4, <1>6, <1>7 DEF AppendItem
<1>9. CASE Fits(e, k, v)
  <2>1. ws = AppendAt(e, k, v)
    BY <1>8, <1>9
  <2> QED BY <1>9, <2>1, AppendToCome
<1>10. CASE ~ Fits(e, k, v) /\ Fits(z, k, v)
  <2>1. PICK as : as = AppendAt(z, k, v)
    OBVIOUS
  <2>2. ToAppend(d, as) /\ as \in Seq(Writes) /\ Applied(d, as)[0] = 1
    BY <1>6, <1>7, <1>10, <2>1, AppendToCome
  <2>3. ds # <<>>
    <3>1. SUFFICES ASSUME ds = <<>> PROVE FALSE
      OBVIOUS
    <3>2. d = m
      BY <1>6, <3>1, AppliedNone
    <3> QED BY <1>2, <1>7, <1>10, <3>2
  <2>4. ws = ds \o as
    BY <1>8, <1>10, <2>1
  <2>5. ds \o as \in Seq(Writes) /\ Applied(m, ds \o as) = Applied(d, as)
    BY <1>6, <2>2, AppliedConcat, ConcatProperties
  <2>6. Packs(m, ws, ds, as)
    BY <1>3, <1>4, <1>6, <2>2, <2>3, <2>4 DEF Packs
  <2> QED BY <2>2, <2>4, <2>5, <2>6
<1>11. CASE ~ Fits(e, k, v) /\ ~ Fits(z, k, v)
  <2>1. ws = ds
    BY <1>8, <1>11
  <2>2. <<>> \in Seq(Writes) /\ ds \o <<>> = ds
    BY EmptySeq, ConcatEmptySeq
  <2>3. PICK none \in Seq(Writes) : none = <<>> /\ ds \o none = ds
    BY <2>2
  <2>4. CASE ds # <<>>
    <3>1. Packs(m, ws, ds, none)
      BY <1>3, <1>4, <2>1, <2>3, <2>4 DEF Packs
    <3> QED BY <1>6, <2>1, <3>1
  <2> QED BY <1>6, <2>1, <2>4
<1> QED BY <1>9, <1>10, <1>11

\* An item in its place, by its header and its key as they are.
LEMMA RewriteSteady ==
    ASSUME NEW m \in Memory, m[0] = 1, NEW A, NEW e, Laid(m, First, A, e, Sure),
           NEW x \in A, x # e, NEW k \in Key, x \in Holding(m, k), NEW v \in Value,
           FullLength(m, x) = ItemSize(k, v), NEW ws, ws = WriteItem(x, k, v)
    PROVE  ws \in Seq(Writes) /\ Steady(m, ws) /\ Applied(m, ws)[0] = 1
<1>0. PICK f : f = Applied(m, ws)
  OBVIOUS
<1>1. PICK n \in Nat : f = Applied(m, ws) /\ n = ItemSize(k, v)
  BY <1>0, ItemSizes
<1>2. Makes(m, ws, f, x, n) /\ Laid(f, First, A, e, Sure) /\ Entry(f, x, k, n)
  BY <1>1, RewriteMakes
<1>3. f \in Memory /\ Within(m, f, x, n) /\ ws \in Seq(Writes) /\ Leaves(ws, f)
  BY <1>2, WithinMakes
<1>14. 1 <= x
  BY DEF Laid, First
<1>4. /\ x \in Nat /\ 1 <= x /\ x + 2 < MemorySize /\ x + 3 + Len(k) <= MemorySize
      /\ KeyLength(m, x) = Len(k) /\ \A i \in 1..Len(k) : m[x + 3 + i - 1] = k[i]
  BY <1>14, ItemHolding
<1>5. f[0] = 1
  BY <1>3, <1>4, SameVersion
<1>6. m[x] = f[x] /\ m[x + 1] = f[x + 1] /\ m[x + 2] = f[x + 2]
  <2>1. MemorySize \in Nat
    BY TableAssumption
  <2>2. x + 1 < MemorySize
    BY <1>4, <2>1
  <2>3. FullLength(m, x) = FullLength(f, x)
    BY <1>1, <1>2 DEF Entry
  <2>4. m[x] = f[x] /\ m[x + 1] = f[x + 1]
    BY <1>3, <1>4, <2>2, <2>3, SameHeaderBytes
  <2> QED BY <1>2, <1>4, <2>4 DEF Entry, KeyLength
<1>7. PICK h : h = Header(n, Len(k)) /\ Len(h) = 3
  <2>1. PICK p, q, r : p = n % 256 /\ q = n \div 256 /\ r = Len(k)
    OBVIOUS
  <2>2. Header(n, Len(k)) = <<p, q, r>>
    BY <2>1, Zenon DEF Header
  <2>3. Len(<<p, q, r>>) = 3
    OBVIOUS
  <2> QED BY <2>2, <2>3
<1>8. PICK a, b, c : a = Write(x, h) /\ b = Write(x + 3, k) /\ c = Write(x + 3 + Len(k), v)
  OBVIOUS
<1>9. ws = <<a, b, c>>
  BY <1>1, <1>7, <1>8 DEF WriteItem
<1>10. Len(ws) = 3 /\ ws[1] = a /\ ws[2] = b
  BY <1>9
<1>11. Wrote(m, a)
  <2>1. a.at = x /\ a.bytes = h
    BY <1>8, WriteFields
  <2>4. 1 \in 1..Len(ws)
    BY <1>10
  <2>5. \A j \in 1..Len(a.bytes) : f[a.at + j - 1] = a.bytes[j]
    BY <1>3, <1>10, <2>4 DEF Leaves
  <2>2. \A j \in 1..3 : f[x + j - 1] = h[j]
    BY <1>7, <2>1, <2>5
  <2>3. ASSUME NEW j \in 1..3 PROVE m[x + j - 1] = h[j]
    <3>1. j = 1 \/ j = 2 \/ j = 3
      OBVIOUS
    <3>2. x + 1 - 1 = x /\ x + 2 - 1 = x + 1 /\ x + 3 - 1 = x + 2
      BY <1>4
    <3> QED BY <1>6, <2>2, <3>1, <3>2
  <2> QED BY <1>7, <2>1, <2>3 DEF Wrote
<1>12. Wrote(m, b)
  <2>1. b.at = x + 3 /\ b.bytes = k
    BY <1>8, WriteFields
  <2> QED BY <1>4, <2>1 DEF Wrote
<1>13. \A i \in 1..(Len(ws) - 1) : ws[i] = a \/ ws[i] = b
  <2>1. \A i \in 1..2 : i = 1 \/ i = 2
    OBVIOUS
  <2> QED BY <1>10, <2>1
<1> QED BY <1>1, <1>3, <1>5, <1>11, <1>12, <1>13, LaidChecks DEF Steady

\* A hole, alone or before what is appended.
LEMMA HoleSteady ==
    ASSUME NEW m \in Memory, m[0] = 1, NEW A, NEW e, Laid(m, First, A, e, Sure),
           NEW x \in A, x # e,
           NEW hs, hs = WriteHole(x, FullLength(m, x)), NEW h, h = Applied(m, hs)
    PROVE  /\ hs \in Seq(Writes) /\ Steady(m, hs) /\ Len(hs) = 1 /\ h = Put(m, hs[1])
           /\ h \in Memory /\ h[0] = 1 /\ Laid(h, First, A, e, Sure) /\ Check(m)
<1>1. Makes(m, hs, h, x, 3) /\ Laid(h, First, A, e, Sure)
  BY HoleMakes
<1>2. x \in Nat /\ 1 <= x
  BY DEF Laid, First
<1>3. hs \in Seq(Writes) /\ h \in Memory /\ h[0] = 1
  BY <1>1, <1>2, SameVersion, WithinMakes
<1>4. PICK w : w = Write(x, Header(FullLength(m, x), 0))
  OBVIOUS
<1>5. hs = <<w>>
  BY <1>4 DEF WriteHole
<1>6. Len(hs) = 1 /\ hs[1] = w
  BY <1>5
<1>7. h = Put(m, hs[1])
  <2>1. w \in Writes
    BY <1>3, <1>6
  <2> QED BY <1>5, <1>6, <2>1, AppliedOne
<1>8. Check(m)
  BY LaidChecks
<1> QED BY <1>1, <1>3, <1>6, <1>7, <1>8 DEF Steady

LEMMA StoreEnding ==
    ASSUME NEW m \in Memory, m[0] = 1, NEW A, NEW e, Laid(m, First, A, e, Sure),
           NEW k \in Key, NEW v \in Value, NEW ws, ws = StoreItem(m, k, v).writes
    PROVE  EndKept(m, ws) /\ Applied(m, ws)[0] = 1
<1>1. PICK x : x = ItemOf(m, k)
  OBVIOUS
<1>2. CASE x = None
  <2>1. StoreItem(m, k, v) = AppendItem(m, k, v)
    BY <1>1, <1>2 DEF StoreItem
  <2> QED BY <2>1, AppendEnding DEF EndKept, Calm
<1>3. CASE x # None
  <2>1. x \in A /\ x # e /\ x \in Holding(m, k)
    BY <1>1, <1>3, KeyOfTable
  <2>2. CASE FullLength(m, x) = ItemSize(k, v)
    <3>1. StoreItem(m, k, v) = [ok |-> TRUE, writes |-> WriteItem(x, k, v)]
      BY <1>1, <1>3, <2>2 DEF StoreItem
    <3>2. ws = WriteItem(x, k, v)
      BY <3>1
    <3> QED BY <2>1, <2>2, <3>2, RewriteSteady DEF EndKept, Calm
  <2>3. CASE FullLength(m, x) # ItemSize(k, v)
    <3>1. PICK hs, h : hs = WriteHole(x, FullLength(m, x)) /\ h = Applied(m, hs)
      OBVIOUS
    <3>2. PICK r : r = AppendItem(h, k, v)
      OBVIOUS
    <3>3. StoreItem(m, k, v) = [r EXCEPT !.writes = hs \o @]
      BY <1>1, <1>3, <2>3, <3>1, <3>2 DEF StoreItem
    <3>4. r = [ok |-> r.ok, writes |-> r.writes]
      BY <3>2, Zenon DEF AppendItem
    <3>5. PICK as : as = r.writes /\ ws = hs \o as
      BY <3>3, <3>4
    <3>6. /\ hs \in Seq(Writes) /\ Steady(m, hs) /\ Len(hs) = 1 /\ h = Put(m, hs[1])
          /\ h \in Memory /\ h[0] = 1 /\ Laid(h, First, A, e, Sure) /\ Check(m)
      BY <2>1, <3>1, HoleSteady
    <3>7. /\ as \in Seq(Writes) /\ Applied(h, as)[0] = 1
          /\ \/ ToAppend(h, as) \/ as = <<>>
             \/ \E mv \in Seq(Writes), rest \in Seq(Writes) : Packs(h, as, mv, rest)
      BY <3>2, <3>5, <3>6, AppendEnding
    <3>8. Applied(m, ws)[0] = 1
      <4>1. hs \in Seq(Writes) /\ as \in Seq(Writes)
        BY <3>6, <3>7
      <4>2. Applied(m, hs \o as) = Applied(Applied(m, hs), as)
        BY <4>1, AppliedConcat
      <4> QED BY <3>1, <3>5, <3>7, <4>2
    <3>9. CASE as = <<>>
      <4>1. ws = hs
        BY <3>5, <3>6, <3>9, ConcatEmptySeq
      <4> QED BY <3>6, <3>8, <4>1 DEF EndKept, Calm
    <3>10. CASE ToAppend(h, as)
      <4>1. PICK u \in Seq(Writes) : Joins(u, hs, as, 1, 4)
        BY <3>6, <3>7, <3>10, ConcatShape DEF ToAppend
      <4>2. Len(ws) = 5 /\ ws[1] = hs[1] /\ ws[5] = as[4]
        BY <3>5, <4>1 DEF Joins
      <4>3. HoleFirst(m, ws)
        BY <3>6, <3>10, <4>2 DEF HoleFirst, ToAppend
      <4> QED BY <3>8, <4>3 DEF EndKept, Calm
    <3>11. ASSUME NEW mv \in Seq(Writes), NEW rest \in Seq(Writes), Packs(h, as, mv, rest)
           PROVE  EndKept(m, ws)
      <4>1. PICK us \in Seq(Writes) : us = hs \o mv /\ EndsMoving(us)
        BY <3>6, <3>11, EndsConcat DEF Packs
      <4>2. us # <<>>
        <5>1. hs # <<>>
          <6> SUFFICES ASSUME hs = <<>> PROVE FALSE
            OBVIOUS
          <6>1. Len(hs) = 0
            OBVIOUS
          <6>2. Len(hs) = 1
            BY <3>6
          <6>3. 0 = 1
            BY <6>1, <6>2, Zenon
          <6> QED BY <6>3
        <5> QED BY <3>6, <4>1, <5>1, ConcatTail
      <4>3. Applied(m, us) = Applied(h, mv)
        <5>1. hs \in Seq(Writes)
          BY <3>6
        <5>2. Applied(m, hs \o mv) = Applied(Applied(m, hs), mv)
          BY <5>1, AppliedConcat
        <5> QED BY <3>1, <4>1, <5>2
      <4>4. ws = us \o rest
        <5>1. \A a, b, c \in Seq(Writes) : (a \o b) \o c = a \o (b \o c)
          BY ConcatAssociative, SMTT(30)
        <5>2. (hs \o mv) \o rest = hs \o (mv \o rest)
          BY <3>6, <5>1, Zenon
        <5> QED BY <3>5, <3>11, <4>1, <5>2 DEF Packs
      <4>5. Packs(m, ws, us, rest)
        BY <3>11, <4>1, <4>2, <4>3, <4>4 DEF Packs
      <4> QED BY <4>5 DEF EndKept
    <3> QED BY <3>7, <3>8, <3>9, <3>10, <3>11
  <2> QED BY <2>2, <2>3
<1> QED BY <1>2, <1>3

LEMMA PutSame ==
    ASSUME NEW m \in Memory, NEW w \in Writes, Wrote(m, w)
    PROVE  Put(m, w) = m
<1>1. Mixed(m, m, m)
  BY DEF Mixed
<1>2. Mixed(Put(m, w), m, m)
  BY <1>1, MixedPut DEF Wrote
<1>3. PICK p \in Memory : p = Put(m, w) /\ \A z \in Addresses : p[z] = m[z]
  BY <1>2 DEF Mixed
<1>4. p = [z \in Addresses |-> p[z]] /\ m = [z \in Addresses |-> m[z]]
  BY DEF Memory, Addresses
<1>5. p = m
  BY <1>3, <1>4
<1> QED BY <1>3, <1>5

\* One write of them is done.
LEMMA EndStep ==
    ASSUME NEW m \in Memory, NEW ws \in Seq(Writes), ws # <<>>, EndKept(m, ws)
    PROVE  EndKept(Put(m, Head(ws)), Tail(ws))
<1>1. PICK w \in Writes, t \in Seq(Writes), n \in Nat : Begins(ws, w, t, n)
  BY HeadTail, Zenon
<1>2. PICK m1 \in Memory : m1 = Put(m, w)
  BY PutType
<1>3. /\ Head(ws) = w /\ Tail(ws) = t /\ ws[1] = w /\ Len(t) = n /\ Len(ws) = n + 1
      /\ \A i \in 1..n : t[i] = ws[i + 1]
  BY <1>1 DEF Begins
<1>4. CASE n = 0
  <2>1. t = <<>>
    BY <1>3, <1>4, EmptySeq
  <2> QED BY <1>3, <2>1 DEF EndKept, Calm
<1>5. CASE n # 0 /\ ToAppend(m, ws)
  <2>4. Len(ws) = 4
    BY <1>5 DEF ToAppend
  <2>5. n + 1 = 4
    BY <1>3, <2>4, Zenon
  <2>6. \A i \in Nat : i + 1 = 4 => i = 3
    OBVIOUS
  <2>3. n = 3
    BY <1>1, <2>5, <2>6, Zenon
  <2>1. n = 3 /\ t[3] = ws[4]
    BY <1>3, <2>3
  <2>2. Opened(t)
    BY <1>3, <1>5, <2>1 DEF Opened, ToAppend
  <2> QED BY <1>3, <2>2 DEF EndKept, Calm
<1>6. CASE n # 0 /\ Opened(ws)
  <2>1. n \in 1..2 /\ t[n] = ws[n + 1]
    BY <1>3, <1>6 DEF Opened
  <2>2. Opened(t)
    BY <1>3, <1>6, <2>1 DEF Opened
  <2> QED BY <1>3, <2>2 DEF EndKept, Calm
<1>7. CASE n # 0 /\ Steady(m, ws)
  <2>1. Wrote(m, w)
    BY <1>3, <1>7 DEF Steady
  <2>2. m1 = m
    BY <1>2, <2>1, PutSame
  <2>3. ASSUME NEW i \in 1..(n - 1) PROVE Wrote(m, t[i])
    <3>1. i + 1 \in 1..(Len(ws) - 1) /\ t[i] = ws[i + 1]
      BY <1>3
    <3> QED BY <1>7, <3>1 DEF Steady
  <2>4. Steady(m1, t)
    BY <1>3, <1>7, <2>2, <2>3 DEF Steady
  <2> QED BY <1>2, <1>3, <2>4 DEF EndKept, Calm
<1>8. CASE n # 0 /\ HoleFirst(m, ws)
  <2>4. Len(ws) = 5
    BY <1>8 DEF HoleFirst
  <2>5. n + 1 = 5
    BY <1>3, <2>4, Zenon
  <2>6. \A i \in Nat : i + 1 = 5 => i = 4
    OBVIOUS
  <2>3. n = 4
    BY <1>1, <2>5, <2>6, Zenon
  <2>1. n = 4 /\ t[4] = ws[5]
    BY <1>3, <2>3
  <2>2. ToAppend(m1, t)
    BY <1>2, <1>3, <1>8, <2>1 DEF HoleFirst, ToAppend
  <2> QED BY <1>2, <1>3, <2>2 DEF EndKept, Calm
<1>9. ASSUME NEW mv \in Seq(Writes), NEW rest \in Seq(Writes), Packs(m, ws, mv, rest)
      PROVE  EndKept(m1, t)
  <2>1. Head(mv) = w /\ t = Tail(mv) \o rest /\ EndsMoving(Tail(mv))
    BY <1>3, <1>9, ConcatTail, EndsTail DEF Packs
  <2>2. Tail(mv) \in Seq(Writes) /\ Applied(m1, Tail(mv)) = Applied(m, mv)
    BY <1>2, <1>9, <2>1, AppliedHead, HeadTailProperties DEF Packs
  <2>3. PICK us \in Seq(Writes) : us = Tail(mv)
    BY <2>2
  <2>4. CASE us # <<>>
    <3>1. Packs(m1, t, us, rest)
      BY <1>9, <2>1, <2>2, <2>3, <2>4 DEF Packs
    <3> QED BY <3>1 DEF EndKept
  <2>5. CASE us = <<>>
    <3>1. t = rest /\ Applied(m, mv) = m1
      BY <2>1, <2>2, <2>3, <2>5, AppliedNone, ConcatEmptySeq
    <3>2. t = <<>> \/ ToAppend(m1, t)
      BY <1>9, <3>1 DEF Packs
    <3> QED BY <3>2 DEF EndKept, Calm
  <2> QED BY <2>4, <2>5
<1> QED BY <1>2, <1>3, <1>4, <1>5, <1>6, <1>7, <1>8, <1>9 DEF EndKept, Calm, ToAppend, HoleFirst

LEMMA FormatOpens ==
    ASSUME NEW m \in Memory
    PROVE  EndKept(m, Format) /\ Applied(m, Format)[0] = 1
<1>1. PICK f : f = Applied(m, Format)
  OBVIOUS
<1>2. Makes(m, Format, f, 0, 3)
  BY <1>1, FormatMakes
<1>3. Leaves(Format, f)
  BY <1>2, WithinMakes
<1>4. PICK a, b, c : a = Write(0, c) /\ c = <<1>> /\ b = Write(First, EndBytes)
  OBVIOUS
<1>5. Format = <<a>> \o <<b>>
  BY <1>4, Zenon DEF Format, WriteEnd, EndBytes
<1>7. Len(Format) = 2 /\ Format[1] = a /\ Format[2] = b
  <2>1. PICK S : S = {a, b}
    OBVIOUS
  <2>5. <<a>> \in Seq(S) /\ <<b>> \in Seq(S)
    BY <2>1
  <2>6. Len(<<a>>) = 1 /\ Len(<<b>>) = 1 /\ <<a>>[1] = a /\ <<b>>[1] = b
    OBVIOUS
  <2>2. PICK s \in Seq(S), u \in Seq(S) : /\ s = <<a>> /\ u = <<b>>
                                         /\ Len(s) = 1 /\ Len(u) = 1 /\ s[1] = a /\ u[1] = b
    BY <2>5, <2>6, Zenon
  <2>3. PICK w \in Seq(S) : Joins(w, s, u, 1, 1)
    BY <2>2, ConcatShape
  <2>4. w = Format /\ Len(w) = 2 /\ w[1] = s[1] /\ w[2] = u[1]
    BY <1>5, <2>2, <2>3 DEF Joins
  <2> QED BY <2>2, <2>4
<1>8. a.at = 0 /\ a.bytes = <<1>> /\ b.bytes = EndBytes
  BY <1>4, WriteFields, Zenon
<1>9. f[0] = 1
  <2>1. \A j \in 1..Len(a.bytes) : f[a.at + j - 1] = a.bytes[j]
    BY <1>3, <1>7 DEF Leaves
  <2>2. Len(a.bytes) = 1 /\ a.bytes[1] = 1
    BY <1>8
  <2>3. f[a.at + 1 - 1] = 1
    BY <2>1, <2>2
  <2> QED BY <1>8, <2>3
<1>10. Opened(Format)
  BY <1>7, <1>8 DEF Opened
<1> QED BY <1>1, <1>9, <1>10 DEF EndKept, Calm

\* As long as no crash has touched the table, its end is where it was, or to come.
EndInv == trusted => EndKept(mem, writes) /\ Applied(mem, writes)[0] = 1

LEMMA EndStarts == StorageInit => EndInv
<1> SUFFICES ASSUME StorageInit PROVE EndInv
  OBVIOUS
<1>1. PICK b \in Byte : mem = Applied([a \in 0..(MemorySize - 1) |-> b], Format)
  BY TableAssumption DEF StorageInit
<1>2. PICK m \in Memory : mem = Applied(m, Format)
  BY <1>1 DEF Memory
<1>3. writes = <<>> /\ mem[0] = 1
  BY <1>2, FormatOpens DEF StorageInit
<1> QED BY <1>3, AppliedNone DEF EndInv, EndKept, Calm

LEMMA EndSteps ==
    ASSUME StorageInv, EndInv, [StorageNext]_storageVars
    PROVE  EndInv'
<1>0. mem \in Memory /\ writes \in Seq(Writes) /\ MakesTable(mem, writes, trusted)
  BY DEF StorageInv, MakesTable
<1>1. ASSUME writes = <<>>, trusted
      PROVE  mem[0] = 1 /\ \E A, e : Laid(mem, First, A, e, Sure)
  <2>1. trusted = Sure
    BY <1>1 DEF StorageInv, Sure
  <2> QED BY <1>0, <1>1, <2>1, AppliedNone DEF MakesTable, EndInv
<1>2. ASSUME NEW k \in Key, NEW v \in Value, storageStore(k, v), trusted'
      PROVE  EndKept(mem', writes') /\ Applied(mem', writes')[0] = 1
  <2>1. writes = <<>> /\ writes' = StoreItem(mem, k, v).writes /\ mem' = mem
        /\ trusted' = trusted
    BY <1>2 DEF storageStore
  <2> QED BY <1>0, <1>1, <1>2, <2>1, StoreEnding
<1>3. ASSUME NEW k \in Key, storageDelete(k), trusted'
      PROVE  EndKept(mem', writes') /\ Applied(mem', writes')[0] = 1
  <2>1. PICK x : x = ItemOf(mem, k)
    OBVIOUS
  <2>2. /\ writes = <<>> /\ mem' = mem /\ trusted' = trusted
        /\ writes' = IF x = None THEN <<>> ELSE WriteHole(x, FullLength(mem, x))
    BY <1>3, <2>1 DEF storageDelete
  <2>3. PICK A, e : Laid(mem, First, A, e, Sure)
    BY <1>1, <1>3, <2>2
  <2>4. mem[0] = 1
    BY <1>1, <1>3, <2>2
  <2>5. CASE x = None
    BY <2>2, <2>4, <2>5, AppliedNone DEF EndKept, Calm
  <2>6. CASE x # None
    <3>1. x \in A /\ x # e
      BY <1>0, <2>1, <2>3, <2>6, KeyOfTable
    <3>2. PICK hs, h : hs = WriteHole(x, FullLength(mem, x)) /\ h = Applied(mem, hs)
      OBVIOUS
    <3>3. Steady(mem, hs) /\ h[0] = 1
      BY <1>0, <2>3, <2>4, <3>1, <3>2, HoleSteady
    <3> QED BY <2>2, <2>6, <3>2, <3>3 DEF EndKept, Calm
  <2> QED BY <2>5, <2>6
<1>4. ASSUME DoWrite, trusted' PROVE EndKept(mem', writes') /\ Applied(mem', writes')[0] = 1
  <2>1. /\ writes # <<>> /\ mem' = Put(mem, Head(writes)) /\ writes' = Tail(writes)
        /\ trusted' = trusted
    BY <1>4 DEF DoWrite
  <2>2. EndKept(mem, writes) /\ Applied(mem, writes)[0] = 1
    BY <1>4, <2>1 DEF EndInv
  <2> QED BY <1>0, <2>1, <2>2, EndStep, AppliedHead
<1>5. ASSUME Crash, trusted' PROVE EndKept(mem', writes') /\ Applied(mem', writes')[0] = 1
  <2>1. mem' = mem /\ writes' = Format
    BY <1>5 DEF Crash
  <2> QED BY <1>0, <2>1, FormatOpens
<1>6. CASE UNCHANGED storageVars
  BY <1>6 DEF EndInv, storageVars
<1> QED BY <1>2, <1>3, <1>4, <1>5, <1>6 DEF StorageNext, EndInv

\* With nothing to move, there is no end only where an item is written over it.
LEMMA EndFound ==
    ASSUME StorageInv, EndInv, trusted, writes # <<>>,
           \A i \in DOMAIN writes : ~writes[i].moving, ~Check(mem)
    PROVE  Len(writes) <= 3 /\ Last(writes).bytes = <<255, 255>>
<1>1. PICK ws \in Seq(Writes) : ws = writes
  BY DEF StorageInv, MakesTable
<1>2. ASSUME NEW mv \in Seq(Writes), NEW rest \in Seq(Writes), Packs(mem, ws, mv, rest)
      PROVE  FALSE
  <2>1. PICK i \in Nat, j \in Nat : i = Len(mv) /\ j = Len(rest)
    OBVIOUS
  <2>2. PICK u \in Seq(Writes) : Joins(u, mv, rest, i, j)
    BY <2>1, ConcatShape
  <2>3. u = ws
    BY <1>2, <2>2 DEF Joins, Packs
  <2>4. i # 0
    BY <1>2, <2>1, EmptySeq DEF Packs
  <2>5. i \in 1..(i + j) /\ ws[i] = mv[i] /\ Len(ws) = i + j
    BY <2>2, <2>3, <2>4 DEF Joins
  <2>6. mv[i].moving
    BY <1>2, <2>1 DEF Packs, EndsMoving
  <2>7. i \in DOMAIN ws
    BY <2>5
  <2> QED BY <1>1, <2>5, <2>6, <2>7
<1>3. Opened(ws)
  BY <1>1, <1>2 DEF EndInv, EndKept, Calm, ToAppend, Steady, HoleFirst
<1> QED BY <1>1, <1>3 DEF Opened, EndBytes, Last

----------------------------------------------------------------------------
\* As long as no crash has touched the table, what is left to write spares the other keys.
OthersInv == trusted => Planned(mem, writes)

LEMMA OthersSteps ==
    ASSUME StorageInv, OthersInv, [StorageNext]_storageVars
    PROVE  OthersInv'
<1>0. mem \in Memory /\ writes \in Seq(Writes) /\ MakesTable(mem, writes, trusted)
  BY DEF StorageInv, MakesTable
<1>1. ASSUME writes = <<>>, trusted PROVE \E A, e : Laid(mem, First, A, e, Sure)
  <2>1. trusted = Sure
    BY <1>1 DEF StorageInv, Sure
  <2> QED BY <1>0, <1>1, <2>1, AppliedNone DEF MakesTable
<1>2. ASSUME NEW k \in Key, NEW v \in Value, storageStore(k, v), trusted'
      PROVE  Planned(mem', writes')
  <2>1. writes = <<>> /\ writes' = StoreItem(mem, k, v).writes /\ mem' = mem
        /\ trusted' = trusted
    BY <1>2 DEF storageStore
  <2> QED BY <1>0, <1>1, <1>2, <2>1, StorePlanned
<1>3. ASSUME NEW k \in Key, storageDelete(k), trusted' PROVE Planned(mem', writes')
  <2>1. PICK x : x = ItemOf(mem, k)
    OBVIOUS
  <2>2. /\ writes = <<>> /\ mem' = mem /\ trusted' = trusted
        /\ writes' = IF x = None THEN <<>> ELSE WriteHole(x, FullLength(mem, x))
    BY <1>3, <2>1 DEF storageDelete
  <2>3. CASE x = None
    BY <1>0, <2>2, <2>3, NothingPlanned
  <2>4. CASE x # None
    <3>1. PICK A, e : Laid(mem, First, A, e, Sure)
      BY <1>1, <1>3, <2>2
    <3>2. Planned(mem, WriteHole(x, FullLength(mem, x)))
      BY <1>0, <2>1, <2>4, <3>1, DeletePlanned
    <3> QED BY <2>2, <2>4, <3>2
  <2> QED BY <2>3, <2>4
<1>4. ASSUME DoWrite, trusted' PROVE Planned(mem', writes')
  <2>1. /\ writes # <<>> /\ mem' = Put(mem, Head(writes)) /\ writes' = Tail(writes)
        /\ trusted' = trusted
    BY <1>4 DEF DoWrite
  <2>2. Planned(mem, writes)
    BY <1>4, <2>1 DEF OthersInv
  <2> QED BY <1>0, <2>1, <2>2, PlannedStep
<1>5. ASSUME Crash, trusted' PROVE Planned(mem', writes')
  <2>1. mem' = mem /\ writes' = Format
    BY <1>5 DEF Crash
  <2> QED BY <1>0, <2>1, FormatPlanned
<1>6. CASE UNCHANGED storageVars
  BY <1>6 DEF OthersInv, storageVars
<1> QED BY <1>2, <1>3, <1>4, <1>5, <1>6 DEF StorageNext, OthersInv

LEMMA OthersKept == StorageInv /\ OthersInv /\ EndInv => CrashKeepsOthers
<1> SUFFICES ASSUME StorageInv, OthersInv, trusted, writes # <<>>,
                    \A i \in DOMAIN writes : ~writes[i].moving, Check(mem)
             PROVE  LET now == Contents[mem] IN LET then == Contents[Applied(mem, writes)] IN
                    \E k \in Key : \A j \in DOMAIN then \ {k} :
                        j \in DOMAIN now /\ now[j] = then[j]
  BY EndFound DEF CrashKeepsOthers
<1>1. PICK ws \in Seq(Writes) : ws = writes
  BY DEF StorageInv, MakesTable
<1>2. PICK m \in Memory, f \in Memory : m = mem /\ f = Applied(mem, writes)
  BY <1>1, AppliedType DEF StorageInv
<1>3. PICK mv \in Seq(Writes), rest \in Seq(Writes) : Plan(m, ws, mv, rest)
  BY <1>1, <1>2 DEF OthersInv, Planned
<1>4. mv = <<>>
  <2> SUFFICES ASSUME mv # <<>> PROVE FALSE
    OBVIOUS
  <2>1. PICK i \in Nat, j \in Nat : i = Len(mv) /\ j = Len(rest)
    OBVIOUS
  <2>2. PICK u \in Seq(Writes) : Joins(u, mv, rest, i, j)
    BY <2>1, ConcatShape
  <2>3. u = ws
    BY <1>3, <2>2 DEF Joins, Plan
  <2>4. i # 0
    BY <2>1, EmptySeq
  <2>5. i \in 1..(i + j) /\ ws[i] = mv[i] /\ Len(ws) = i + j
    BY <2>2, <2>3, <2>4 DEF Joins
  <2>6. mv[i].moving
    BY <1>3, <2>1 DEF Plan, EndsMoving
  <2>7. i \in DOMAIN ws
    BY <2>5
  <2> QED BY <1>1, <2>5, <2>6, <2>7
<1>5. rest = ws
  <2>1. <<>> \o rest = rest
    BY ConcatEmptySeq
  <2> QED BY <1>3, <1>4, <2>1 DEF Plan
<1>6. Sparing(m, ws, f)
  BY <1>1, <1>2, <1>3, <1>4, <1>5, AppliedNone DEF Plan
<1>7. PICK m0 \in Memory : Mixed(m, m0, f) /\ Good(m0, f)
  BY <1>6 DEF Sparing
<1>8. Spared(m, f)
  BY <1>2, <1>7 DEF Good
<1>9. PICK k \in Key : \A j \in Key \ {k} :
          ItemOf(f, j) # None => ItemOf(m, j) # None /\ Fetch(m, j) = Fetch(f, j)
  BY <1>8 DEF Spared
<1>10. \A d \in Memory : Contents[d] = [j \in {i \in Key : ItemOf(d, i) # None} |-> Fetch(d, j)]
  BY DEF Contents
<1>11. PICK now, then : now = Contents[m] /\ then = Contents[f]
  OBVIOUS
<1>12. /\ now = [j \in {i \in Key : ItemOf(m, i) # None} |-> Fetch(m, j)]
       /\ then = [j \in {i \in Key : ItemOf(f, i) # None} |-> Fetch(f, j)]
  BY <1>10, <1>11
<1>13. \A j \in DOMAIN then \ {k} : j \in DOMAIN now /\ now[j] = then[j]
  BY <1>9, <1>12
<1> QED BY <1>2, <1>11, <1>13

LEMMA OthersStart == StorageInit => StorageInv /\ OthersInv /\ EndInv
<1> SUFFICES ASSUME StorageInit PROVE StorageInv /\ OthersInv /\ EndInv
  OBVIOUS
<1>1. StorageInv /\ mem \in Memory /\ writes = <<>>
  BY StorageStarts DEF StorageInit, StorageInv
<1> QED BY <1>1, NothingPlanned, EndStarts DEF OthersInv

\* A loss of power while an item is written, wherever it strikes: if the start finds an end,
\* every other key has its value. It finds none, and formats the table with every key in it,
\* only when the header of an appended item is written over the end and the end after the
\* item is not (kveStore's and kveDelete's order of writes, storageTest).
THEOREM CrashSparesOthers == StorageSpec => []CrashKeepsOthers
BY OthersStart, StorageSteps, OthersSteps, EndSteps, OthersKept, PTL DEF StorageSpec

\* The same of the storage next to the log service.
THEOREM ServicesKeepOthers == ServicesSpec => []CrashKeepsOthers
<1>1. ServicesInit => StorageInv /\ OthersInv /\ EndInv
  BY OthersStart DEF ServicesInit
<1>2. [ServicesNext]_servicesVars => [StorageNext]_storageVars
  BY DEF ServicesNext, InLog, InPool, servicesVars
<1> QED BY <1>1, <1>2, StorageSteps, OthersSteps, EndSteps, OthersKept, PTL DEF ServicesSpec

----------------------------------------------------------------------------
(* The table that the memory holds.                                          *)

\* The item at x is that of k, with the value v.
ItemIs(m, x, k, v) ==
    x \in Holding(m, k) /\ v = Bytes(m, x + 3 + Len(k), FullLength(m, x) - 3 - Len(k))

\* The items of the table laid out in m are those of T, that of k at p[k], and holes.
Keeps(m, A, e, T, p) ==
    /\ Laid(m, First, A, e, Sure)
    /\ DOMAIN T \subseteq Key /\ T = [k \in DOMAIN T |-> T[k]]
    /\ p \in [DOMAIN T -> A \ {e}]
    /\ \A k \in DOMAIN T : ItemIs(m, p[k], k, T[k])
    /\ \A x \in A \ {e} : KeyLength(m, x) = 0 \/ \E k \in DOMAIN T : x = p[k]

LEMMA PlaceOf ==
    ASSUME NEW m \in Memory, NEW A, NEW e, NEW T, NEW p, Keeps(m, A, e, T, p),
           NEW k \in DOMAIN T
    PROVE  /\ k \in Key /\ p[k] \in A /\ p[k] # e /\ p[k] \in Nat /\ p[k] + 2 < MemorySize
           /\ ItemIs(m, p[k], k, T[k]) /\ p[k] \in Holding(m, k)
           /\ KeyLength(m, p[k]) = Len(k) /\ KeyLength(m, p[k]) # 0
           /\ FullLength(m, p[k]) \in Nat /\ 4 <= FullLength(m, p[k])
           /\ 3 + KeyLength(m, p[k]) <= FullLength(m, p[k])
           /\ p[k] + FullLength(m, p[k]) <= e /\ p[k] + FullLength(m, p[k]) < MemorySize
<1>1. PICK x \in A : x = p[k] /\ x # e /\ k \in Key /\ ItemIs(m, x, k, T[k])
  BY DEF Keeps
<1>2. Laid(m, First, A, e, Sure)
  BY DEF Keeps
<1>3. x \in Holding(m, k)
  BY <1>1 DEF ItemIs
<1>4. x \in Nat /\ e \in Nat /\ x < e /\ x + 2 < MemorySize /\ KeyLength(m, x) = Len(k)
  BY <1>1, <1>2, <1>3, ItemHolding
<1>5. KeyLength(m, x) # 0
  BY <1>1, <1>4, KeyType
<1> QED BY <1>1, <1>2, <1>3, <1>4, <1>5, RoomOfItem

\* Only the item of a key holds it.
LEMMA OnePlace ==
    ASSUME NEW m \in Memory, NEW A, NEW e, NEW T, NEW p, Keeps(m, A, e, T, p),
           NEW k \in Key, NEW x \in A, x # e, x \in Holding(m, k)
    PROVE  k \in DOMAIN T /\ x = p[k]
<1>1. Laid(m, First, A, e, Sure)
  BY DEF Keeps
<1>2. x \in Nat /\ x + 2 < MemorySize /\ KeyLength(m, x) = Len(k)
  BY <1>1, ItemHolding
<1>3. KeyLength(m, x) # 0
  BY <1>2, KeyType
<1>4. PICK j \in DOMAIN T : x = p[j]
  BY <1>3 DEF Keeps
<1>5. j \in Key /\ x \in Holding(m, j)
  BY <1>4, PlaceOf
<1>6. j = k
  BY <1>2, <1>5, OnlyKey
<1> QED BY <1>4, <1>6

\* What the walks find is the table.
LEMMA ContentsKept ==
    ASSUME NEW m \in Memory, NEW A, NEW e, NEW T, NEW p, Keeps(m, A, e, T, p)
    PROVE  /\ Contents[m] = T
           /\ \A k \in Key : ItemOf(m, k) = IF k \in DOMAIN T THEN p[k] ELSE None
<1>1. Laid(m, First, A, e, Sure)
  BY DEF Keeps
<1>2. ASSUME NEW k \in Key, ItemOf(m, k) # None PROVE k \in DOMAIN T /\ ItemOf(m, k) = p[k]
  <2>1. PICK x \in A : x = ItemOf(m, k) /\ x # e /\ x \in Holding(m, k)
    BY <1>1, <1>2, KeyOfTable
  <2> QED BY <2>1, OnePlace
<1>3. ASSUME NEW k \in DOMAIN T PROVE k \in Key /\ ItemOf(m, k) # None
  <2>1. p[k] \in A \ {e} /\ p[k] \in Holding(m, k) /\ k \in Key
    BY PlaceOf
  <2> QED BY <1>1, <2>1, KeyOfTable
<1>4. \A k \in Key : ItemOf(m, k) = IF k \in DOMAIN T THEN p[k] ELSE None
  BY <1>2, <1>3
<1>5. {j \in Key : ItemOf(m, j) # None} = DOMAIN T
  BY <1>2, <1>3
<1>6. ASSUME NEW k \in DOMAIN T PROVE Fetch(m, k) = T[k]
  <2>1. ItemOf(m, k) = p[k] /\ ItemIs(m, p[k], k, T[k])
    BY <1>2, <1>3, PlaceOf
  <2> QED BY <2>1 DEF Fetch, ItemIs
<1>7. Contents[m] = [k \in {j \in Key : ItemOf(m, j) # None} |-> Fetch(m, k)]
  BY DEF Contents
<1>8. T = [k \in DOMAIN T |-> T[k]]
  BY DEF Keeps
<1>9. Contents[m] = [k \in DOMAIN T |-> Fetch(m, k)]
  BY <1>5, <1>7
<1>10. [k \in DOMAIN T |-> Fetch(m, k)] = [k \in DOMAIN T |-> T[k]]
  BY <1>6
<1> QED BY <1>4, <1>8, <1>9, <1>10

\* The l bytes at x in m are those at y in f.
Copied(m, x, f, y, l) == \A i \in 0..(l - 1) : m[x + i] = f[y + i]

LEMMA CopiedItem ==
    ASSUME NEW m \in Memory, NEW f \in Memory, NEW x \in Nat, NEW y \in Nat, NEW l \in Nat,
           l = FullLength(m, x), 4 <= l, x + l < MemorySize, y + l < MemorySize,
           3 + KeyLength(m, x) <= l, Copied(m, x, f, y, l),
           NEW k \in Key, NEW v, ItemIs(m, x, k, v)
    PROVE  ItemIs(f, y, k, v)
<1>1. ASSUME NEW i \in Nat, i < l PROVE m[x + i] = f[y + i]
  <2>1. i \in 0..(l - 1)
    BY <1>1
  <2> QED BY <2>1 DEF Copied
<1>2. m[x] = f[y] /\ m[x + 1] = f[y + 1] /\ m[x + 2] = f[y + 2]
  <2>1. m[x + 0] = f[y + 0] /\ m[x + 1] = f[y + 1] /\ m[x + 2] = f[y + 2]
        /\ x + 0 = x /\ y + 0 = y
    BY <1>1
  <2> QED BY <2>1
<1>3. FullLength(f, y) = l /\ KeyLength(f, y) = KeyLength(m, x)
  BY <1>2 DEF FullLength, KeyLength
<1>4. PICK n \in Nat : n = Len(k)
  BY KeyType
<1>5. x + 2 < MemorySize /\ y + 2 < MemorySize
  BY TableAssumption
<1>6. KeyLength(m, x) = n /\ \A i \in 1..n : m[x + 3 + i - 1] = k[i]
  BY <1>4, <1>5, HoldingOf DEF ItemIs
<1>7. ASSUME NEW i \in 1..n PROVE f[y + 3 + i - 1] = k[i]
  <2>1. /\ 2 + i \in Nat /\ 2 + i < l /\ x + 3 + i - 1 = x + (2 + i)
        /\ y + 3 + i - 1 = y + (2 + i)
    BY <1>6, <1>7
  <2>2. m[x + (2 + i)] = f[y + (2 + i)]
    BY <1>1, <2>1
  <2> QED BY <1>6, <2>1, <2>2
<1>8. y \in Holding(f, k)
  BY <1>3, <1>4, <1>5, <1>6, <1>7, HoldingOf
<1>9. Bytes(m, x + 3 + n, l - 3 - n) = Bytes(f, y + 3 + n, l - 3 - n)
  <2>1. ASSUME NEW i \in 1..(l - 3 - n) PROVE m[x + 3 + n + i - 1] = f[y + 3 + n + i - 1]
    <3>1. /\ 2 + n + i \in Nat /\ 2 + n + i < l /\ x + 3 + n + i - 1 = x + (2 + n + i)
          /\ y + 3 + n + i - 1 = y + (2 + n + i)
      BY <2>1
    <3>2. m[x + (2 + n + i)] = f[y + (2 + n + i)]
      BY <1>1, <3>1
    <3> QED BY <3>1, <3>2
  <2> QED BY <2>1 DEF Bytes
<1>10. v = Bytes(m, x + 3 + n, l - 3 - n)
  BY <1>4 DEF ItemIs
<1> QED BY <1>3, <1>4, <1>8, <1>9, <1>10 DEF ItemIs

\* The table U of the memory f, its items copied from m or written.
LEMMA Carried ==
    ASSUME NEW m \in Memory, NEW A, NEW e, NEW T, NEW p, Keeps(m, A, e, T, p),
           NEW f \in Memory, NEW B, NEW z, Laid(f, First, B, z, Sure),
           NEW U, DOMAIN U \subseteq Key, U = [k \in DOMAIN U |-> U[k]],
           NEW q \in [DOMAIN U -> B \ {z}],
           \A k \in DOMAIN U :
              \/ /\ k \in DOMAIN T /\ U[k] = T[k]
                 /\ Copied(m, p[k], f, q[k], FullLength(m, p[k]))
                 /\ q[k] + FullLength(m, p[k]) < MemorySize
              \/ ItemIs(f, q[k], k, U[k]),
           \A y \in B \ {z} : KeyLength(f, y) = 0 \/ \E k \in DOMAIN U : y = q[k]
    PROVE  Keeps(f, B, z, U, q)
<1>1. ASSUME NEW k \in DOMAIN U PROVE ItemIs(f, q[k], k, U[k])
  <2> SUFFICES ASSUME k \in DOMAIN T, U[k] = T[k],
                      Copied(m, p[k], f, q[k], FullLength(m, p[k])),
                      q[k] + FullLength(m, p[k]) < MemorySize
               PROVE  ItemIs(f, q[k], k, U[k])
    BY <1>1
  <2>1. PICK x \in Nat, l \in Nat :
            /\ x = p[k] /\ l = FullLength(m, x) /\ 4 <= l /\ 3 + KeyLength(m, x) <= l
            /\ x + l < MemorySize /\ ItemIs(m, x, k, T[k]) /\ k \in Key
    BY PlaceOf
  <2>2. PICK y \in Nat : y = q[k]
    BY <1>1 DEF Laid
  <2> QED BY <2>1, <2>2, CopiedItem
<1> QED BY <1>1 DEF Keeps

\* The tables of the promise: U is T with k worth v, and without k.
Extends(U, T, k, v) ==
    /\ DOMAIN U = DOMAIN T \cup {k} /\ U = [j \in DOMAIN U |-> U[j]] /\ U[k] = v
    /\ \A j \in DOMAIN T : j # k => U[j] = T[j]
Removes(U, T, k) ==
    /\ DOMAIN U = DOMAIN T \ {k} /\ U = [j \in DOMAIN U |-> U[j]]
    /\ \A j \in DOMAIN T : j # k => U[j] = T[j]

LEMMA WithOf ==
    ASSUME NEW T, NEW k, NEW v
    PROVE  Extends(KeyTable!With(T, k, v), T, k, v)
BY DEF KeyTable!With, Extends

LEMMA WithoutOf ==
    ASSUME NEW T, NEW k
    PROVE  Removes(KeyTable!Without(T, k), T, k)
BY DEF KeyTable!Without, Removes

\* What changes in an item is not in the others.
LEMMA OthersCopied ==
    ASSUME NEW m \in Memory, NEW A, NEW e, NEW t, Laid(m, First, A, e, t),
           NEW y \in A, y # e, NEW n \in Nat, n <= FullLength(m, y),
           NEW f \in Memory, Within(m, f, y, n), NEW x \in A, x # e, x # y
    PROVE  Copied(m, x, f, x, FullLength(m, x)) /\ KeyLength(f, x) = KeyLength(m, x)
<1>1. Within(f, m, y, n)
  BY DEF Within
<1>2. PICK l \in Nat : l = FullLength(m, x) /\ 4 <= l /\ x + l <= e /\ e \in Nat /\ x \in Nat
                      /\ e + 2 < MemorySize
  BY LengthOfTable
<1>3. Same(f, m, x, l)
  <2>1. x < e
    BY <1>2
  <2> QED BY <1>1, <1>2, <2>1, OthersSame
<1>4. ASSUME NEW i \in 0..(l - 1) PROVE m[x + i] = f[x + i]
  <2>1. x + i \in Addresses /\ x <= x + i /\ x + i < x + l
    BY <1>2, <1>4, TableAssumption DEF Addresses
  <2> QED BY <1>3, <2>1 DEF Same
<1>5. 2 \in 0..(l - 1)
  BY <1>2
<1>6. f[x + 2] = m[x + 2]
  BY <1>4, <1>5
<1> QED BY <1>2, <1>4, <1>6 DEF Copied, KeyLength

LEMMA HoleKeeps ==
    ASSUME NEW m \in Memory, NEW A, NEW e, NEW T, NEW p, Keeps(m, A, e, T, p),
           NEW k \in DOMAIN T,
           NEW ws, ws = WriteHole(p[k], FullLength(m, p[k])), NEW f, f = Applied(m, ws)
    PROVE  /\ ws \in Seq(Writes) /\ f \in Memory
           /\ \E q : Keeps(f, A, e, KeyTable!Without(T, k), q)
<1>1. Laid(m, First, A, e, Sure)
  BY DEF Keeps
<1>2. PICK x \in A : x = p[k] /\ x # e /\ x \in Holding(m, k) /\ x \in Nat /\ k \in Key
  BY PlaceOf
<1>3. Makes(m, ws, f, x, 3) /\ Laid(f, First, A, e, Sure)
  BY <1>1, <1>2, HoleOwn
<1>4. ws \in Seq(Writes) /\ f \in Memory /\ Within(m, f, x, 3)
  BY <1>3, WithinMakes
<1>5. PICK n : n = FullLength(m, x) /\ TwoBytes(n) /\ n \in Nat /\ 4 <= n /\ x + n < MemorySize
  <2>1. TwoBytes(FullLength(m, x))
    BY <1>1, <1>2, LengthOfTable
  <2> QED BY <1>2, <2>1, PlaceOf
<1>6. KeyLength(f, x) = 0
  <2>1. x + 3 <= MemorySize
    BY <1>2, <1>5, TableAssumption
  <2> QED BY <1>2, <1>5, <2>1, WriteHoleMakes
<1>7. PICK U : U = KeyTable!Without(T, k)
  OBVIOUS
<1>8. DOMAIN U = DOMAIN T \ {k} /\ U = [j \in DOMAIN U |-> U[j]]
      /\ \A j \in DOMAIN T : j # k => U[j] = T[j]
  <2>1. Removes(U, T, k)
    BY <1>7, WithoutOf, Zenon
  <2> QED BY <2>1 DEF Removes
<1>9. PICK q : q = [j \in DOMAIN U |-> p[j]]
  OBVIOUS
<1>10. DOMAIN T \subseteq Key /\ p \in [DOMAIN T -> A \ {e}]
       /\ \A y \in A \ {e} : KeyLength(m, y) = 0 \/ \E j \in DOMAIN T : y = p[j]
  BY DEF Keeps
<1>11. q \in [DOMAIN U -> A \ {e}] /\ DOMAIN U \subseteq Key /\ \A j \in DOMAIN U : q[j] = p[j]
  BY <1>8, <1>9, <1>10
<1>12. 3 <= FullLength(m, x)
  BY <1>5
<1>13. ASSUME NEW j \in DOMAIN U
       PROVE  /\ j \in DOMAIN T /\ U[j] = T[j]
              /\ Copied(m, p[j], f, q[j], FullLength(m, p[j]))
              /\ q[j] + FullLength(m, p[j]) < MemorySize
  <2>1. j \in DOMAIN T /\ j # k /\ U[j] = T[j] /\ q[j] = p[j]
    BY <1>8, <1>11
  <2>2. PICK y \in A : y = p[j] /\ y # e /\ y \in Holding(m, j) /\ j \in Key
                      /\ y + FullLength(m, y) < MemorySize
    BY <2>1, PlaceOf
  <2>3. y # x
    <3>1. x \in Holding(m, k) /\ y = p[j]
      BY <1>2, <2>2
    <3>2. y = x => j = k
      BY <1>1, <1>2, <2>2, ItemHolding, OnlyKey
    <3> QED BY <2>1, <3>2
  <2>4. Copied(m, y, f, y, FullLength(m, y))
    BY <1>1, <1>2, <1>4, <1>12, <2>2, <2>3, OthersCopied
  <2> QED BY <2>1, <2>2, <2>4
<1>14. ASSUME NEW y \in A \ {e} PROVE KeyLength(f, y) = 0 \/ \E j \in DOMAIN U : y = q[j]
  <2>1. CASE y = x
    BY <1>6, <2>1
  <2>2. CASE y # x
    <3>1. KeyLength(f, y) = KeyLength(m, y)
      BY <1>1, <1>2, <1>4, <1>12, <2>2, OthersCopied
    <3>2. \A j \in DOMAIN T : y = p[j] => j \in DOMAIN U /\ y = q[j]
      BY <1>2, <1>8, <1>11, <2>2
    <3> QED BY <1>10, <3>1, <3>2
  <2> QED BY <2>1, <2>2
<1>15. Keeps(f, A, e, U, q)
  BY <1>3, <1>4, <1>8, <1>11, <1>13, <1>14, Carried
<1> QED BY <1>4, <1>7, <1>15

LEMMA ValueWritten ==
    ASSUME NEW f \in Memory, NEW a \in Nat, NEW k \in Key, NEW v \in Value,
           NEW ws, 3 <= Len(ws), Len(ws) \in Nat, ws[3] = Write(a + 3 + Len(k), v),
           Leaves(ws, f), Entry(f, a, k, ItemSize(k, v)), a + 2 < MemorySize
    PROVE  ItemIs(f, a, k, v)
<1>1. PICK i \in Nat, j \in Nat :
          i = Len(k) /\ j = Len(v) /\ ItemSize(k, v) = 3 + i + j /\ v \in Seq(Byte)
  BY ItemSizes
<1>2. a \in Holding(f, k) /\ FullLength(f, a) = 3 + i + j
  BY <1>1, EntryHolding DEF Entry
<1>3. PICK w : w = ws[3] /\ w.at = a + 3 + i /\ w.bytes = v
  <2>1. PICK b, w : b = a + 3 + i /\ w = Write(b, v)
    OBVIOUS
  <2>2. w.at = b /\ w.bytes = v
    BY <2>1, WriteFields
  <2> QED BY <1>1, <2>1, <2>2
<1>4. 3 \in 1..Len(ws)
  OBVIOUS
<1>5. \A l \in 1..Len(w.bytes) : f[w.at + l - 1] = w.bytes[l]
  BY <1>3, <1>4 DEF Leaves
<1>6. ASSUME NEW l \in 1..j PROVE f[a + 3 + i + l - 1] = v[l]
  BY <1>1, <1>3, <1>5
<1>7. v = [l \in 1..j |-> v[l]]
  BY <1>1
<1>8. Bytes(f, a + 3 + i, j) = v
  BY <1>6, <1>7 DEF Bytes
<1>9. (3 + i + j) - 3 - i = j
  OBVIOUS
<1> QED BY <1>1, <1>2, <1>8, <1>9 DEF ItemIs

LEMMA RewriteKeeps ==
    ASSUME NEW m \in Memory, NEW A, NEW e, NEW T, NEW p, Keeps(m, A, e, T, p),
           NEW k \in DOMAIN T, NEW v \in Value, FullLength(m, p[k]) = ItemSize(k, v),
           NEW ws, ws = WriteItem(p[k], k, v), NEW f, f = Applied(m, ws)
    PROVE  /\ ws \in Seq(Writes) /\ f \in Memory
           /\ \E q : Keeps(f, A, e, KeyTable!With(T, k, v), q)
<1>1. Laid(m, First, A, e, Sure)
  BY DEF Keeps
<1>2. PICK x \in A : x = p[k] /\ x # e /\ x \in Holding(m, k) /\ x \in Nat /\ k \in Key
                    /\ x + 2 < MemorySize
  BY PlaceOf
<1>3. PICK n \in Nat : n = ItemSize(k, v) /\ n = FullLength(m, x)
  BY <1>2, ItemSizes
<1>4. Makes(m, ws, f, x, n) /\ Laid(f, First, A, e, Sure) /\ Entry(f, x, k, n)
  <2>1. FullLength(m, x) = ItemSize(k, v) /\ ws = WriteItem(x, k, v)
    BY <1>2
  <2>2. /\ Makes(m, ws, f, x, ItemSize(k, v)) /\ Laid(f, First, A, e, Sure)
        /\ Entry(f, x, k, ItemSize(k, v))
    BY <1>1, <1>2, <2>1, RewriteMakes
  <2> QED BY <1>3, <2>2
<1>5. ws \in Seq(Writes) /\ f \in Memory /\ Within(m, f, x, n) /\ Leaves(ws, f)
  BY <1>4, WithinMakes
<1>6. ItemIs(f, x, k, v)
  <2>1. Len(ws) = 3 /\ ws[3] = Write(x + 3 + Len(k), v)
    BY <1>2 DEF WriteItem
  <2>2. Entry(f, x, k, ItemSize(k, v)) /\ 3 <= Len(ws) /\ Len(ws) \in Nat
    BY <1>3, <1>4, <2>1
  <2> QED BY <1>2, <1>5, <2>1, <2>2, ValueWritten
<1>7. PICK U : U = KeyTable!With(T, k, v)
  OBVIOUS
<1>8. DOMAIN U = DOMAIN T /\ U = [j \in DOMAIN U |-> U[j]] /\ U[k] = v
      /\ \A j \in DOMAIN T : j # k => U[j] = T[j]
  <2>1. Extends(U, T, k, v)
    BY <1>7, WithOf, Zenon
  <2> QED BY <2>1 DEF Extends
<1>10. DOMAIN T \subseteq Key /\ p \in [DOMAIN T -> A \ {e}]
       /\ \A y \in A \ {e} : KeyLength(m, y) = 0 \/ \E j \in DOMAIN T : y = p[j]
  BY DEF Keeps
<1>11. p \in [DOMAIN U -> A \ {e}] /\ DOMAIN U \subseteq Key
  BY <1>8, <1>10
<1>12. n <= FullLength(m, x)
  BY <1>3
<1>13. ASSUME NEW j \in DOMAIN U, j # k
       PROVE  /\ j \in DOMAIN T /\ U[j] = T[j]
              /\ Copied(m, p[j], f, p[j], FullLength(m, p[j]))
              /\ p[j] + FullLength(m, p[j]) < MemorySize
  <2>1. j \in DOMAIN T /\ U[j] = T[j]
    BY <1>8, <1>13
  <2>2. PICK y \in A : y = p[j] /\ y # e /\ y \in Holding(m, j) /\ j \in Key
                      /\ y + FullLength(m, y) < MemorySize
    BY <2>1, PlaceOf
  <2>3. y # x
    BY <1>1, <1>2, <1>13, <2>2, OnlyKey
  <2>4. Copied(m, y, f, y, FullLength(m, y))
    BY <1>1, <1>2, <1>5, <1>12, <2>2, <2>3, OthersCopied
  <2> QED BY <2>1, <2>2, <2>4
<1>14. ASSUME NEW y \in A \ {e} PROVE KeyLength(f, y) = 0 \/ \E j \in DOMAIN U : y = p[j]
  <2>1. CASE y = x
    BY <1>2, <1>8, <2>1
  <2>2. CASE y # x
    <3>1. KeyLength(f, y) = KeyLength(m, y)
      BY <1>1, <1>2, <1>5, <1>12, <2>2, OthersCopied
    <3> QED BY <1>8, <1>10, <3>1
  <2> QED BY <2>1, <2>2
<1>15. \A j \in DOMAIN U :
          \/ /\ j \in DOMAIN T /\ U[j] = T[j]
             /\ Copied(m, p[j], f, p[j], FullLength(m, p[j]))
             /\ p[j] + FullLength(m, p[j]) < MemorySize
          \/ ItemIs(f, p[j], j, U[j])
  BY <1>2, <1>6, <1>8, <1>13
<1>16. Keeps(f, A, e, U, p)
  BY <1>4, <1>5, <1>8, <1>11, <1>14, <1>15, Carried
<1> QED BY <1>5, <1>7, <1>16

LEMMA AppendKeeps ==
    ASSUME NEW m \in Memory, NEW A, NEW e, NEW T, NEW p, Keeps(m, A, e, T, p),
           NEW k \in Key, k \notin DOMAIN T, NEW v \in Value, Fits(e, k, v),
           NEW ws, ws = AppendAt(e, k, v), NEW f, f = Applied(m, ws)
    PROVE  /\ ws \in Seq(Writes) /\ f \in Memory
           /\ \E B, z, q : Keeps(f, B, z, KeyTable!With(T, k, v), q)
<1>1. Laid(m, First, A, e, Sure)
  BY DEF Keeps
<1>2. PICK n \in Nat : n = ItemSize(k, v) /\ 4 <= n
  BY ItemSizes
<1>3. PICK B, z : B = A \cup {e + n} /\ z = e + n
  OBVIOUS
<1>4. Makes(m, ws, f, e, n + 2) /\ Entry(f, e, k, n) /\ Laid(f, First, B, z, Sure)
  BY <1>1, <1>2, <1>3, AppendAtMakes
<1>5. ws \in Seq(Writes) /\ f \in Memory /\ Within(m, f, e, n + 2) /\ Leaves(ws, f)
  BY <1>4, WithinMakes
<1>6. /\ e \in Nat /\ e \in A /\ A \subseteq Nat /\ e + 2 < MemorySize
      /\ \A y \in A : y <= e
  BY <1>1 DEF Laid
<1>7. z # e /\ e \in B /\ \A y \in A : y # z
  BY <1>2, <1>3, <1>6
<1>8. ItemIs(f, e, k, v)
  <2>1. PICK w1, w2, w3, w4 : WriteItem(e, k, v) = <<w1, w2, w3>>
                             /\ WriteEnd(e + ItemSize(k, v)) = <<w4>>
                             /\ w3 = Write(e + 3 + Len(k), v)
    BY DEF WriteItem, WriteEnd
  <2>2. ws = <<w1, w2, w3>> \o <<w4>>
    BY <2>1 DEF AppendAt
  <2>3. Len(ws) = 4 /\ ws[3] = w3
    BY <2>2
  <2>4. Len(ws) \in Nat /\ 3 <= Len(ws) /\ ws[3] = Write(e + 3 + Len(k), v)
    BY <2>1, <2>3
  <2>5. Entry(f, e, k, ItemSize(k, v))
    BY <1>2, <1>4
  <2> QED BY <1>5, <1>6, <2>4, <2>5, ValueWritten, Zenon
<1>9. PICK U : U = KeyTable!With(T, k, v)
  OBVIOUS
<1>10. DOMAIN U = DOMAIN T \cup {k} /\ U = [j \in DOMAIN U |-> U[j]] /\ U[k] = v
      /\ \A j \in DOMAIN T : j # k => U[j] = T[j]
  <2>1. Extends(U, T, k, v)
    BY <1>9, WithOf, Zenon
  <2> QED BY <2>1 DEF Extends
<1>11. DOMAIN T \subseteq Key /\ p \in [DOMAIN T -> A \ {e}]
       /\ \A y \in A \ {e} : KeyLength(m, y) = 0 \/ \E j \in DOMAIN T : y = p[j]
  BY DEF Keeps
<1>12. PICK q : q = [j \in DOMAIN U |-> IF j = k THEN e ELSE p[j]]
  OBVIOUS
<1>13. /\ q \in [DOMAIN U -> B \ {z}] /\ DOMAIN U \subseteq Key /\ q[k] = e
       /\ \A j \in DOMAIN T : q[j] = p[j] /\ j \in DOMAIN U
  <2>1. ASSUME NEW j \in DOMAIN T PROVE p[j] \in B \ {z} /\ j # k
    BY <1>3, <1>7, <1>11
  <2> QED BY <1>7, <1>10, <1>11, <1>12, <2>1
<1>14. ASSUME NEW y \in A, y # e
       PROVE  /\ Copied(m, y, f, y, FullLength(m, y)) /\ KeyLength(f, y) = KeyLength(m, y)
              /\ y + FullLength(m, y) < MemorySize
  <2>1. PICK l \in Nat : l = FullLength(m, y) /\ 4 <= l /\ y + l <= e /\ y \in Nat
    BY <1>1, <1>14, LengthOfTable
  <2>2. ASSUME NEW i \in 0..(l - 1) PROVE m[y + i] = f[y + i]
    <3>1. y + i \in Addresses /\ y + i < e
      BY <1>6, <2>1, <2>2, TableAssumption DEF Addresses
    <3> QED BY <1>5, <3>1 DEF Within
  <2>3. 2 \in 0..(l - 1)
    BY <2>1
  <2>4. f[y + 2] = m[y + 2]
    BY <2>2, <2>3
  <2>5. y + l < MemorySize
    BY <1>6, <2>1, TableAssumption
  <2> QED BY <2>1, <2>2, <2>4, <2>5 DEF Copied, KeyLength
<1>15. ASSUME NEW j \in DOMAIN T
       PROVE  /\ U[j] = T[j]
              /\ Copied(m, p[j], f, q[j], FullLength(m, p[j]))
              /\ q[j] + FullLength(m, p[j]) < MemorySize
  <2>1. p[j] \in A /\ p[j] # e /\ q[j] = p[j] /\ U[j] = T[j]
    BY <1>10, <1>11, <1>13
  <2> QED BY <1>14, <2>1
<1>16. \A j \in DOMAIN U :
          \/ /\ j \in DOMAIN T /\ U[j] = T[j]
             /\ Copied(m, p[j], f, q[j], FullLength(m, p[j]))
             /\ q[j] + FullLength(m, p[j]) < MemorySize
          \/ ItemIs(f, q[j], j, U[j])
  BY <1>8, <1>10, <1>13, <1>15
<1>17. ASSUME NEW y \in B \ {z} PROVE KeyLength(f, y) = 0 \/ \E j \in DOMAIN U : y = q[j]
  <2>1. CASE y = e
    BY <1>10, <1>13, <2>1
  <2>2. CASE y # e
    <3>1. y \in A
      BY <1>3
    <3>2. KeyLength(f, y) = KeyLength(m, y)
      BY <1>14, <2>2, <3>1
    <3> QED BY <1>11, <1>13, <2>2, <3>1, <3>2
  <2> QED BY <2>1, <2>2
<1>18. Keeps(f, B, z, U, q)
  BY <1>4, <1>5, <1>10, <1>13, <1>16, <1>17, Carried
<1> QED BY <1>5, <1>9, <1>18

LEMMA FormatKeeps ==
    ASSUME NEW m \in Memory, NEW f, f = Applied(m, Format)
    PROVE  f \in Memory /\ \E A, e, q : Keeps(f, A, e, KeyTable!Empty, q)
<1>1. Makes(m, Format, f, 0, 3) /\ Laid(f, First, {First}, First, Sure)
  BY FormatMakes
<1>2. f \in Memory
  BY <1>1, WithinMakes
<1>3. DOMAIN KeyTable!Empty = {} /\ KeyTable!Empty = [k \in {} |-> KeyTable!Empty[k]]
  BY DEF KeyTable!Empty
<1>4. PICK q : q = [k \in {} |-> First]
  OBVIOUS
<1>5. q \in [{} -> {First} \ {First}]
  BY <1>4
<1>6. Keeps(f, {First}, First, KeyTable!Empty, q)
  BY <1>1, <1>3, <1>5 DEF Keeps
<1> QED BY <1>2, <1>6

----------------------------------------------------------------------------
(* How much room a table takes.                                              *)

Size(T, k) == KeyTable!ItemSize(k, T[k])

\* The items of T, that of k at q[k], lie apart from each other in the n bytes from First.
Apart(T, q, n) ==
    /\ \A k \in DOMAIN T :
          q[k] \in Nat /\ 1 <= q[k] /\ Size(T, k) \in Nat /\ q[k] + Size(T, k) <= n + 1
    /\ \A j, k \in DOMAIN T :
          j # k => q[j] + Size(T, j) <= q[k] \/ q[k] + Size(T, k) <= q[j]

\* They leave none of these bytes.
Fills(T, q, n) == \A z \in 1..n : \E k \in DOMAIN T : q[k] <= z /\ z < q[k] + Size(T, k)

LEMMA OccupiedBy ==
    ASSUME NEW T, NEW s
    PROVE  s \in KeyTable!Occupied(T) <=>
              \E k \in DOMAIN T : \E i \in 1..Size(T, k) : s = <<k, i>>
BY DEF KeyTable!Occupied, Size

LEMMA Counts == ASSUME NEW S PROVE KeyTable!Cardinality(S) = Cardinality(S)
BY DEF KeyTable!Cardinality, Cardinality, KeyTable!IsFiniteSet, IsFiniteSet

LEMMA FitsWhen ==
    ASSUME NEW T
    PROVE  KeyTable!Fits(T) <=> 1 + Cardinality(KeyTable!Occupied(T)) + 2 < MemorySize
BY Counts DEF KeyTable!Fits

LEMMA RoomTaken ==
    ASSUME NEW T, NEW q, NEW n \in Nat, Apart(T, q, n)
    PROVE  /\ Cardinality(KeyTable!Occupied(T)) \in Nat
           /\ Cardinality(KeyTable!Occupied(T)) <= n
           /\ Fills(T, q, n) => Cardinality(KeyTable!Occupied(T)) = n
<1> DEFINE At(s) == q[s[1]] + s[2] - 1
<1>1. PICK S : S = KeyTable!Occupied(T)
  OBVIOUS
<1>2. ASSUME NEW s \in S
      PROVE  \E k \in DOMAIN T : \E i \in 1..Size(T, k) : s = <<k, i>> /\ At(s) = q[k] + i - 1
  <2>1. PICK k \in DOMAIN T : \E i \in 1..Size(T, k) : s = <<k, i>>
    BY <1>1, OccupiedBy
  <2>2. PICK i \in 1..Size(T, k) : s = <<k, i>>
    BY <2>1
  <2>3. s[1] = k /\ s[2] = i
    BY <2>2
  <2> QED BY <2>2, <2>3
<1>3. ASSUME NEW k \in DOMAIN T, NEW i \in 1..Size(T, k)
      PROVE  <<k, i>> \in S /\ At(<<k, i>>) = q[k] + i - 1
  <2>1. <<k, i>> \in S
    BY <1>1, OccupiedBy
  <2> QED BY <2>1
<1> HIDE DEF At
<1>4. ASSUME NEW s \in S PROVE At(s) \in 1..n
  <2>0. PICK k \in DOMAIN T : \E i \in 1..Size(T, k) : At(s) = q[k] + i - 1
    BY <1>2
  <2>1. PICK i \in 1..Size(T, k) : At(s) = q[k] + i - 1
    BY <2>0
  <2>2. q[k] \in Nat /\ 1 <= q[k] /\ Size(T, k) \in Nat /\ q[k] + Size(T, k) <= n + 1
    BY DEF Apart
  <2> QED BY <2>1, <2>2
<1>5. ASSUME NEW s \in S, NEW r \in S, At(s) = At(r) PROVE s = r
  <2>0. PICK k \in DOMAIN T, j \in DOMAIN T :
            /\ \E i \in 1..Size(T, k) : s = <<k, i>> /\ At(s) = q[k] + i - 1
            /\ \E h \in 1..Size(T, j) : r = <<j, h>> /\ At(r) = q[j] + h - 1
    BY <1>2
  <2>1. PICK i \in 1..Size(T, k) : s = <<k, i>> /\ At(s) = q[k] + i - 1
    BY <2>0
  <2>2. PICK h \in 1..Size(T, j) : r = <<j, h>> /\ At(r) = q[j] + h - 1
    BY <2>0
  <2>3. PICK a \in Nat, b \in Nat, c \in Nat, d \in Nat :
            a = q[k] /\ b = q[j] /\ c = Size(T, k) /\ d = Size(T, j)
    BY DEF Apart
  <2>6. i \in 1..c /\ h \in 1..d /\ a + i - 1 = b + h - 1
    BY <1>5, <2>1, <2>2, <2>3
  <2>4. k = j
    <3>1. k # j => q[j] + Size(T, j) <= q[k] \/ q[k] + Size(T, k) <= q[j]
      BY DEF Apart
    <3> QED BY <2>3, <2>6, <3>1
  <2>5. i = h
    BY <2>3, <2>4, <2>6
  <2> QED BY <2>1, <2>2, <2>4, <2>5
<1>6. PICK f : f = [s \in S |-> At(s)]
  OBVIOUS
<1>7. f \in Injection(S, 1..n)
  <2>1. f \in [S -> 1..n] /\ DOMAIN f = S /\ \A s \in S : f[s] = At(s)
    BY <1>4, <1>6
  <2>2. \A s, r \in S : f[s] = f[r] => s = r
    BY <1>5, <2>1
  <2> QED BY <2>1, <2>2 DEF Injection, IsInjective
<1>8. IsFiniteSet(1..n) /\ Cardinality(1..n) = n
  BY FS_Interval
<1>9. /\ IsFiniteSet(S) /\ Cardinality(S) <= n
      /\ Cardinality(S) = n <=> f \in Surjection(S, 1..n)
  BY <1>7, <1>8, FS_Injection
<1>10. Cardinality(S) \in Nat
  BY <1>9, FS_CardinalityType
<1>11. ASSUME Fills(T, q, n) PROVE f \in Surjection(S, 1..n)
  <2>1. ASSUME NEW z \in 1..n PROVE \E s \in S : f[s] = z
    <3>1. PICK k \in DOMAIN T : q[k] <= z /\ z < q[k] + Size(T, k)
      BY <1>11 DEF Fills
    <3>2. q[k] \in Nat /\ Size(T, k) \in Nat
      BY DEF Apart
    <3>3. PICK i \in 1..Size(T, k) : i = z - q[k] + 1 /\ q[k] + i - 1 = z
      BY <3>1, <3>2
    <3>4. <<k, i>> \in S /\ At(<<k, i>>) = z
      BY <1>3, <3>3
    <3> QED BY <1>6, <3>4
  <2>2. f \in [S -> 1..n]
    BY <1>4, <1>6
  <2> QED BY <2>1, <2>2 DEF Surjection
<1> QED BY <1>1, <1>9, <1>10, <1>11

\* An item takes the bytes that its header says.
LEMMA SizeOf ==
    ASSUME NEW m \in Memory, NEW A, NEW e, NEW T, NEW p, Keeps(m, A, e, T, p),
           NEW k \in DOMAIN T
    PROVE  Size(T, k) = FullLength(m, p[k])
<1>1. PICK x \in Nat, l \in Nat :
          /\ x = p[k] /\ l = FullLength(m, x) /\ 3 + KeyLength(m, x) <= l
          /\ x + l < MemorySize /\ ItemIs(m, x, k, T[k]) /\ KeyLength(m, x) = Len(k) /\ k \in Key
  BY PlaceOf
<1>2. PICK n \in Nat : n = Len(k)
  BY <1>1, KeyType
<1>3. PICK a \in Nat, i \in Nat : a = x + 3 + n /\ i = l - 3 - n /\ a + i <= MemorySize
  BY <1>1, <1>2, TableAssumption
<1>4. T[k] = Bytes(m, a, i)
  BY <1>1, <1>2, <1>3 DEF ItemIs
<1>5. Len(T[k]) = i
  <2>1. Len(Bytes(m, a, i)) = i
    BY <1>3, BytesOf
  <2> QED BY <1>4, <2>1
<1>6. Size(T, k) = 3 + n + i
  BY <1>2, <1>5 DEF Size, KeyTable!ItemSize
<1>7. 3 + n + i = l
  BY <1>3
<1> QED BY <1>1, <1>6, <1>7

LEMMA KeptApart ==
    ASSUME NEW m \in Memory, NEW A, NEW e, NEW T, NEW p, Keeps(m, A, e, T, p)
    PROVE  Apart(T, p, e - 1) /\ e \in Nat /\ First <= e /\ e + 2 < MemorySize
<1>1. Laid(m, First, A, e, Sure)
  BY DEF Keeps
<1>2. e \in Nat /\ e + 2 < MemorySize /\ (\A x \in A : First <= x) /\ e \in A
  BY <1>1 DEF Laid
<1>3. ASSUME NEW k \in DOMAIN T
      PROVE  p[k] \in Nat /\ 1 <= p[k] /\ Size(T, k) \in Nat /\ p[k] + Size(T, k) <= (e - 1) + 1
  <2>1. p[k] \in A /\ p[k] \in Nat /\ FullLength(m, p[k]) \in Nat
        /\ p[k] + FullLength(m, p[k]) <= e
    BY PlaceOf
  <2>2. 1 <= p[k]
    BY <1>2, <2>1 DEF First
  <2> QED BY <1>2, <2>1, <2>2, SizeOf
<1>4. ASSUME NEW j \in DOMAIN T, NEW k \in DOMAIN T, j # k
      PROVE  p[j] + Size(T, j) <= p[k] \/ p[k] + Size(T, k) <= p[j]
  <2>1. PICK x \in A : x = p[j] /\ x \in Nat /\ x \in Holding(m, j) /\ j \in Key
                      /\ x + 2 < MemorySize
    BY PlaceOf
  <2>2. PICK y \in A : y = p[k] /\ y \in Nat /\ y \in Holding(m, k) /\ k \in Key
    BY PlaceOf
  <2>3. x # y
    BY <1>4, <2>1, <2>2, OnlyKey
  <2>4. Size(T, j) = FullLength(m, x) /\ Size(T, k) = FullLength(m, y)
    BY <2>1, <2>2, SizeOf
  <2>5. CASE x < y
    BY <1>1, <2>1, <2>2, <2>4, <2>5, Spaced
  <2>6. CASE y < x
    BY <1>1, <2>1, <2>2, <2>4, <2>6, Spaced
  <2> QED BY <2>1, <2>2, <2>3, <2>5, <2>6
<1> QED BY <1>2, <1>3, <1>4 DEF Apart

\* A table that is in the memory fits it.
LEMMA KeptFits ==
    ASSUME NEW m \in Memory, NEW A, NEW e, NEW T, NEW p, Keeps(m, A, e, T, p)
    PROVE  KeyTable!Fits(T)
<1>1. Apart(T, p, e - 1) /\ e \in Nat /\ First <= e /\ e + 2 < MemorySize
  BY KeptApart
<1>2. PICK n \in Nat : n = e - 1 /\ Apart(T, p, n)
  BY <1>1 DEF First
<1>3. PICK c \in Nat : c = Cardinality(KeyTable!Occupied(T)) /\ c <= n
  BY <1>2, RoomTaken
<1>4. 1 + c + 2 < MemorySize
  BY <1>1, <1>2, <1>3, TableAssumption
<1> QED BY <1>3, <1>4, FitsWhen

\* The item a byte of a table is in.
LEMMA ItemAround ==
    ASSUME NEW m \in Memory, NEW a, NEW A, NEW e, NEW t, Laid(m, a, A, e, t),
           NEW z \in Nat, a <= z, z < e
    PROVE  \E x \in A : x # e /\ x <= z /\ z < x + FullLength(m, x)
<1>1. a \in A /\ A \subseteq Nat /\ e \in Nat /\ a \in Nat
  BY DEF Laid
<1> DEFINE Gaps == {n \in 0..z : z - n \in A}
<1>2. z - a \in Gaps
  <2>1. z - a \in 0..z /\ z - (z - a) = a
    BY <1>1
  <2> QED BY <1>1, <2>1
<1>3. PICK n \in Gaps : \A i \in Gaps : n <= i
  BY <1>2, SmallestUpTo
<1>4. PICK x \in A : x = z - n /\ x <= z /\ x \in Nat /\ x # e
  BY <1>1, <1>3
<1>5. PICK l \in Nat : l = FullLength(m, x) /\ 4 <= l /\ x + l \in A
  BY <1>4, LaidItem
<1>6. ASSUME x + l <= z PROVE FALSE
  <2>1. z - (x + l) \in 0..z /\ z - (z - (x + l)) = x + l /\ z - (x + l) < n
    BY <1>3, <1>4, <1>5, <1>6
  <2>2. z - (x + l) \in Gaps
    BY <1>5, <2>1
  <2> QED BY <1>3, <2>1, <2>2
<1> QED BY <1>4, <1>5, <1>6

\* A table without holes.
Dense(m, A, e) == \A x \in A \ {e} : KeyLength(m, x) # 0

\* What does not fit after a table without holes does not fit with it.
LEMMA DenseFull ==
    ASSUME NEW m \in Memory, NEW A, NEW e, NEW T, NEW p, Keeps(m, A, e, T, p), Dense(m, A, e),
           NEW k \in Key, k \notin DOMAIN T, NEW v \in Value, ~ Fits(e, k, v)
    PROVE  ~ KeyTable!Fits(KeyTable!With(T, k, v))
<1>1. Apart(T, p, e - 1) /\ e \in Nat /\ First <= e /\ e + 2 < MemorySize
      /\ Laid(m, First, A, e, Sure) /\ 1 <= e
  <2>1. Apart(T, p, e - 1) /\ e \in Nat /\ First <= e /\ e + 2 < MemorySize
    BY KeptApart
  <2> QED BY <2>1 DEF First, Keeps
<1>2. PICK s \in Nat : s = ItemSize(k, v)
  BY ItemSizes
<1>3. PICK U : U = KeyTable!With(T, k, v) /\ Extends(U, T, k, v)
  BY WithOf
<1>4. PICK q : q = [j \in DOMAIN U |-> IF j = k THEN e ELSE p[j]]
  OBVIOUS
<1>5. DOMAIN U = DOMAIN T \cup {k} /\ U[k] = v /\ q[k] = e
  BY <1>3, <1>4 DEF Extends
<1>6. ASSUME NEW j \in DOMAIN T PROVE Size(U, j) = Size(T, j) /\ q[j] = p[j]
  <2>1. j # k /\ U[j] = T[j] /\ j \in DOMAIN U
    BY <1>3, <1>6 DEF Extends
  <2> QED BY <1>4, <2>1 DEF Size
<1>7. Size(U, k) = s
  BY <1>2, <1>5 DEF Size, KeyTable!ItemSize, ItemSize
<1>8. PICK n \in Nat : n = (e - 1) + s
  BY <1>1
<1>9. \A j \in DOMAIN T : /\ p[j] \in Nat /\ 1 <= p[j] /\ Size(T, j) \in Nat
                          /\ p[j] + Size(T, j) <= (e - 1) + 1
  BY <1>1 DEF Apart
<1>10. Apart(U, q, n)
  <2>1. ASSUME NEW j \in DOMAIN U
        PROVE  q[j] \in Nat /\ 1 <= q[j] /\ Size(U, j) \in Nat /\ q[j] + Size(U, j) <= n + 1
    <3>1. CASE j = k
      BY <1>1, <1>5, <1>7, <1>8, <3>1
    <3>2. CASE j # k
      <4>1. j \in DOMAIN T
        BY <1>5, <3>2
      <4> QED BY <1>1, <1>6, <1>8, <1>9, <4>1
    <3> QED BY <3>1, <3>2
  <2>2. ASSUME NEW j \in DOMAIN T PROVE q[j] + Size(U, j) <= q[k]
    BY <1>1, <1>5, <1>6, <1>9
  <2>3. ASSUME NEW i \in DOMAIN T, NEW j \in DOMAIN T, i # j
        PROVE  q[i] + Size(U, i) <= q[j] \/ q[j] + Size(U, j) <= q[i]
    <3>1. p[i] + Size(T, i) <= p[j] \/ p[j] + Size(T, j) <= p[i]
      BY <1>1, <2>3 DEF Apart
    <3> QED BY <1>6, <3>1
  <2> QED BY <1>5, <2>1, <2>2, <2>3 DEF Apart
<1>11. Fills(U, q, n)
  <2> SUFFICES ASSUME NEW z \in 1..n
               PROVE  \E j \in DOMAIN U : q[j] <= z /\ z < q[j] + Size(U, j)
    BY DEF Fills
  <2>1. CASE z < e
    <3>1. PICK x \in A : x # e /\ x <= z /\ z < x + FullLength(m, x)
      <4>1. First <= z /\ z \in Nat
        BY DEF First
      <4> QED BY <1>1, <2>1, <4>1, ItemAround
    <3>2. PICK j \in DOMAIN T : x = p[j]
      BY <3>1 DEF Dense, Keeps
    <3>3. Size(T, j) = FullLength(m, x)
      BY <3>2, SizeOf
    <3> QED BY <1>5, <1>6, <3>1, <3>2, <3>3
  <2>2. CASE ~ (z < e)
    <3>1. e <= z /\ z < e + s
      BY <1>1, <1>8, <2>2
    <3> QED BY <1>5, <1>7, <3>1
  <2> QED BY <2>1, <2>2
<1>12. Cardinality(KeyTable!Occupied(U)) = n
  BY <1>10, <1>11, RoomTaken
<1>13. ~ (1 + n + 2 < MemorySize)
  <2>1. ~ (e + s + 2 < MemorySize)
    BY <1>2 DEF Fits
  <2> QED BY <1>1, <1>8, <2>1
<1> QED BY <1>3, <1>12, <1>13, FitsWhen

----------------------------------------------------------------------------
(* Packing keeps the table, and leaves no hole.                              *)

LEMMA CropKeeps ==
    ASSUME NEW m \in Memory, NEW A, NEW e, NEW T, NEW p, Keeps(m, A, e, T, p),
           NEW h \in A, h = e \/ KeyLength(m, h) = 0,
           \A x \in A : x < h => KeyLength(m, x) # 0,
           NEW f \in Memory, Ended(m, f, A, e, h), NEW B, B = {x \in A : x <= h}
    PROVE  Keeps(f, B, h, T, p) /\ Dense(f, B, h)
<1>1. /\ Laid(m, First, A, e, Sure) /\ DOMAIN T \subseteq Key /\ T = [k \in DOMAIN T |-> T[k]]
      /\ p \in [DOMAIN T -> A \ {e}]
      /\ \A x \in A \ {e} : KeyLength(m, x) = 0 \/ \E k \in DOMAIN T : x = p[k]
  BY DEF Keeps
<1>2. /\ A \subseteq Nat /\ h \in Nat /\ e \in Nat
      /\ h <= e /\ e + 2 < MemorySize /\ h + 2 < MemorySize
  <2>1. A \subseteq Nat
    BY <1>1, EndsOfTable
  <2>2. e \in A /\ e + 2 < MemorySize
    BY <1>1 DEF Laid
  <2>3. h <= e
    BY <1>1, EndsOfTable
  <2>4. h \in Nat /\ e \in Nat
    BY <2>1, <2>2
  <2> QED BY <2>1, <2>2, <2>3, <2>4, TableAssumption
<1>3. Laid(f, First, B, h, Sure)
  BY <1>1, Cropped DEF Ended, EndSet
<1>4. ASSUME NEW x \in A, x < h
      PROVE  /\ Copied(m, x, f, x, FullLength(m, x)) /\ KeyLength(f, x) = KeyLength(m, x)
             /\ x + FullLength(m, x) < MemorySize /\ x # e
  <2>1. PICK l \in Nat : l = FullLength(m, x) /\ 4 <= l /\ x + l <= h /\ x \in Nat /\ x # e
    BY <1>1, <1>4, Spaced
  <2>2. ASSUME NEW i \in 0..(l - 1) PROVE m[x + i] = f[x + i]
    <3>1. x + i \in Addresses /\ x + i < h
      BY <1>2, <2>1, TableAssumption DEF Addresses
    <3> QED BY <3>1 DEF Ended, EndSet, Within
  <2>3. 2 \in 0..(l - 1)
    BY <2>1
  <2>4. f[x + 2] = m[x + 2]
    BY <2>2, <2>3
  <2>5. x + l < MemorySize
    BY <1>2, <2>1, TableAssumption
  <2> QED BY <2>1, <2>2, <2>4, <2>5 DEF Copied, KeyLength
<1>5. ASSUME NEW k \in DOMAIN T PROVE p[k] \in A /\ p[k] < h
  <2>1. PICK x \in A : x = p[k] /\ x # e /\ KeyLength(m, x) # 0 /\ x \in Nat
    BY PlaceOf
  <2>2. ~ (h < x)
    BY <2>1 DEF Ended
  <2> QED BY <1>2, <2>1, <2>2
<1>6. p \in [DOMAIN T -> B \ {h}]
  <2>1. ASSUME NEW k \in DOMAIN T PROVE p[k] \in B \ {h}
    <3>1. PICK x \in A : x = p[k] /\ x < h
      BY <1>5
    <3>2. x \in Nat
      BY <1>2
    <3> QED BY <1>2, <3>1, <3>2
  <2> QED BY <1>1, <2>1
<1>7. ASSUME NEW y \in B \ {h}
      PROVE  KeyLength(f, y) # 0 /\ \E k \in DOMAIN T : y = p[k]
  <2>1. y \in A /\ y < h
    BY <1>2
  <2>2. KeyLength(m, y) # 0 /\ y # e /\ KeyLength(f, y) = KeyLength(m, y)
    BY <1>4, <2>1
  <2> QED BY <1>1, <2>1, <2>2
<1>8. ASSUME NEW k \in DOMAIN T
      PROVE  /\ Copied(m, p[k], f, p[k], FullLength(m, p[k]))
             /\ p[k] + FullLength(m, p[k]) < MemorySize
  BY <1>4, <1>5
<1>9. Keeps(f, B, h, T, p)
  BY <1>1, <1>3, <1>6, <1>7, <1>8, Carried
<1> QED BY <1>7, <1>9 DEF Dense

\* Where an item goes in a turn.
Slide(x, h, i, p) == IF i <= x /\ x < p THEN x - (i - h) ELSE x

LEMMA SlidItem ==
    ASSUME NEW m \in Memory, NEW A, NEW e, NEW t, Laid(m, First, A, e, t),
           NEW h \in A, NEW i \in A, NEW p \in A, h < i, i < p, NEW f, Slid(m, f, h, i, p),
           NEW x \in A, x # e, x < h \/ i <= x, NEW y, y = Slide(x, h, i, p)
    PROVE  /\ Copied(m, x, f, y, FullLength(m, x)) /\ KeyLength(f, y) = KeyLength(m, x)
           /\ y \in Shifted(A, h, i, p) /\ y # e /\ y + FullLength(m, x) < MemorySize
<1>1. /\ A \subseteq Nat /\ h \in Nat /\ i \in Nat /\ p \in Nat /\ e \in Nat /\ p <= e /\ x \in Nat
      /\ x <= e /\ e + 2 < MemorySize
  BY DEF Laid
<1>2. PICK d \in Nat, q \in Nat :
          d = i - h /\ q = h + (p - i) /\ 4 <= d /\ q + d = p /\ h < q /\ i = h + d
  <2>1. FullLength(m, h) \in Nat /\ 4 <= FullLength(m, h) /\ h + FullLength(m, h) <= i
    BY Spaced
  <2> QED BY <1>1, <2>1
<1>3. PICK l \in Nat : l = FullLength(m, x) /\ 4 <= l /\ x + l <= e
  BY LaidItem
<1>4. /\ x < h => x + l <= h
      /\ i <= x /\ x < p => x + l <= p
  BY <1>3, Spaced
<1>5. y = IF i <= x /\ x < p THEN x - d ELSE x
  BY <1>2 DEF Slide
<1>6. y \in Nat /\ y <= x
  BY <1>1, <1>2, <1>5
<1>7. ASSUME NEW j \in 0..(l - 1) PROVE m[x + j] = f[y + j]
  <2>1. PICK z \in Addresses : z = y + j /\ z \in Nat
    BY <1>1, <1>3, <1>6, <1>7, TableAssumption DEF Addresses
  <2>2. CASE i <= x /\ x < p
    <3>1. h <= z /\ z < q /\ z + d = x + j
      BY <1>1, <1>2, <1>4, <1>5, <1>7, <2>1, <2>2
    <3>2. f[z] = m[z + d]
      BY <1>2, <3>1 DEF Slid
    <3> QED BY <2>1, <3>1, <3>2
  <2>3. CASE ~ (i <= x /\ x < p)
    <3>1. z = x + j /\ (z < h \/ q + 3 <= z)
      BY <1>1, <1>2, <1>4, <1>5, <1>7, <2>1, <2>3
    <3>2. f[z] = m[z]
      BY <1>2, <3>1 DEF Slid
    <3> QED BY <2>1, <3>1, <3>2
  <2> QED BY <2>2, <2>3
<1>8. KeyLength(f, y) = KeyLength(m, x)
  <2>1. 2 \in 0..(l - 1)
    BY <1>3
  <2> QED BY <1>7, <2>1 DEF KeyLength
<1>9. y \in Shifted(A, h, i, p)
  <2>1. CASE i <= x /\ x < p
    <3>1. y = x - (i - h)
      BY <2>1 DEF Slide
    <3> QED BY <2>1, <3>1, ShiftedIn
  <2>2. CASE ~ (i <= x /\ x < p)
    <3>1. y = x /\ (x < h \/ p <= x)
      BY <1>1, <2>2 DEF Slide
    <3> QED BY <3>1, ShiftedIn
  <2> QED BY <2>1, <2>2
<1>10. y # e /\ y + l < MemorySize
  <2>1. y + l < MemorySize
    BY <1>1, <1>3, <1>6, TableAssumption
  <2> QED BY <1>1, <1>3, <1>6, <2>1
<1> QED BY <1>3, <1>7, <1>8, <1>9, <1>10 DEF Copied

LEMMA TurnKeeps ==
    ASSUME NEW m \in Memory, NEW A, NEW e, NEW T, NEW s, Keeps(m, A, e, T, s),
           NEW h \in A, h = e \/ KeyLength(m, h) = 0,
           \A x \in A : x < h => KeyLength(m, x) # 0,
           NEW i, NEW p, NEW f, Turned(m, f, A, e, h, i, p),
           NEW B, B = Shifted(A, h, i, p), NEW g, g = h + (p - i)
    PROVE  /\ \E q : Keeps(f, B, e, T, q)
           /\ f \in Memory /\ g \in B /\ h < g /\ g # e /\ KeyLength(f, g) = 0
           /\ \A y \in B : y < g => KeyLength(f, y) # 0
<1>1. /\ Laid(m, First, A, e, Sure) /\ DOMAIN T \subseteq Key /\ T = [k \in DOMAIN T |-> T[k]]
      /\ s \in [DOMAIN T -> A \ {e}]
      /\ \A x \in A \ {e} : KeyLength(m, x) = 0 \/ \E k \in DOMAIN T : x = s[k]
  BY DEF Keeps
<1>2. /\ i \in A /\ p \in A /\ h < i /\ i < p /\ Slid(m, f, h, i, p)
      /\ \A y \in A : /\ h < y /\ y < i => KeyLength(m, y) = 0
                      /\ i <= y /\ y < p => KeyLength(m, y) # 0
  BY DEF Turned
<1>3. /\ A \subseteq Nat /\ h \in Nat /\ i \in Nat /\ p \in Nat /\ e \in Nat /\ p <= e
  BY <1>1, <1>2 DEF Laid
<1>4. f \in Memory /\ KeyLength(f, g) = 0
  BY <1>2 DEF Slid
<1>5. h # e /\ KeyLength(m, h) = 0
  BY <1>2, <1>3
<1>6. g \in Nat /\ h < g /\ g < p /\ g \in B /\ g # e
  <2>1. g \in B
    BY ShiftedIn
  <2> QED BY <1>2, <1>3, <2>1
<1>7. Laid(f, First, B, e, Sure)
  BY <1>1, <1>2, Packed
<1>8. ASSUME NEW k \in DOMAIN T PROVE s[k] \in A /\ s[k] # e /\ (s[k] < h \/ i <= s[k])
  <2>1. PICK x \in A : x = s[k] /\ x # e /\ KeyLength(m, x) # 0 /\ x \in Nat
    BY PlaceOf
  <2>2. ~ (h < x /\ x < i) /\ x # h
    BY <1>2, <1>5, <2>1
  <2> QED BY <1>3, <2>1, <2>2
<1>9. PICK q : q = [k \in DOMAIN T |-> Slide(s[k], h, i, p)]
  OBVIOUS
<1>10. ASSUME NEW k \in DOMAIN T
       PROVE  /\ Copied(m, s[k], f, q[k], FullLength(m, s[k])) /\ q[k] \in B /\ q[k] # e
              /\ q[k] + FullLength(m, s[k]) < MemorySize
  <2>1. PICK x \in A : x = s[k] /\ x # e /\ (x < h \/ i <= x)
    BY <1>8
  <2>2. q[k] = Slide(x, h, i, p)
    BY <1>9, <2>1
  <2> QED BY <1>1, <1>2, <2>1, <2>2, SlidItem
<1>11. q \in [DOMAIN T -> B \ {e}]
  BY <1>9, <1>10
<1>12. ASSUME NEW y \in B, y # e, y # g
       PROVE  \E x \in A : x # e /\ (x < h \/ (i <= x /\ x < p) \/ p <= x)
                          /\ y = Slide(x, h, i, p)
  <2>1. \/ y \in A /\ y < h
        \/ \E z \in A : i <= z /\ z < p /\ y = z - (i - h)
        \/ y \in A /\ p <= y
    BY <1>12, ShiftedIn
  <2>2. CASE y \in A /\ y < h
    <3>1. ~ (i <= y /\ y < p)
      BY <1>2, <1>3, <2>2
    <3>2. y = Slide(y, h, i, p)
      BY <3>1 DEF Slide
    <3> QED BY <1>12, <2>2, <3>2
  <2>3. CASE y \in A /\ p <= y
    <3>1. ~ (i <= y /\ y < p)
      BY <1>2, <1>3, <2>3
    <3>2. y = Slide(y, h, i, p)
      BY <3>1 DEF Slide
    <3> QED BY <1>12, <2>3, <3>2
  <2>4. CASE \E z \in A : i <= z /\ z < p /\ y = z - (i - h)
    <3>1. PICK z \in A : i <= z /\ z < p /\ y = z - (i - h)
      BY <2>4
    <3>2. y = Slide(z, h, i, p)
      BY <3>1 DEF Slide
    <3>3. z # e
      BY <1>3, <3>1
    <3> QED BY <3>1, <3>2, <3>3
  <2> QED BY <2>1, <2>2, <2>3, <2>4
<1>13. ASSUME NEW y \in B \ {e} PROVE KeyLength(f, y) = 0 \/ \E k \in DOMAIN T : y = q[k]
  <2>1. CASE y = g
    BY <1>4, <2>1
  <2>2. CASE y # g
    <3>1. PICK x \in A : x # e /\ (x < h \/ (i <= x /\ x < p) \/ p <= x)
                        /\ y = Slide(x, h, i, p)
      BY <1>12, <2>2
    <3>2. x < h \/ i <= x
      BY <1>2, <1>3, <3>1
    <3>3. KeyLength(f, y) = KeyLength(m, x)
      BY <1>1, <1>2, <3>1, <3>2, SlidItem
    <3>4. \A k \in DOMAIN T : x = s[k] => y = q[k]
      BY <1>9, <3>1
    <3> QED BY <1>1, <3>1, <3>3, <3>4
  <2> QED BY <2>1, <2>2
<1>14. Keeps(f, B, e, T, q)
  BY <1>1, <1>4, <1>7, <1>10, <1>11, <1>13, Carried
<1>15. ASSUME NEW y \in B, y < g PROVE KeyLength(f, y) # 0
  <2>1. y \in Nat /\ y # e /\ y # g
    <3>1. y \in Nat
      BY <1>7 DEF Laid
    <3> QED BY <1>3, <1>6, <1>15, <3>1
  <2>2. PICK x \in A : x # e /\ (x < h \/ (i <= x /\ x < p) \/ p <= x)
                      /\ y = Slide(x, h, i, p)
    BY <1>12, <2>1
  <2>3. ~ (p <= x)
    <3>1. p <= x => y = x
      BY <1>2, <1>3, <2>2 DEF Slide
    <3> QED BY <1>3, <1>6, <1>15, <2>1, <3>1
  <2>4. KeyLength(m, x) # 0
    BY <1>2, <2>2, <2>3
  <2>5. KeyLength(f, y) = KeyLength(m, x)
    <3>1. x < h \/ i <= x
      BY <2>2, <2>3
    <3> QED BY <1>1, <1>2, <2>2, <3>1, SlidItem
  <2> QED BY <2>4, <2>5
<1> QED BY <1>4, <1>6, <1>14, <1>15

\* After n turns: the hole is the first, and beyond n, or there is none.
HoleAt(m, A, e, h, n) ==
    IF h = None THEN Dense(m, A, e)
    ELSE /\ h \in A /\ n < h /\ (h = e \/ KeyLength(m, h) = 0)
         /\ \A x \in A : x < h => KeyLength(m, x) # 0

PackingOf(m, d, n, T) ==
    /\ d.writes \in Seq(Writes)
    /\ \E A, e, p : /\ Keeps(Applied(m, d.writes), A, e, T, p)
                    /\ HoleAt(Applied(m, d.writes), A, e, d.hole, n)

LEMMA KeepStep ==
    ASSUME NEW m \in Memory, NEW d, NEW n \in Nat, NEW T, PackingOf(m, d, n, T)
    PROVE  PackingOf(m, Pack(m, d), n + 1, T)
<1>1. d.writes \in Seq(Writes)
  BY DEF PackingOf
<1>2. PICK now \in Memory : now = Applied(m, d.writes)
  BY <1>1, AppliedType
<1>3. PICK A, e, s : Keeps(now, A, e, T, s) /\ HoleAt(now, A, e, d.hole, n)
  BY <1>2 DEF PackingOf
<1>4. CASE d.hole = None
  <2>1. Pack(m, d) = d
    BY <1>4, Zenon DEF Pack
  <2>2. HoleAt(now, A, e, d.hole, n + 1)
    BY <1>3, <1>4 DEF HoleAt
  <2> QED BY <1>1, <1>2, <1>3, <2>1, <2>2 DEF PackingOf
<1>5. CASE d.hole # None
  <2>1. PICK h \in A : /\ h = d.hole /\ n < h /\ (h = e \/ KeyLength(now, h) = 0)
                       /\ \A x \in A : x < h => KeyLength(now, x) # 0
    BY <1>3, <1>5 DEF HoleAt
  <2>2. PICK g, f : g = Pack(m, d) /\ f = Applied(m, g.writes)
    OBVIOUS
  <2>3. Laid(now, First, A, e, Sure) /\ h \in Nat
    BY <1>3 DEF Keeps, Laid
  <2>4. /\ g.writes \in Seq(Writes) /\ f \in Memory
        /\ \/ g.hole = None /\ Ended(now, f, A, e, h)
           \/ \E i, p : g.hole = h + (p - i) /\ Turned(now, f, A, e, h, i, p)
    BY <1>1, <1>2, <1>5, <2>1, <2>2, <2>3, PackTurn
  <2>5. CASE g.hole = None /\ Ended(now, f, A, e, h)
    <3>1. PICK B : B = {x \in A : x <= h}
      OBVIOUS
    <3>2. Keeps(f, B, h, T, s) /\ Dense(f, B, h)
      BY <1>3, <2>1, <2>4, <2>5, <3>1, CropKeeps
    <3>3. HoleAt(f, B, h, g.hole, n + 1)
      BY <2>5, <3>2 DEF HoleAt
    <3> QED BY <2>2, <2>4, <3>2, <3>3 DEF PackingOf
  <2>6. CASE \E i, p : g.hole = h + (p - i) /\ Turned(now, f, A, e, h, i, p)
    <3>1. PICK i, p : g.hole = h + (p - i) /\ Turned(now, f, A, e, h, i, p)
      BY <2>6
    <3>2. PICK B : B = Shifted(A, h, i, p)
      OBVIOUS
    <3>3. /\ \E q : Keeps(f, B, e, T, q)
          /\ g.hole \in B /\ h < g.hole /\ KeyLength(f, g.hole) = 0
          /\ \A y \in B : y < g.hole => KeyLength(f, y) # 0
      BY <1>3, <2>1, <3>1, <3>2, TurnKeeps
    <3>4. PICK q : Keeps(f, B, e, T, q)
      BY <3>3
    <3>5. g.hole \in Nat
      BY <3>3, <3>4 DEF Keeps, Laid
    <3>6. HoleAt(f, B, e, g.hole, n + 1)
      <4>1. n + 1 < g.hole
        BY <2>1, <2>3, <3>3, <3>5
      <4> QED BY <3>3, <3>5, <4>1, NoneIsNoAddress DEF HoleAt
    <3> QED BY <2>2, <2>4, <3>4, <3>6 DEF PackingOf
  <2> QED BY <2>4, <2>5, <2>6
<1> QED BY <1>4, <1>5

LEMMA DefragKeeps ==
    ASSUME NEW m \in Memory, NEW A, NEW e, NEW T, NEW s, Keeps(m, A, e, T, s),
           NEW f, f = Applied(m, Defrag(m))
    PROVE  /\ Defrag(m) \in Seq(Writes) /\ f \in Memory
           /\ \E B, z, q : Keeps(f, B, z, T, q) /\ Dense(f, B, z)
<1>1. PICK turn : /\ turn[0] = [hole |-> FindHole(m, First), writes |-> <<>>]
                  /\ \A n \in 1..MemorySize : turn[n] = Pack(m, turn[n - 1])
                  /\ Defrag(m) = Moving(turn[MemorySize].writes)
  BY Turns
<1>2. Laid(m, First, A, e, Sure) /\ First \in A /\ A \subseteq Nat /\ e \in Nat
      /\ e + 2 < MemorySize /\ \A x \in A : First <= x /\ x <= e
  BY DEF Keeps, Laid
<1>3. MemorySize \in Nat
  BY TableAssumption
<1>4. PackingOf(m, turn[0], 0, T)
  <2>1. turn[0].hole = FindHole(m, First) /\ turn[0].writes = <<>>
    BY <1>1
  <2>2. PICK h : h = FindHole(m, First) /\ Nearest(h, A, Holes(m), First, MemorySize - 2)
    BY <1>2, HoleOfTable
  <2>3. \A x \in A : x < MemorySize - 2 /\ (x \in Holes(m) <=> KeyLength(m, x) = 0)
    <3> SUFFICES ASSUME NEW x \in A PROVE x < MemorySize - 2
      BY <1>2, EndsOfTable
    <3>1. x \in Nat /\ x <= e
      BY <1>2
    <3> QED BY <1>2, <1>3, <3>1
  <2>4. HoleAt(m, A, e, h, 0)
    <3>1. CASE h = None
      <4>1. Dense(m, A, e)
        BY <1>2, <2>2, <2>3, <3>1 DEF Dense, Nearest
      <4> QED BY <3>1, <4>1 DEF HoleAt
    <3>2. CASE h # None
      <4>1. h \in A /\ KeyLength(m, h) = 0
        BY <2>2, <2>3, <3>2 DEF Nearest
      <4>2. 0 < h /\ h \in Nat
        BY <1>2, <4>1 DEF First
      <4>3. ASSUME NEW x \in A, x < h, KeyLength(m, x) = 0 PROVE FALSE
        <5>1. h <= x /\ x \in Nat
          BY <1>2, <2>2, <2>3, <4>3 DEF Nearest
        <5> QED BY <4>2, <4>3, <5>1
      <4> QED BY <3>2, <4>1, <4>2, <4>3 DEF HoleAt
    <3> QED BY <3>1, <3>2
  <2>5. Applied(m, <<>>) = m /\ <<>> \in Seq(Writes)
    BY AppliedNone, EmptySeq
  <2> QED BY <2>1, <2>2, <2>4, <2>5 DEF PackingOf
<1> DEFINE Other == {n \in 0..MemorySize : ~ PackingOf(m, turn[n], n, T)}
<1>5. ASSUME Other # {} PROVE FALSE
  <2>1. PICK n \in Other : \A i \in Other : n <= i
    BY <1>3, <1>5, SmallestUpTo
  <2>2. /\ n \in 1..MemorySize /\ n - 1 \in 0..MemorySize /\ n - 1 \notin Other
        /\ n - 1 \in Nat /\ (n - 1) + 1 = n
    BY <1>3, <1>4, <2>1
  <2>3. PackingOf(m, turn[n - 1], n - 1, T)
    BY <2>2
  <2>4. PackingOf(m, Pack(m, turn[n - 1]), (n - 1) + 1, T)
    BY <2>2, <2>3, KeepStep
  <2> QED BY <1>1, <2>1, <2>2, <2>4
<1>6. PackingOf(m, turn[MemorySize], MemorySize, T)
  BY <1>3, <1>5
<1>7. PICK ws \in Seq(Writes) : ws = turn[MemorySize].writes
  BY <1>6 DEF PackingOf
<1>8. PICK B, z, q : /\ Keeps(Applied(m, ws), B, z, T, q)
                     /\ HoleAt(Applied(m, ws), B, z, turn[MemorySize].hole, MemorySize)
  BY <1>6, <1>7 DEF PackingOf
<1>9. Defrag(m) \in Seq(Writes) /\ f = Applied(m, ws)
  BY <1>1, <1>7, AppliedMoving
<1>10. turn[MemorySize].hole = None
  <2> SUFFICES ASSUME turn[MemorySize].hole # None PROVE FALSE
    OBVIOUS
  <2>1. PICK h \in B : MemorySize < h
    BY <1>8 DEF HoleAt
  <2>2. h \in Nat /\ z \in Nat /\ h <= z /\ z + 2 < MemorySize
    BY <1>8 DEF Keeps, Laid
  <2> QED BY <1>3, <2>1, <2>2
<1>11. Dense(f, B, z)
  BY <1>8, <1>9, <1>10 DEF HoleAt
<1> QED BY <1>8, <1>9, <1>11, AppliedType

----------------------------------------------------------------------------
(* The storage is the table of KvMap.                                        *)

Holds(m, T) == m \in Memory /\ \E A, e, p : Keeps(m, A, e, T, p)

LEMMA HoldsContents == ASSUME NEW m, NEW T, Holds(m, T) PROVE Contents[m] = T
BY ContentsKept DEF Holds

LEMMA HoldsTable ==
    ASSUME NEW m, NEW T, Holds(m, T)
    PROVE  DOMAIN T \subseteq Key /\ T = [k \in DOMAIN T |-> T[k]]
BY DEF Holds, Keeps

\* A store of k worth v in T answers ok and leaves U.
StoreLeaves(ok, U, T, k, v) ==
    \/ ok = TRUE /\ U = KeyTable!With(T, k, v) /\ KeyTable!Fits(KeyTable!With(T, k, v))
    \/ ok = FALSE /\ U = KeyTable!Without(T, k) /\ ~ KeyTable!Fits(KeyTable!With(T, k, v))

LEMMA StoredIsStore ==
    ASSUME NEW ok, NEW U, NEW T, NEW k, NEW v, StoreLeaves(ok, U, T, k, v)
    PROVE  <<ok, U>> = KeyTable!Store(T, k, v)
BY DEF StoreLeaves, KeyTable!Store

\* Only what the other keys are worth matters to a store.
LEMMA WithAfterWithout ==
    ASSUME NEW T, NEW k, NEW v, NEW S, S = KeyTable!Without(T, k)
    PROVE  /\ KeyTable!With(S, k, v) = KeyTable!With(T, k, v)
           /\ KeyTable!Without(S, k) = S /\ k \notin DOMAIN S
<1>1. DOMAIN S = DOMAIN T \ {k} /\ \A j \in DOMAIN T \ {k} : S[j] = T[j]
  BY DEF KeyTable!Without
<1>2. S = [j \in DOMAIN T \ {k} |-> T[j]]
  BY DEF KeyTable!Without
<1>3. DOMAIN S \cup {k} = DOMAIN T \cup {k} /\ DOMAIN S \ {k} = DOMAIN T \ {k}
  BY <1>1
<1>4. KeyTable!With(S, k, v) = KeyTable!With(T, k, v)
  BY <1>1, <1>3 DEF KeyTable!With
<1>5. KeyTable!Without(S, k) = S
  BY <1>1, <1>2, <1>3 DEF KeyTable!Without
<1> QED BY <1>1, <1>4, <1>5

LEMMA WithoutNothing ==
    ASSUME NEW T, NEW k, T = [j \in DOMAIN T |-> T[j]], k \notin DOMAIN T
    PROVE  KeyTable!Without(T, k) = T
<1>1. DOMAIN T \ {k} = DOMAIN T
  OBVIOUS
<1> QED BY <1>1 DEF KeyTable!Without

LEMMA AppendItemKeeps ==
    ASSUME NEW m, NEW T, Holds(m, T), NEW k \in Key, k \notin DOMAIN T, NEW v \in Value,
           NEW r, r = AppendItem(m, k, v)
    PROVE  /\ r.writes \in Seq(Writes)
           /\ \E U : Holds(Applied(m, r.writes), U) /\ StoreLeaves(r.ok, U, T, k, v)
<1>0. m \in Memory
  BY DEF Holds
<1>1. PICK A, e, p : Keeps(m, A, e, T, p)
  BY DEF Holds
<1>2. Laid(m, First, A, e, Sure) /\ First \in A
  BY <1>1 DEF Keeps, Laid
<1>3. FindEnd(m, First) = e /\ e # None
  BY <1>0, <1>2, EndOfTable, NoneIsNoAddress DEF Laid
<1>4. PICK ds \in Seq(Writes), f \in Memory : ds = Defrag(m) /\ f = Applied(m, ds)
  BY <1>0, <1>1, DefragKeeps
<1>5. PICK B, z, q : Keeps(f, B, z, T, q) /\ Dense(f, B, z)
  BY <1>0, <1>1, <1>4, DefragKeeps
<1>6. FindEnd(f, First) = z
  <2>1. Laid(f, First, B, z, Sure) /\ First \in B
    BY <1>5 DEF Keeps, Laid
  <2> QED BY <2>1, EndOfTable
<1>7. r = IF Fits(e, k, v) THEN [ok |-> TRUE, writes |-> AppendAt(e, k, v)]
          ELSE IF Fits(z, k, v) THEN [ok |-> TRUE, writes |-> ds \o AppendAt(z, k, v)]
          ELSE [ok |-> FALSE, writes |-> ds]
  BY <1>3, <1>4, <1>6 DEF AppendItem
<1>8. PICK U : U = KeyTable!With(T, k, v)
  OBVIOUS
<1>9. CASE Fits(e, k, v)
  <2>1. PICK ws, g : ws = AppendAt(e, k, v) /\ g = Applied(m, ws)
    OBVIOUS
  <2>2. ws \in Seq(Writes) /\ g \in Memory /\ \E C, y, s : Keeps(g, C, y, U, s)
    BY <1>0, <1>1, <1>8, <1>9, <2>1, AppendKeeps
  <2>3. KeyTable!Fits(U)
    BY <2>2, KeptFits
  <2>4. r.ok = TRUE /\ r.writes = ws
    BY <1>7, <1>9, <2>1
  <2> QED BY <1>8, <2>1, <2>2, <2>3, <2>4 DEF Holds, StoreLeaves
<1>10. CASE ~ Fits(e, k, v) /\ Fits(z, k, v)
  <2>1. PICK ws, g : ws = AppendAt(z, k, v) /\ g = Applied(f, ws)
    OBVIOUS
  <2>2. ws \in Seq(Writes) /\ g \in Memory /\ \E C, y, s : Keeps(g, C, y, U, s)
    BY <1>5, <1>8, <1>10, <2>1, AppendKeeps
  <2>3. KeyTable!Fits(U)
    BY <2>2, KeptFits
  <2>4. r.ok = TRUE /\ r.writes = ds \o ws
    BY <1>7, <1>10, <2>1
  <2>5. Applied(m, ds \o ws) = g /\ ds \o ws \in Seq(Writes)
    BY <1>4, <2>1, <2>2, AppliedConcat
  <2> QED BY <1>8, <2>2, <2>3, <2>4, <2>5 DEF Holds, StoreLeaves
<1>11. CASE ~ Fits(e, k, v) /\ ~ Fits(z, k, v)
  <2>1. ~ KeyTable!Fits(U)
    BY <1>5, <1>8, <1>11, DenseFull
  <2>2. r.ok = FALSE /\ r.writes = ds
    BY <1>7, <1>11
  <2>3. KeyTable!Without(T, k) = T
    BY HoldsTable, WithoutNothing
  <2>4. StoreLeaves(r.ok, T, T, k, v)
    BY <1>8, <2>1, <2>2, <2>3 DEF StoreLeaves
  <2> QED BY <1>4, <1>5, <2>2, <2>4 DEF Holds
<1> QED BY <1>9, <1>10, <1>11

LEMMA StoreItemKeeps ==
    ASSUME NEW m, NEW T, Holds(m, T), NEW k \in Key, NEW v \in Value,
           NEW r, r = StoreItem(m, k, v)
    PROVE  /\ r.writes \in Seq(Writes)
           /\ \E U : Holds(Applied(m, r.writes), U) /\ StoreLeaves(r.ok, U, T, k, v)
<1>0. m \in Memory
  BY DEF Holds
<1>1. PICK A, e, p : Keeps(m, A, e, T, p)
  BY DEF Holds
<1>2. PICK x : x = ItemOf(m, k) /\ x = IF k \in DOMAIN T THEN p[k] ELSE None
  BY <1>0, <1>1, ContentsKept
<1>3. CASE k \notin DOMAIN T
  <2>1. r = AppendItem(m, k, v)
    BY <1>2, <1>3 DEF StoreItem
  <2> QED BY <1>3, <2>1, AppendItemKeeps
<1>4. CASE k \in DOMAIN T
  <2>1. x = p[k] /\ x # None
    <3>1. p[k] \in Nat
      BY <1>0, <1>1, <1>4, PlaceOf
    <3> QED BY <1>2, <1>4, <3>1, NoneIsNoAddress
  <2>2. CASE FullLength(m, x) = ItemSize(k, v)
    <3>1. PICK ws, f : ws = WriteItem(x, k, v) /\ f = Applied(m, ws)
      OBVIOUS
    <3>2. PICK U : U = KeyTable!With(T, k, v)
      OBVIOUS
    <3>3. ws \in Seq(Writes) /\ f \in Memory /\ \E s : Keeps(f, A, e, U, s)
      BY <1>0, <1>1, <1>4, <2>1, <2>2, <3>1, <3>2, RewriteKeeps
    <3>4. KeyTable!Fits(U)
      BY <3>3, KeptFits
    <3>5. r.ok = TRUE /\ r.writes = ws
      BY <1>2, <2>1, <2>2, <3>1 DEF StoreItem
    <3> QED BY <3>1, <3>2, <3>3, <3>4, <3>5 DEF Holds, StoreLeaves
  <2>3. CASE FullLength(m, x) # ItemSize(k, v)
    <3>1. PICK hs, h : hs = WriteHole(x, FullLength(m, x)) /\ h = Applied(m, hs)
      OBVIOUS
    <3>2. PICK S : S = KeyTable!Without(T, k)
      OBVIOUS
    <3>3. hs \in Seq(Writes) /\ Holds(h, S)
      BY <1>0, <1>1, <1>4, <2>1, <3>1, <3>2, HoleKeeps DEF Holds
    <3>4. PICK a : a = AppendItem(h, k, v)
      OBVIOUS
    <3>5. KeyTable!With(S, k, v) = KeyTable!With(T, k, v) /\ KeyTable!Without(S, k) = S
          /\ k \notin DOMAIN S
      BY <3>2, WithAfterWithout
    <3>6. a.writes \in Seq(Writes)
      BY <3>3, <3>4, <3>5, AppendItemKeeps
    <3>7. PICK U : Holds(Applied(h, a.writes), U) /\ StoreLeaves(a.ok, U, S, k, v)
      BY <3>3, <3>4, <3>5, AppendItemKeeps
    <3>8. StoreLeaves(a.ok, U, T, k, v)
      BY <3>2, <3>5, <3>7 DEF StoreLeaves
    <3>9. r = [a EXCEPT !.writes = hs \o @]
      BY <1>2, <2>1, <2>3, <3>1, <3>4 DEF StoreItem
    <3>10. a = [ok |-> a.ok, writes |-> a.writes]
      BY <3>4, Zenon DEF AppendItem
    <3>11. r.ok = a.ok /\ r.writes = hs \o a.writes
      BY <3>9, <3>10
    <3>12. Applied(m, hs \o a.writes) = Applied(h, a.writes) /\ hs \o a.writes \in Seq(Writes)
      BY <3>1, <3>3, <3>6, AppliedConcat
    <3> QED BY <3>7, <3>8, <3>11, <3>12
  <2> QED BY <2>2, <2>3
<1> QED BY <1>3, <1>4

\* What a deletion leaves to write.
Deletion(m, k) ==
    LET a == ItemOf(m, k) IN IF a = None THEN <<>> ELSE WriteHole(a, FullLength(m, a))

LEMMA DeletionKeeps ==
    ASSUME NEW m, NEW T, Holds(m, T), NEW k \in Key
    PROVE  /\ Holds(Applied(m, Deletion(m, k)), KeyTable!Without(T, k))
           /\ (ItemOf(m, k) # None) = (k \in DOMAIN T)
<1>0. m \in Memory
  BY DEF Holds
<1>1. PICK A, e, p : Keeps(m, A, e, T, p)
  BY DEF Holds
<1>2. PICK x : x = ItemOf(m, k) /\ x = IF k \in DOMAIN T THEN p[k] ELSE None
  BY <1>0, <1>1, ContentsKept
<1>3. CASE k \notin DOMAIN T
  <2>1. Deletion(m, k) = <<>> /\ x = None
    BY <1>2, <1>3 DEF Deletion
  <2>2. Applied(m, Deletion(m, k)) = m
    BY <2>1, AppliedNone
  <2>3. KeyTable!Without(T, k) = T
    BY <1>3, HoldsTable, WithoutNothing
  <2> QED BY <1>2, <1>3, <2>1, <2>2, <2>3
<1>4. CASE k \in DOMAIN T
  <2>1. x = p[k] /\ x # None
    <3>1. p[k] \in Nat
      BY <1>0, <1>1, <1>4, PlaceOf
    <3> QED BY <1>2, <1>4, <3>1, NoneIsNoAddress
  <2>2. Deletion(m, k) = WriteHole(p[k], FullLength(m, p[k]))
    BY <1>2, <2>1 DEF Deletion
  <2>3. Holds(Applied(m, Deletion(m, k)), KeyTable!Without(T, k))
    BY <1>0, <1>1, <1>4, <2>2, HoleKeeps DEF Holds
  <2> QED BY <1>2, <1>4, <2>1, <2>3
<1> QED BY <1>3, <1>4

----------------------------------------------------------------------------
\* With what is left to write the memory holds a table, as long as no crash has touched it.
TableInv == trusted => \E T : Holds(Applied(mem, writes), T)

LEMMA TableStarts == StorageInit => TableInv /\ KeyTable!Init
<1> SUFFICES ASSUME StorageInit PROVE TableInv /\ KeyTable!Init
  OBVIOUS
<1>1. PICK b \in Byte : mem = Applied([a \in 0..(MemorySize - 1) |-> b], Format)
  BY TableAssumption DEF StorageInit
<1>2. PICK m : m = [a \in 0..(MemorySize - 1) |-> b]
  OBVIOUS
<1>3. m \in Memory
  BY <1>2 DEF Memory
<1>4. Holds(mem, KeyTable!Empty)
  BY <1>1, <1>2, <1>3, FormatKeeps DEF Holds
<1>5. writes = <<>> /\ answer = TRUE /\ crashes = 0 /\ trusted = TRUE
  BY DEF StorageInit
<1>6. Applied(mem, writes) = mem
  BY <1>5, AppliedNone
<1>7. Contents[Applied(mem, writes)] = KeyTable!Empty
  BY <1>4, <1>6, HoldsContents
<1> QED BY <1>4, <1>5, <1>6, <1>7 DEF TableInv, KeyTable!Init

LEMMA TableSteps ==
    ASSUME StorageInv, TableInv, [StorageNext]_storageVars
    PROVE  TableInv' /\ [KeyTable!Next]_KeyTable!vars
<1>0. mem \in Memory /\ writes \in Seq(Writes)
  BY DEF StorageInv, MakesTable
<1>1. PICK t, new : t = Contents[Applied(mem, writes)] /\ new = Contents[Applied(mem, writes)]'
  OBVIOUS
<1>2. ASSUME KeyTable!Operation(t, new) \/ KeyTable!Crash(new)
                \/ (new = t /\ UNCHANGED <<answer, crashes, trusted>>)
      PROVE  KeyTable!Next
  BY <1>1, <1>2 DEF KeyTable!Next
<1>3. ASSUME writes = <<>>, trusted PROVE Holds(mem, t)
  <2>1. PICK T : Holds(mem, T)
    BY <1>3, AppliedNone DEF TableInv
  <2>2. t = T
    BY <1>1, <1>3, <2>1, AppliedNone, HoldsContents
  <2> QED BY <2>1, <2>2
<1>4. ASSUME NEW k \in Key, NEW v \in Value, storageStore(k, v)
      PROVE  TableInv' /\ KeyTable!Next
  <2>1. PICK s : s = StoreItem(mem, k, v)
    OBVIOUS
  <2>2. writes = <<>> /\ writes' = s.writes /\ answer' = s.ok /\ mem' = mem
        /\ crashes' = crashes /\ trusted' = trusted
    BY <1>4, <2>1 DEF storageStore
  <2>3. CASE ~ trusted
    <3>1. KeyTable!Operation(t, new)
      BY <2>2, <2>3 DEF KeyTable!Operation
    <3> QED BY <1>2, <2>2, <2>3, <3>1 DEF TableInv
  <2>4. CASE trusted
    <3>1. Holds(mem, t)
      BY <1>3, <2>2, <2>4
    <3>2. PICK U : Holds(Applied(mem, s.writes), U) /\ StoreLeaves(s.ok, U, t, k, v)
      BY <2>1, <3>1, StoreItemKeeps
    <3>3. Holds(Applied(mem', writes'), U)
      BY <2>2, <3>2
    <3>4. new = U
      BY <1>1, <3>3, HoldsContents
    <3>5. <<answer', new>> = KeyTable!Store(t, k, v)
      BY <2>2, <3>2, <3>4, StoredIsStore
    <3>6. KeyTable!Operation(t, new)
      BY <2>2, <3>5 DEF KeyTable!Operation, KeyTable!Outcomes
    <3> QED BY <1>2, <3>3, <3>6 DEF TableInv
  <2> QED BY <2>3, <2>4
<1>5. ASSUME NEW k \in Key, storageDelete(k) PROVE TableInv' /\ KeyTable!Next
  <2>1. writes = <<>> /\ writes' = Deletion(mem, k) /\ answer' = (ItemOf(mem, k) # None)
        /\ mem' = mem /\ crashes' = crashes /\ trusted' = trusted
    BY <1>5 DEF storageDelete, Deletion
  <2>2. CASE ~ trusted
    <3>1. KeyTable!Operation(t, new)
      BY <2>1, <2>2 DEF KeyTable!Operation
    <3> QED BY <1>2, <2>1, <2>2, <3>1 DEF TableInv
  <2>3. CASE trusted
    <3>1. Holds(mem, t)
      BY <1>3, <2>1, <2>3
    <3>2. Holds(Applied(mem, Deletion(mem, k)), KeyTable!Without(t, k))
          /\ (ItemOf(mem, k) # None) = (k \in DOMAIN t)
      BY <3>1, DeletionKeeps
    <3>3. Holds(Applied(mem', writes'), KeyTable!Without(t, k))
      BY <2>1, <3>2
    <3>4. new = KeyTable!Without(t, k)
      BY <1>1, <3>3, HoldsContents
    <3>5. <<answer', new>> = KeyTable!Delete(t, k)
      BY <2>1, <3>2, <3>4 DEF KeyTable!Delete
    <3>6. KeyTable!Operation(t, new)
      BY <2>1, <3>5 DEF KeyTable!Operation, KeyTable!Outcomes
    <3> QED BY <1>2, <3>3, <3>6 DEF TableInv
  <2> QED BY <2>2, <2>3
<1>6. ASSUME DoWrite PROVE TableInv' /\ KeyTable!Next
  <2>1. /\ writes # <<>> /\ mem' = Put(mem, Head(writes)) /\ writes' = Tail(writes)
        /\ UNCHANGED <<answer, crashes, trusted>>
    BY <1>6 DEF DoWrite
  <2>2. Applied(mem', writes') = Applied(mem, writes)
    BY <1>0, <2>1, AppliedHead
  <2>3. new = t
    BY <1>1, <2>2
  <2> QED BY <1>2, <2>1, <2>2, <2>3 DEF TableInv
<1>7. ASSUME Crash PROVE TableInv' /\ KeyTable!Next
  <2>1. /\ crashes' = crashes + 1 /\ mem' = mem
        /\ writes' = IF Check(mem) THEN <<>> ELSE Format
        /\ trusted' = ~ Check(mem)
    BY <1>7 DEF Crash
  <2>2. CASE Check(mem)
    BY <1>2, <2>1, <2>2 DEF TableInv, KeyTable!Crash
  <2>3. CASE ~ Check(mem)
    <3>1. Holds(Applied(mem, Format), KeyTable!Empty)
      BY <1>0, FormatKeeps DEF Holds
    <3>2. Holds(Applied(mem', writes'), KeyTable!Empty)
      BY <2>1, <2>3, <3>1
    <3>3. new = KeyTable!Empty
      BY <1>1, <3>2, HoldsContents
    <3> QED BY <1>2, <2>1, <3>2, <3>3 DEF TableInv, KeyTable!Crash
  <2> QED BY <2>2, <2>3
<1>8. ASSUME UNCHANGED storageVars PROVE TableInv' /\ UNCHANGED KeyTable!vars
  <2>1. mem' = mem /\ writes' = writes /\ answer' = answer /\ crashes' = crashes
        /\ trusted' = trusted
    BY <1>8 DEF storageVars
  <2> QED BY <2>1 DEF TableInv, KeyTable!vars
<1> QED BY <1>4, <1>5, <1>6, <1>7, <1>8 DEF StorageNext

\* The table of the memory is the one the interface promises, whatever the keys, the values,
\* the sizes and the bytes of the memory: with what the operation under way has left to write
\* done, a store and a deletion have changed their key and no other, wherever the packing has
\* moved it, a store fails only when the table would not fit, and a start after a crash finds
\* what it finds or an empty table (kve.c, kve_storage.c, storage.c).
THEOREM StorageIsATable == StorageSpec => IsATable
BY TableStarts, TableSteps, StorageStarts, StorageSteps, PTL
   DEF StorageSpec, IsATable, KeyTable!Spec

\* The same of the storage next to the log service.
THEOREM ServicesIsATable == ServicesSpec => IsATable
<1>1. ServicesInit => StorageInv /\ TableInv /\ KeyTable!Init
  BY StorageStarts, TableStarts DEF ServicesInit
<1>2. [ServicesNext]_servicesVars => [StorageNext]_storageVars
  BY DEF ServicesNext, InLog, InPool, servicesVars
<1> QED BY <1>1, <1>2, StorageSteps, TableSteps, PTL
        DEF ServicesSpec, IsATable, KeyTable!Spec

\* And the log service next to the storage keeps the client's table, until a command is
\* taken in the middle of a worker's reset (logTask, logReset).
THEOREM ServicesKeepTheTable == ServicesSpec => KeepsTheTable
<1>1. ServicesInit => ListInv /\ RecordsInv /\ Table!Init
  BY InitRecords DEF ServicesInit
<1>2. [ServicesNext]_servicesVars => [Next]_vars
  <2>1. OneBlock \subseteq Requests /\ TwoBlocks \subseteq Requests
    BY CommandsAssumption
  <2> QED BY <2>1 DEF ServicesNext, InLog, InPool, servicesVars, Next, Serve
<1>3. LogInv /\ LogInv' /\ ListInv /\ RecordsInv /\ [Next]_vars
        => ListInv' /\ RecordsInv' /\ [entered' \/ Table!Next]_(Table!vars)
  BY StepList, StepRecords DEF LogInv
<1> QED BY <1>1, <1>2, <1>3, ServicesInvariant, PTL
        DEF ServicesSpec, KeepsTheTable
=============================================================================
