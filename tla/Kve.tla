-------------------------------- MODULE Kve --------------------------------
(* The key-value table of the EEPROM (utils/src/kve), byte by byte, and the  *)
(* storage service over it. An operation decides what it will write from the *)
(* memory it finds; each write of the memory is a step, and power may go     *)
(* between two of them. storageMutex keeps operations apart.                 *)
EXTENDS Integers, SequencesExt

CONSTANTS
    Key, Value,     \* non-empty sequences of bytes, and sequences of bytes
    MemorySize,     \* KVE_PARTITION_LENGTH
    Chunk,          \* the bytes of moveBuffer
    Erased,         \* the bytes a memory may hold that was never written
    MaxCrashes

Byte == 0..255
EndTag == 65535

ASSUME TableAssumption ==
    /\ Key # {} /\ \A k \in Key : k \in Seq(Byte) /\ 1 <= Len(k) /\ Len(k) <= 255
    /\ \A v \in Value : v \in Seq(Byte)
    /\ MemorySize \in Nat /\ 4 <= MemorySize /\ MemorySize <= EndTag
    /\ Chunk \in Nat \ {0}
    /\ Erased \subseteq Byte /\ MaxCrashes \in Nat

VARIABLES
    mem,            \* the bytes of the partition
    writes,         \* what the operation under way has left to write
    answer,         \* what the last operation returns
    crashes,
    trusted         \* no crash since the table was formatted

storageVars == <<mem, writes, answer, crashes, trusted>>

None == -1
First == 1          \* FIRST_ITEM_ADDRESS, after the version

FullLength(m, a) == m[a] + 256 * m[a + 1]
KeyLength(m, a) == m[a + 2]
Bytes(m, a, n) == [i \in 1..n |-> m[a + i - 1]]

----------------------------------------------------------------------------
\* Walks through the table (kve_storage.c), from one item to the next.
Headers == 0..(MemorySize - 3)
Ends(m) == {a \in Headers : FullLength(m, a) = EndTag}
Broken(m) == {a \in Headers : FullLength(m, a) < 4}
Holes(m) == {a \in Headers : KeyLength(m, a) = 0}
Holding(m, k) ==
    {a \in Headers : KeyLength(m, a) = Len(k) /\ Bytes(m, a + 3, Len(k)) = k}

\* The first address of S that the walk from a comes to below the limit.
Walk(m, a, limit, S) ==
    LET from[x \in Nat] ==
            IF x >= limit THEN None ELSE IF x \in S THEN x ELSE from[x + FullLength(m, x)]
    IN  from[a]

FindEnd(m, a) ==
    LET x == Walk(m, a, MemorySize - 2, Ends(m) \cup Broken(m))
    IN  IF x \in Ends(m) THEN x ELSE None

\* The end tag is not looked for: a zero after it makes it look like a hole.
FindHole(m, a) == Walk(m, a, MemorySize - 2, Holes(m))

\* The other two walks stop at the end tag, and a byte earlier.
BeforeEnd(m, a, S) ==
    LET x == Walk(m, a, MemorySize - 3, Ends(m) \cup S)
    IN  IF x \in Ends(m) THEN None ELSE x

FindNextItem(m, a) ==
    IF a \in Ends(m) THEN None
    ELSE BeforeEnd(m, a + FullLength(m, a), Headers \ Holes(m))
FindItemByKey(m, a, k) == BeforeEnd(m, a, Holding(m, k))

ItemOf(m, k) == FindItemByKey(m, First, k)
Fetch(m, k) ==
    LET a == ItemOf(m, k) IN Bytes(m, a + 3 + Len(k), FullLength(m, a) - 3 - Len(k))

\* What the keys are worth in the memory m.
Memory == [0..(MemorySize - 1) -> Byte]
Contents[m \in Memory] == [k \in {j \in Key : ItemOf(m, j) # None} |-> Fetch(m, k)]

----------------------------------------------------------------------------
\* Writes, in the order they reach the memory.
Write(a, bytes) == [at |-> a, bytes |-> bytes, moving |-> FALSE]
Header(n, keyLength) == <<n % 256, n \div 256, keyLength>>
ItemSize(k, v) == 3 + Len(k) + Len(v)

WriteItem_EndFirst(a, k, v) ==   \* mutant: the item is taken out before it is written
    <<Write(a, <<255, 255>>), Write(a + 3, k), Write(a + 3 + Len(k), v),
      Write(a, Header(ItemSize(k, v), Len(k)))>>
WriteItem(a, k, v) ==
    <<Write(a, Header(ItemSize(k, v), Len(k))), Write(a + 3, k), Write(a + 3 + Len(k), v)>>
WriteHole(a, n) == <<Write(a, Header(n, 0))>>
WriteEnd(a) == <<Write(a, <<255, 255>>)>>
Format == <<Write(0, <<1>>)>> \o WriteEnd(First)

Put(m, w) ==
    [a \in DOMAIN m |->
        IF a \in w.at..(w.at + Len(w.bytes) - 1) THEN w.bytes[a - w.at + 1] ELSE m[a]]
Applied(m, ws) ==
    LET after[n \in 0..Len(ws)] == IF n = 0 THEN m ELSE Put(after[n - 1], ws[n])
    IN  after[Len(ws)]

\* A chunk is read after the one before is written; going down, neither meets the other.
MoveMemory(m, from, to, n) ==
    LET chunks[left \in 0..n] ==
            LET moving == IF left < Chunk THEN left ELSE Chunk
                o == n - left
            IN  IF left = 0 THEN <<>>
                ELSE <<Write(to + o, Bytes(m, from + o, moving))>> \o chunks[left - moving]
    IN  chunks[n]

\* A turn of kveDefrag's loop, from what the turns before wrote and the hole they left.
Pack(m, d) ==
    LET now == Applied(m, d.writes)
        item == FindNextItem(now, d.hole)
        nextHole == FindHole(now, item)
        n == (IF nextHole = None THEN FindEnd(now, item) ELSE nextHole) - item
    IN  IF d.hole = None THEN d
        ELSE IF item = None THEN [hole |-> None, writes |-> d.writes \o WriteEnd(d.hole)]
        ELSE [hole |-> d.hole + n,
              writes |-> d.writes \o MoveMemory(now, item, d.hole, n)
                                  \o WriteHole(d.hole + n, item - d.hole)]

Moving(ws) == [i \in DOMAIN ws |-> [ws[i] EXCEPT !.moving = TRUE]]

\* Every turn moves an item, so that the memory bounds their number.
Defrag(m) ==
    LET turn[n \in 0..MemorySize] ==
            IF n = 0 THEN [hole |-> FindHole(m, First), writes |-> <<>>]
            ELSE Pack(m, turn[n - 1])
    IN  Moving(turn[MemorySize].writes)

Fits_NoEnd(a, k, v) == a + ItemSize(k, v) <= MemorySize   \* mutant: no room for the end tag
Fits(a, k, v) == a + ItemSize(k, v) + 2 < MemorySize
AppendAt(a, k, v) == WriteItem(a, k, v) \o WriteEnd(a + ItemSize(k, v))

\* appendItemToEnd: what it writes, and whether it succeeds.
AppendItem_NoDefrag(m, k, v) ==   \* mutant: a full table is not packed
    LET end == FindEnd(m, First)
    IN  IF end # None /\ Fits(end, k, v) THEN [ok |-> TRUE, writes |-> AppendAt(end, k, v)]
        ELSE [ok |-> FALSE, writes |-> <<>>]
AppendItem(m, k, v) ==
    LET end == FindEnd(m, First)
        packed == FindEnd(Applied(m, Defrag(m)), First)
    IN  IF end = None THEN [ok |-> FALSE, writes |-> <<>>]
        ELSE IF Fits(end, k, v) THEN [ok |-> TRUE, writes |-> AppendAt(end, k, v)]
        ELSE IF Fits(packed, k, v)
             THEN [ok |-> TRUE, writes |-> Defrag(m) \o AppendAt(packed, k, v)]
        ELSE [ok |-> FALSE, writes |-> Defrag(m)]

StoreItem(m, k, v) ==
    LET a == ItemOf(m, k)
        hole == WriteHole(a, FullLength(m, a))
        appended == AppendItem(Applied(m, hole), k, v)
    IN  IF a = None THEN AppendItem(m, k, v)
        ELSE IF FullLength(m, a) = ItemSize(k, v)
             THEN [ok |-> TRUE, writes |-> WriteItem(a, k, v)]
        ELSE [appended EXCEPT !.writes = hole \o @]

Check(m) == m[0] = 1 /\ FindEnd(m, First) # None

----------------------------------------------------------------------------
StorageInit ==
    /\ \E b \in Erased : mem = Applied([a \in 0..(MemorySize - 1) |-> b], Format)
    /\ writes = <<>> /\ answer = TRUE /\ crashes = 0 /\ trusted = TRUE

storageStore(k, v) ==
    /\ writes = <<>>
    /\ LET s == StoreItem(mem, k, v) IN writes' = s.writes /\ answer' = s.ok
    /\ UNCHANGED <<mem, crashes, trusted>>

storageDelete(k) ==
    /\ writes = <<>>
    /\ LET a == ItemOf(mem, k)
       IN  /\ answer' = (a # None)
           /\ writes' = IF a = None THEN <<>> ELSE WriteHole(a, FullLength(mem, a))
    /\ UNCHANGED <<mem, crashes, trusted>>

DoWrite ==
    /\ writes # <<>>
    /\ mem' = Put(mem, Head(writes))
    /\ writes' = Tail(writes)
    /\ UNCHANGED <<answer, crashes, trusted>>

\* Power goes, and storageTest formats at the next start what has no end.
Crash ==
    /\ crashes < MaxCrashes
    /\ crashes' = crashes + 1
    /\ writes' = IF Check(mem) THEN <<>> ELSE Format
    /\ trusted' = ~Check(mem)
    /\ UNCHANGED <<mem, answer>>

StorageNext ==
    \/ \E k \in Key, v \in Value : storageStore(k, v)
    \/ \E k \in Key : storageDelete(k)
    \/ DoWrite
    \/ Crash

StorageSpec == StorageInit /\ [][StorageNext]_storageVars

----------------------------------------------------------------------------
StorageTypeOK ==
    /\ mem \in Memory
    /\ \A i \in DOMAIN writes :
          writes[i].at \in Nat /\ writes[i].at + Len(writes[i].bytes) <= MemorySize
    /\ answer \in BOOLEAN /\ crashes \in 0..MaxCrashes /\ trusted \in BOOLEAN

(* The memory is a table: with what the operation under way has left to write *)
(* done, the walks find exactly the keys stored and not deleted, with their   *)
(* last value, whatever holes, moves and old bytes lie in between; a store    *)
(* fails only when the packed table would not fit.                            *)
KeyTable == INSTANCE KvMap WITH table <- Contents[Applied(mem, writes)]
IsATable == KeyTable!Spec

(* Power lost while an item is written, in its place or over the end of the  *)
(* table, after no crash before: a start that finds an end finds every other  *)
(* key with its value. It finds none, and formats the table with all its      *)
(* keys, only where the header of an appended item has gone over the end and  *)
(* the end after it is to come. (While memory is packed nothing is promised.) *)
CrashKeepsOthers ==
    trusted /\ writes # <<>> /\ (\A i \in DOMAIN writes : ~writes[i].moving) =>
        LET now == Contents[mem] IN LET then == Contents[Applied(mem, writes)] IN
        IF Check(mem)
        THEN \E k \in Key : \A j \in DOMAIN then \ {k} : j \in DOMAIN now /\ now[j] = then[j]
        ELSE Len(writes) <= 3 /\ Last(writes).bytes = <<255, 255>>
=============================================================================
