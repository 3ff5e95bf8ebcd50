------------------------------- MODULE KvMap -------------------------------
(* What hal/interface/storage.h promises: a table of keys and values. A store *)
(* fails for one reason only, that the table would not fit the memory, and   *)
(* the value it was to replace is then gone. A loss of power may cost        *)
(* anything; the start after it keeps what it finds or starts empty.         *)
EXTENDS Integers, Sequences, FiniteSets

CONSTANTS Key, Value, MemorySize

VARIABLES table, answer, crashes, trusted

vars == <<table, answer, crashes, trusted>>

Empty == [k \in {} |-> <<>>]

\* A header of three bytes, the key and the value.
ItemSize(k, v) == 3 + Len(k) + Len(v)

\* The bytes of the items.
Occupied(t) == UNION {{k} \X (1..ItemSize(k, t[k])) : k \in DOMAIN t}

\* The version byte comes first, and the two bytes of the end tag stay free.
Fits(t) == 1 + Cardinality(Occupied(t)) + 2 < MemorySize

Without(t, k) == [j \in DOMAIN t \ {k} |-> t[j]]
With(t, k, v) == [j \in DOMAIN t \cup {k} |-> IF j = k THEN v ELSE t[j]]

Init == table = Empty /\ answer = TRUE /\ crashes = 0 /\ trusted = TRUE

\* What a store and a deletion answer, and the table they leave of t.
Store(t, k, v) ==
    LET new == With(t, k, v) IN
    IF Fits(new) THEN <<TRUE, new>> ELSE <<FALSE, Without(t, k)>>

Delete(t, k) == <<k \in DOMAIN t, Without(t, k)>>

Outcomes(t) ==
    {Store(t, k, v) : k \in Key, v \in Value} \cup {Delete(t, k) : k \in Key}

Operation(t, new) ==
    /\ UNCHANGED <<crashes, trusted>>
    /\ trusted => <<answer', new>> \in Outcomes(t)

\* The start after a crash keeps a table that has an end, whatever it holds.
Crash(new) ==
    /\ crashes' = crashes + 1
    /\ trusted' => new = Empty

\* Steps from table t to table new; the first is a stutter.
Next ==
    \E t \in {table}, new \in {table'} :
        \/ new = t /\ UNCHANGED <<answer, crashes, trusted>>
        \/ Operation(t, new)
        \/ Crash(new)

Spec == Init /\ [][Next]_vars
=============================================================================
