------------------------------ MODULE LogTable ------------------------------
(* What the log service (modules/src/log.c) is to its client: a table of     *)
(* blocks, each a list of variables. A list is taken as far as it fits the   *)
(* packet and the pool; what was taken before an error stays.                *)
EXTENDS Integers, Sequences, FiniteSets, FiniteSetsExt

CONSTANTS Id, Lists, Known, TypeLength(_), MaxBlocks, MaxOps, MaxLength

VARIABLES table, answer

vars == <<table, answer>>

Empty == [i \in {} |-> <<>>]

\* The bytes of the packet, and the variables in the pool.
Bytes(list) == UNION {{n} \X (1..TypeLength(list[n])) : n \in DOMAIN list}
Size(list) == Cardinality(Bytes(list))
Used(t) == Cardinality(UNION {{i} \X DOMAIN t[i] : i \in DOMAIN t})

With(t, i, list) == [j \in DOMAIN t \cup {i} |-> IF j = i THEN list ELSE t[j]]

\* The first n variables of the list can be added to block i.
Fits(t, i, list, n) ==
    /\ Size(t[i] \o SubSeq(list, 1, n)) <= MaxLength
    /\ Used(t) + n <= MaxOps
    /\ \A j \in 1..n : list[j] \in Known

\* What a command for block i of table t answers, and the table it leaves.
Created(t, i) ==
    IF i \in DOMAIN t THEN <<"EEXIST", t>>
    ELSE IF Cardinality(DOMAIN t) = MaxBlocks THEN <<"ENOMEM", t>>
    ELSE <<"none", With(t, i, <<>>)>>      \* and goes on to its list

Extended(t, i, list) ==
    LET n == Max({m \in 0..Len(list) : Fits(t, i, list, m)})
    IN  <<IF n = Len(list) THEN "ok"
          ELSE IF Size(t[i] \o SubSeq(list, 1, n + 1)) > MaxLength THEN "E2BIG"
          ELSE IF Used(t) + n = MaxOps THEN "ENOMEM"
          ELSE "ENOENT",
          With(t, i, t[i] \o SubSeq(list, 1, n))>>

Deleted(t, i) == <<"ok", [j \in DOMAIN t \ {i} |-> t[j]]>>

Outcomes(t) ==
    {Created(t, i) : i \in Id}
        \cup {Extended(t, i, list) : i \in DOMAIN t, list \in Lists}
        \cup {Deleted(t, i) : i \in DOMAIN t}
        \cup {<<"ok", t>> : i \in DOMAIN t}         \* started, stopped
        \cup {<<"ENOENT", t>> : i \in Id \ DOMAIN t}
        \cup {<<"ok", Empty>>}                      \* reset by the client
        \cup {<<"none", t>>}                        \* the answer is sent

Init == table = Empty /\ answer = "none"

\* Steps from table t to table new; the first is a stutter. A lost link may come before
\* the answer to a command has been sent.
Next ==
    \E t \in {table}, new \in {table'} :
        \/ new = t /\ UNCHANGED answer
        \/ new = Empty /\ UNCHANGED answer
        \/ <<answer', new>> \in Outcomes(t)

Spec == Init /\ [][Next]_vars
=============================================================================
