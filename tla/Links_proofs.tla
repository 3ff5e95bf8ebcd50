----------------------------- MODULE Links_proofs -----------------------------
(* Theorems about the sockets of the simulation, for any number of drones    *)
(* and of threads that serve a poll, and about both ways to a drone.         *)
EXTENDS MCLinks, CrtpLink_proofs, SequenceTheorems

\* Parts of an interval are finite.
LEMMA PartOfInterval ==
    ASSUME NEW x \in Int, NEW y \in Int, NEW S, S \subseteq x..y
    PROVE  IsFiniteSet(S)
BY FS_Interval, FS_Subset

\* The requests in a stream are finitely many.
LEMMA InformationsFinite ==
    ASSUME NEW E, NEW s \in Seq(E)
    PROVE  IsFiniteSet({k \in DOMAIN s : s[k] = GetInformation})
<1>1. {k \in DOMAIN s : s[k] = GetInformation} \subseteq 1..Len(s) /\ Len(s) \in Nat
  OBVIOUS
<1> QED BY <1>1, PartOfInterval

\* The controller reads the first n values and leaves the others.
LEMMA SplitStream ==
    ASSUME NEW E, NEW s \in Seq(E), NEW n \in 1..Len(s)
    PROVE  /\ SubSeq(s, 1, n) \in Seq(E) /\ DOMAIN SubSeq(s, 1, n) = 1..n
           /\ \A k \in 1..n : SubSeq(s, 1, n)[k] = s[k]
           /\ SubSeq(s, n + 1, Len(s)) \in Seq(E)
           /\ DOMAIN SubSeq(s, n + 1, Len(s)) = 1..(Len(s) - n)
           /\ \A k \in 1..(Len(s) - n) : SubSeq(s, n + 1, Len(s))[k] = s[n + k]
<1>1. /\ Len(s) \in Nat /\ n \in Nat /\ n <= Len(s) /\ 1 <= n /\ DOMAIN s = 1..Len(s)
      /\ 1 \in Int /\ n \in Int /\ n + 1 \in Int /\ Len(s) \in Int
      /\ \A i \in 1..n : s[i] \in E
      /\ \A i \in (n + 1)..Len(s) : s[i] \in E
  OBVIOUS
<1>2. /\ SubSeq(s, 1, n) \in Seq(E) /\ Len(SubSeq(s, 1, n)) = n
      /\ \A k \in 1..n : SubSeq(s, 1, n)[k] = s[k]
  <2>1. /\ SubSeq(s, 1, n) \in Seq(E)
        /\ Len(SubSeq(s, 1, n)) = IF 1 <= n THEN n - 1 + 1 ELSE 0
        /\ \A k \in 1..(n - 1 + 1) : SubSeq(s, 1, n)[k] = s[1 + k - 1]
    BY <1>1, SubSeqProperties
  <2>2. \A k \in 1..n : 1 + k - 1 = k
    BY <1>1
  <2>3. n - 1 + 1 = n
    BY <1>1, SMTT(30)
  <2> QED BY <1>1, <2>1, <2>2, <2>3
<1>3. /\ SubSeq(s, n + 1, Len(s)) \in Seq(E)
      /\ Len(SubSeq(s, n + 1, Len(s))) = Len(s) - n
      /\ \A k \in 1..(Len(s) - n) : SubSeq(s, n + 1, Len(s))[k] = s[n + k]
  <2> DEFINE m == n + 1
  <2>1. /\ SubSeq(s, m, Len(s)) \in Seq(E)
        /\ Len(SubSeq(s, m, Len(s))) = IF m <= Len(s) THEN Len(s) - m + 1 ELSE 0
        /\ \A k \in 1..(Len(s) - m + 1) : SubSeq(s, m, Len(s))[k] = s[m + k - 1]
    <3>1. m \in Int /\ \A i \in m..Len(s) : s[i] \in E
      BY <1>1
    <3> HIDE DEF m
    <3> QED BY <1>1, <3>1, SubSeqProperties
  <2>2. \A k \in 1..(Len(s) - n) : m + k - 1 = n + k
    BY <1>1
  <2>3. Len(s) - m + 1 = Len(s) - n /\ (m <= Len(s) \/ Len(s) - n = 0)
    <3>1. ASSUME NEW x \in Nat, NEW y \in Nat, y <= x
          PROVE  x - (y + 1) + 1 = x - y /\ (y + 1 <= x \/ x - y = 0)
      BY <3>1
    <3>2. Len(s) \in Nat /\ n \in Nat /\ n <= Len(s)
      BY <1>1
    <3> QED BY <3>1, <3>2
  <2> QED BY <1>1, <2>1, <2>2, <2>3
<1>4. \A t \in Seq(E) : DOMAIN t = 1..Len(t)
  OBVIOUS
<1>5. DOMAIN SubSeq(s, 1, n) = 1..n
  BY <1>2, <1>4
<1>6. DOMAIN SubSeq(s, n + 1, Len(s)) = 1..(Len(s) - n)
  BY <1>3, <1>4
<1> QED BY <1>2, <1>3, <1>5, <1>6

\* The requests in a stream.
LEMMA NoInformation == Informations(<<>>) = 0
<1>1. {k \in DOMAIN <<>> : <<>>[k] = GetInformation} = {}
  OBVIOUS
<1> QED BY <1>1, FS_EmptySet DEF Informations

\* Counting the requests of a stream.
LEMMA InformationsType ==
    ASSUME NEW E, NEW s \in Seq(E)
    PROVE  Informations(s) \in Nat
BY InformationsFinite, FS_CardinalityType DEF Informations

\* A value sent counts only if it is a request.
LEMMA InformationsAppend ==
    ASSUME NEW E, NEW s \in Seq(E), NEW v \in E
    PROVE  Informations(Append(s, v)) =
             IF v = GetInformation THEN Informations(s) + 1 ELSE Informations(s)
<1> DEFINE K == {k \in DOMAIN s : s[k] = GetInformation}
           L == {k \in DOMAIN Append(s, v) : Append(s, v)[k] = GetInformation}
<1>1. DOMAIN s = 1..Len(s) /\ Len(s) \in Nat /\ DOMAIN Append(s, v) = 1..(Len(s) + 1)
  OBVIOUS
<1>2. IsFiniteSet(K)
  BY InformationsFinite
<1>3. /\ \A k \in 1..Len(s) : Append(s, v)[k] = s[k]
      /\ Append(s, v)[Len(s) + 1] = v
  OBVIOUS
<1>4. Len(s) + 1 \notin K
  BY <1>1
<1>5. CASE v = GetInformation
  <2>1. L = K \cup {Len(s) + 1}
    BY <1>1, <1>3, <1>5
  <2> QED BY <1>2, <1>4, <1>5, <2>1, FS_AddElement DEF Informations
<1>6. CASE v # GetInformation
  <2>1. L = K
    BY <1>1, <1>3, <1>6
  <2> QED BY <1>6, <2>1 DEF Informations
<1> QED BY <1>5, <1>6

\* No request is counted twice, or lost, when a stream is split.
LEMMA InformationsSplit ==
    ASSUME NEW E, NEW s \in Seq(E), NEW n \in 1..Len(s)
    PROVE  /\ SubSeq(s, 1, n) \in Seq(E) /\ SubSeq(s, n + 1, Len(s)) \in Seq(E)
           /\ Informations(s) =
                Informations(SubSeq(s, 1, n)) + Informations(SubSeq(s, n + 1, Len(s)))
<1> DEFINE a == SubSeq(s, 1, n)
           b == SubSeq(s, n + 1, Len(s))
           K == {k \in DOMAIN s : s[k] = GetInformation}
           A == {k \in DOMAIN a : a[k] = GetInformation}
           B == {k \in DOMAIN b : b[k] = GetInformation}
           C == {k \in (n + 1)..Len(s) : s[k] = GetInformation}
<1>1. Len(s) \in Nat /\ n \in Nat /\ n <= Len(s) /\ DOMAIN s = 1..Len(s)
  OBVIOUS
<1>2. /\ a \in Seq(E) /\ DOMAIN a = 1..n /\ \A k \in 1..n : a[k] = s[k]
      /\ b \in Seq(E) /\ DOMAIN b = 1..(Len(s) - n)
      /\ \A k \in 1..(Len(s) - n) : b[k] = s[n + k]
  BY SplitStream
<1> HIDE DEF a, b
<1>3. IsFiniteSet(K) /\ IsFiniteSet(A) /\ IsFiniteSet(B)
  BY <1>2, InformationsFinite
<1>4. A = {k \in 1..n : s[k] = GetInformation}
  BY <1>2
<1>5. K = A \cup C /\ A \cap C = {}
  BY <1>1, <1>4
<1>6. IsFiniteSet(C)
  BY <1>3, <1>5, FS_Subset
<1>7. Cardinality(C) = Cardinality(B)
  <2> DEFINE f == [k \in B |-> n + k]
  <2>1. f \in [B -> C]
    BY <1>1, <1>2
  <2>2. \A x, y \in B : f[x] = f[y] => x = y
    BY <1>1, <1>2
  <2>3. \A y \in C : \E x \in B : f[x] = y
    <3> TAKE y \in C
    <3>1. y \in Int /\ n + 1 <= y /\ y <= Len(s) /\ s[y] = GetInformation
      BY <1>1
    <3>2. y - n \in 1..(Len(s) - n) /\ n + (y - n) = y
      BY <1>1, <3>1
    <3>3. y - n \in B
      BY <1>2, <3>1, <3>2
    <3> QED BY <3>2, <3>3
  <2>4. f \in Bijection(B, C)
    BY <2>1, <2>2, <2>3 DEF Bijection, Injection, Surjection, IsInjective
  <2> QED BY <1>3, <2>4, FS_Bijection DEF ExistsBijection
<1>8. Cardinality(K) = Cardinality(A) + Cardinality(C)
  <2>1. Cardinality(A \cap C) = 0 /\ Cardinality(A) \in Nat /\ Cardinality(C) \in Nat
    BY <1>3, <1>5, <1>6, FS_EmptySet, FS_CardinalityType
  <2>2. Cardinality(A \cup C) = Cardinality(A) + Cardinality(C) - Cardinality(A \cap C)
    BY <1>3, <1>6, FS_Union
  <2> HIDE DEF A, C, K
  <2> QED BY <1>5, <2>1, <2>2
<1>9. /\ Informations(s) = Cardinality(K)
      /\ Informations(a) = Cardinality(A) /\ Informations(b) = Cardinality(B)
  BY DEF Informations
<1>10. Informations(s) = Informations(a) + Informations(b)
  BY <1>7, <1>8, <1>9
<1> QED BY <1>2, <1>10 DEF a, b

----------------------------------------------------------------------------
(* The inductive invariant of the sockets.                                   *)

\* A thread has counted no drone that is not there, and stays within its count.
PollsInRange ==
    \A p \in Poll : poll[p].pc # "idle" =>
      poll[p].size \in 1..connected /\ poll[p].at \in 1..poll[p].size

\* So does the thread of a command.
CommandInRange ==
    command # NoCommand => /\ command.value \in Command
                           /\ command.size \in 1..connected /\ command.at \in 1..command.size

\* Nothing is under way to or from a drone that has not been accepted.
NotYetConnected ==
    \A d \in Drone : connected < d => /\ toDrone[d] = <<>> /\ toServer[d] = 0 /\ ~newcomer[d]
                                      /\ missing[d] = 0 /\ abandoned[d] = 0

SocketInv == SocketTypeOK /\ PollsInRange /\ CommandInRange /\ NotYetConnected /\ AnswersBalance

\* The threads that wait for the drone, and whether its constructor's does.
Waiters(d) == {p \in Poll : Expects(p, d)}
Joining(d) == IF newcomer[d] THEN 1 ELSE 0
One(b) == IF b THEN 1 ELSE 0

\* When one member of a finite set changes its mind.
LEMMA OneChanges ==
    ASSUME NEW S, IsFiniteSet(S), NEW A, A \subseteq S, NEW B, B \subseteq S, NEW p,
           \A q \in S : q # p => (q \in A <=> q \in B)
    PROVE  /\ Cardinality(A) \in Nat /\ Cardinality(B) \in Nat
           /\ Cardinality(B) + One(p \in A) = Cardinality(A) + One(p \in B)
<1>1. IsFiniteSet(A) /\ IsFiniteSet(B)
  BY FS_Subset
<1>2. Cardinality(A) \in Nat /\ Cardinality(B) \in Nat
  BY <1>1, FS_CardinalityType
<1>3. CASE p \in A /\ p \notin B
  <2>1. A = B \cup {p}
    BY <1>3
  <2>2. Cardinality(A) = Cardinality(B) + 1
    BY <1>1, <1>3, <2>1, FS_AddElement
  <2> QED BY <1>2, <1>3, <2>2 DEF One
<1>4. CASE p \in B /\ p \notin A
  <2>1. B = A \cup {p}
    BY <1>4
  <2>2. Cardinality(B) = Cardinality(A) + 1
    BY <1>1, <1>4, <2>1, FS_AddElement
  <2> QED BY <1>2, <1>4, <2>2 DEF One
<1>5. CASE p \in A <=> p \in B
  <2>1. A = B
    BY <1>5
  <2> QED BY <1>2, <2>1 DEF One
<1> QED BY <1>3, <1>4, <1>5

\* When one thread takes a step.
LEMMA OnePoll ==
    ASSUME NEW p \in Poll, \A q \in Poll : q # p => poll'[q] = poll[q], NEW d
    PROVE  /\ Cardinality(Waiters(d)) \in Nat /\ Cardinality(Waiters(d)') \in Nat
           /\ Cardinality(Waiters(d)') + One(Expects(p, d))
                = Cardinality(Waiters(d)) + One(Expects(p, d)')
<1> DEFINE A == Waiters(d)
           B == Waiters(d)'
<1>1. IsFiniteSet(Poll) /\ A \subseteq Poll /\ B \subseteq Poll
  BY SocketAssumption DEF Waiters
<1>2. \A q \in Poll : q # p => (q \in A <=> q \in B)
  BY DEF Waiters, Expects
<1>3. (p \in A <=> Expects(p, d)) /\ (p \in B <=> Expects(p, d)')
  BY DEF Waiters
<1>4. One(p \in A) = One(Expects(p, d)) /\ One(p \in B) = One(Expects(p, d)')
  BY <1>3 DEF One
<1> HIDE DEF A, B
<1>5. /\ Cardinality(A) \in Nat /\ Cardinality(B) \in Nat
      /\ Cardinality(B) + One(p \in A) = Cardinality(A) + One(p \in B)
  BY <1>1, <1>2, OneChanges
<1> QED BY <1>4, <1>5 DEF A, B

\* When none does.
LEMMA SamePolls ==
    ASSUME poll' = poll, NEW d
    PROVE  Cardinality(Waiters(d)) \in Nat /\ Cardinality(Waiters(d)') = Cardinality(Waiters(d))
<1>1. Waiters(d)' = Waiters(d)
  BY DEF Waiters, Expects
<1>2. IsFiniteSet(Waiters(d))
  BY FS_Subset, SocketAssumption DEF Waiters
<1> QED BY <1>1, <1>2, FS_CardinalityType

\* Before the first drone is accepted.
LEMMA SocketInvInit == ASSUME SocketInit PROVE SocketInv
<1> USE DEF SocketInit, NoPoll, NoCommand
<1>1. SocketTypeOK
  <2>1. <<>> \in Seq(Command \cup {GetInformation})
    OBVIOUS
  <2> QED BY <2>1, SocketAssumption DEF SocketTypeOK
<1> QED BY <1>1 DEF SocketInv, PollsInRange, CommandInRange, NotYetConnected, AnswersBalance

\* SimDrone.send_packet.
LEMMA SendStep ==
    ASSUME SocketTypeOK, NEW d \in Drone, NEW v \in Command \cup {GetInformation}, Send(d, v)
    PROVE  /\ toDrone' \in [Drone -> Seq(Command \cup {GetInformation})] /\ toServer' = toServer
           /\ toDrone'[d] = Append(toDrone[d], v)
           /\ \A e \in Drone : e # d => toDrone'[e] = toDrone[e]
           /\ \A e \in Drone : Coming(e)' = IF e = d /\ v = GetInformation THEN Coming(e) + 1
                                                                        ELSE Coming(e)
<1>1. /\ toDrone \in [Drone -> Seq(Command \cup {GetInformation})]
      /\ toDrone' = [toDrone EXCEPT ![d] = Append(toDrone[d], v)] /\ toServer' = toServer
  BY DEF SocketTypeOK, Send
<1>2. Append(toDrone[d], v) \in Seq(Command \cup {GetInformation})
  BY <1>1
<1>3. /\ toDrone'[d] = Append(toDrone[d], v)
      /\ \A e \in Drone : e # d => toDrone'[e] = toDrone[e]
  BY <1>1
<1>4. /\ \A e \in Drone : toServer[e] \in Nat /\ Informations(toDrone[e]) \in Nat
      /\ Informations(toDrone'[d]) = IF v = GetInformation THEN Informations(toDrone[d]) + 1
                                                           ELSE Informations(toDrone[d])
  BY <1>1, <1>3, InformationsType, InformationsAppend DEF SocketTypeOK
<1>5. \A e \in Drone : Coming(e)' = IF e = d /\ v = GetInformation THEN Coming(e) + 1
                                                                ELSE Coming(e)
  BY <1>1, <1>3, <1>4 DEF Coming
<1> QED BY <1>1, <1>2, <1>3, <1>5

\* SimDrone.do_reception: as many messages as were there leave one answer.
LEMMA TakeAllStep ==
    ASSUME SocketTypeOK, NEW d \in Drone, TakeAll(d), toDrone' = toDrone
    PROVE  /\ toServer' \in [Drone -> Nat] /\ missing' \in [Drone -> Nat]
           /\ toServer[d] > 0
           /\ \A e \in Drone : e # d => toServer'[e] = toServer[e] /\ missing'[e] = missing[e]
           /\ \A e \in Drone : /\ Coming(e) \in Nat /\ Coming(e)' \in Nat
                               /\ Coming(e)' + missing'[e] =
                                    Coming(e) + missing[e] - (IF e = d THEN 1 ELSE 0)
<1>1. /\ toDrone \in [Drone -> Seq(Command \cup {GetInformation})]
      /\ toServer \in [Drone -> Nat] /\ missing \in [Drone -> Nat]
      /\ toServer[d] > 0 /\ toServer' = [toServer EXCEPT ![d] = 0]
      /\ missing' = [missing EXCEPT ![d] = missing[d] + (toServer[d] - 1)]
  BY DEF SocketTypeOK, TakeAll
<1>2. \A e \in Drone : Informations(toDrone[e]) \in Nat
  BY <1>1, InformationsType
<1> QED BY <1>1, <1>2 DEF Coming

\* The thread of a command refers to drones that are there.
LEMMA CommandFields ==
    ASSUME SocketTypeOK, CommandInRange, command # NoCommand
    PROVE  /\ command.value \in Command
           /\ command.size \in 1..connected /\ command.at \in 1..command.size
           /\ command.at \in Drone /\ command.at <= connected /\ connected \in 0..Drones
<1>1. /\ connected \in 0..Drones /\ Drones \in Nat /\ command.value \in Command
      /\ command.size \in 1..connected /\ command.at \in 1..command.size
  BY SocketAssumption DEF SocketTypeOK, CommandInRange
<1> QED BY <1>1 DEF Drone

\* The thread of a poll refers to drones that are there.
LEMMA PollFields ==
    ASSUME SocketTypeOK, PollsInRange, NEW p \in Poll
    PROVE  /\ connected \in 0..Drones /\ Drones \in Nat
           /\ poll[p].pc \in {"idle", "send", "turn", "receive"}
           /\ poll[p].at \in 1..(Drones + 1) /\ poll[p].size \in 0..Drones
           /\ poll[p].pc # "idle" => /\ poll[p].size \in 1..connected
                                     /\ poll[p].at \in 1..poll[p].size
                                     /\ poll[p].at \in Drone /\ poll[p].at <= connected
<1>1. poll[p] \in [pc : {"idle", "send", "turn", "receive"}, at : 1..(Drones + 1),
                   size : 0..Drones]
  BY DEF SocketTypeOK
<1>2. /\ connected \in 0..Drones /\ Drones \in Nat
      /\ poll[p].pc \in {"idle", "send", "turn", "receive"}
      /\ poll[p].at \in 1..(Drones + 1) /\ poll[p].size \in 0..Drones
      /\ poll[p].pc # "idle" => poll[p].size \in 1..connected /\ poll[p].at \in 1..poll[p].size
  BY <1>1, SocketAssumption DEF SocketTypeOK, PollsInRange
<1> QED BY <1>2 DEF Drone

\* A thread that has gone on within its count.
LEMMA PollSet ==
    ASSUME SocketTypeOK, PollsInRange, NEW p \in Poll, connected' = connected,
           NEW r \in [pc : {"idle", "send", "turn", "receive"}, at : 1..(Drones + 1),
                      size : 0..Drones],
           r.pc # "idle" => r.size \in 1..connected /\ r.at \in 1..r.size,
           poll' = [poll EXCEPT ![p] = r]
    PROVE  /\ PollsInRange'
           /\ poll' \in [Poll -> [pc : {"idle", "send", "turn", "receive"}, at : 1..(Drones + 1),
                                  size : 0..Drones]]
           /\ poll'[p] = r /\ \A q \in Poll : q # p => poll'[q] = poll[q]
BY DEF SocketTypeOK, PollsInRange

----------------------------------------------------------------------------
(* One lemma per action.                                                    *)

LEMMA AcceptStep == ASSUME SocketInv, Accept PROVE SocketInv'
<1> DEFINE c == connected + 1
<1>1. /\ SocketTypeOK /\ PollsInRange /\ CommandInRange /\ NotYetConnected /\ AnswersBalance
      /\ connected \in Nat /\ Drones \in Nat /\ connected < Drones
  BY SocketAssumption DEF SocketInv, SocketTypeOK, Accept
<1>2. /\ c \in Drone /\ connected < c /\ connected' = c
      /\ newcomer' = [newcomer EXCEPT ![c] = TRUE]
  BY <1>1 DEF Accept, Drone
<1>3. /\ toDrone' = toDrone /\ toServer' = toServer /\ poll' = poll /\ command' = command
      /\ missing' = missing /\ abandoned' = abandoned
  BY DEF Accept, streams, histories
<1> HIDE DEF c
<1>4. SocketTypeOK'
  <2>1. connected' \in 0..Drones
    BY <1>1, <1>2 DEF c
  <2>2. newcomer' \in [Drone -> BOOLEAN]
    BY <1>1, <1>2 DEF SocketTypeOK
  <2> QED BY <1>1, <1>3, <2>1, <2>2 DEF SocketTypeOK
<1>5. PollsInRange'
  BY <1>1, <1>2, <1>3 DEF c, PollsInRange
<1>6. CommandInRange'
  BY <1>1, <1>2, <1>3 DEF c, CommandInRange
<1>7. NotYetConnected'
  <2> SUFFICES ASSUME NEW d \in Drone, c < d
               PROVE  /\ toDrone[d] = <<>> /\ toServer[d] = 0 /\ ~newcomer'[d]
                      /\ missing[d] = 0 /\ abandoned[d] = 0
    BY <1>2, <1>3 DEF NotYetConnected
  <2>1. connected < d /\ d # c
    BY <1>1 DEF c, Drone
  <2> QED BY <1>1, <1>2, <2>1 DEF NotYetConnected, SocketTypeOK
<1>8. AnswersBalance'
  <2> SUFFICES ASSUME NEW d \in 1..c
               PROVE  (Waiting(d) + abandoned[d] = Coming(d) + missing[d] + 1)'
    BY <1>2 DEF AnswersBalance
  <2>1. Coming(d)' = Coming(d) /\ Cardinality(Waiters(d)') = Cardinality(Waiters(d))
    BY <1>3, SamePolls DEF Coming
  <2>2. CASE d # c
    <3>1. d \in 1..connected /\ d \in Drone
      BY <1>1, <1>2, <2>2 DEF c, Drone
    <3>2. newcomer'[d] = newcomer[d]
      BY <1>1, <1>2, <2>2, <3>1 DEF SocketTypeOK
    <3>3. Waiting(d)' = Waiting(d)
      BY <2>1, <3>2 DEF Waiting, Waiters
    <3> QED BY <1>1, <1>3, <2>1, <3>1, <3>3 DEF AnswersBalance
  <2>3. CASE d = c
    <3>1. d \in Drone /\ connected < d
      BY <1>2, <2>3
    <3>2. /\ toDrone[d] = <<>> /\ toServer[d] = 0 /\ missing[d] = 0 /\ abandoned[d] = 0
      BY <1>1, <3>1 DEF NotYetConnected
    <3>3. \A p \in Poll : ~Expects(p, d)
      <4> TAKE p \in Poll
      <4>1. poll[p].pc # "idle" => /\ poll[p].at \in 1..poll[p].size
                                   /\ poll[p].size \in 1..connected
        BY <1>1 DEF PollsInRange
      <4>2. d = connected + 1
        BY <2>3 DEF c
      <4> QED BY <1>1, <4>1, <4>2 DEF Expects
    <3>4. Waiters(d) = {}
      BY <3>3 DEF Waiters
    <3>5. Cardinality(Waiters(d)') = 0
      BY <2>1, <3>4, FS_EmptySet
    <3>6. newcomer'[d] = TRUE
      BY <1>1, <1>2, <2>3 DEF SocketTypeOK
    <3>7. Coming(d) = 0
      BY <3>2, NoInformation DEF Coming
    <3>8. Waiting(d)' = 1
      BY <3>5, <3>6 DEF Waiting, Waiters
    <3> QED BY <1>3, <2>1, <3>2, <3>7, <3>8
  <2> QED BY <2>2, <2>3
<1> QED BY <1>4, <1>5, <1>6, <1>7, <1>8 DEF SocketInv

\* What is left to show of a step that changes neither the fleet nor its newcomers.
LEMMA Rest ==
    ASSUME SocketInv, connected' = connected,
           SocketTypeOK', PollsInRange', CommandInRange',
           \A d \in Drone : connected < d =>
             /\ toDrone'[d] = toDrone[d] /\ toServer'[d] = toServer[d]
             /\ newcomer'[d] = newcomer[d]
             /\ missing'[d] = missing[d] /\ abandoned'[d] = abandoned[d],
           \A d \in Drone : d <= connected =>
             Cardinality(Waiters(d)') + Joining(d)' + abandoned'[d]
                 + (Coming(d) + missing[d])
               = Cardinality(Waiters(d)) + Joining(d) + abandoned[d]
                 + (Coming(d)' + missing'[d])
    PROVE  SocketInv'
<1>1. NotYetConnected'
  BY DEF SocketInv, NotYetConnected
<1>2. AnswersBalance'
  <2> SUFFICES ASSUME NEW d \in 1..connected
               PROVE  (Waiting(d) + abandoned[d] = Coming(d) + missing[d] + 1)'
    BY DEF AnswersBalance
  <2>1. d \in Drone /\ d <= connected
    BY SocketAssumption DEF SocketInv, SocketTypeOK, Drone
  <2>2. /\ Waiting(d) = Cardinality(Waiters(d)) + Joining(d)
        /\ Waiting(d)' = Cardinality(Waiters(d)') + Joining(d)'
    BY DEF Waiting, Waiters, Joining
  <2>3. Waiting(d) + abandoned[d] = Coming(d) + missing[d] + 1
    BY DEF SocketInv, AnswersBalance
  <2>4. /\ IsFiniteSet(Waiters(d)) /\ IsFiniteSet(Waiters(d)')
    BY FS_Subset, SocketAssumption DEF Waiters
  <2>5. /\ Cardinality(Waiters(d)) \in Nat /\ Cardinality(Waiters(d)') \in Nat
        /\ Joining(d) \in Nat /\ Joining(d)' \in Nat
    BY <2>4, FS_CardinalityType DEF Joining
  <2>6. /\ abandoned[d] \in Nat /\ missing[d] \in Nat
        /\ abandoned'[d] \in Nat /\ missing'[d] \in Nat
    BY <2>1 DEF SocketInv, SocketTypeOK
  <2>7. Coming(d) \in Nat /\ Coming(d)' \in Nat
    <3>1. /\ toDrone[d] \in Seq(Command \cup {GetInformation}) /\ toServer[d] \in Nat
          /\ toDrone'[d] \in Seq(Command \cup {GetInformation}) /\ toServer'[d] \in Nat
      BY <2>1 DEF SocketInv, SocketTypeOK
    <3>2. Informations(toDrone[d]) \in Nat /\ Informations(toDrone'[d]) \in Nat
      BY <3>1, InformationsType
    <3> QED BY <3>1, <3>2 DEF Coming
  <2>8. Cardinality(Waiters(d)') + Joining(d)' + abandoned'[d] + (Coming(d) + missing[d])
          = Cardinality(Waiters(d)) + Joining(d) + abandoned[d] + (Coming(d)' + missing'[d])
    BY <2>1
  <2>9. ASSUME NEW x \in Nat, NEW y \in Nat, NEW u \in Nat, NEW v \in Nat,
               x + u = y + v, y = u + 1
        PROVE  x = v + 1
    BY <2>9
  <2>10. /\ Waiting(d) + abandoned[d] \in Nat /\ (Waiting(d) + abandoned[d])' \in Nat
         /\ Coming(d) + missing[d] \in Nat /\ (Coming(d) + missing[d])' \in Nat
    BY <2>2, <2>5, <2>6, <2>7
  <2>11. (Waiting(d) + abandoned[d])' + (Coming(d) + missing[d])
           = (Waiting(d) + abandoned[d]) + (Coming(d) + missing[d])'
    BY <2>2, <2>8
  <2> QED BY <2>3, <2>9, <2>10, <2>11
<1> QED BY <1>1, <1>2 DEF SocketInv

LEMMA BeginPollStep ==
    ASSUME SocketInv, NEW p \in Poll, BeginPoll(p) PROVE SocketInv'
<1> DEFINE r == [pc |-> "send", at |-> 1, size |-> connected]
<1>1. /\ SocketTypeOK /\ PollsInRange /\ CommandInRange
      /\ connected \in 0..Drones /\ Drones \in Nat /\ connected > 0
  BY SocketAssumption DEF SocketInv, SocketTypeOK, BeginPoll
<1>2. /\ connected' = connected /\ toDrone' = toDrone /\ toServer' = toServer
      /\ newcomer' = newcomer /\ command' = command /\ missing' = missing
      /\ abandoned' = abandoned /\ poll' = [poll EXCEPT ![p] = r] /\ poll[p].pc = "idle"
  BY DEF BeginPoll, streams, histories
<1>3. /\ r \in [pc : {"idle", "send", "turn", "receive"}, at : 1..(Drones + 1), size : 0..Drones]
      /\ r.size \in 1..connected /\ r.at \in 1..r.size
  BY <1>1
<1> HIDE DEF r
<1>4. /\ PollsInRange'
      /\ poll' \in [Poll -> [pc : {"idle", "send", "turn", "receive"}, at : 1..(Drones + 1),
                             size : 0..Drones]]
      /\ poll'[p] = r /\ \A q \in Poll : q # p => poll'[q] = poll[q]
  BY <1>1, <1>2, <1>3, PollSet
<1>5. SocketTypeOK' /\ CommandInRange'
  BY <1>1, <1>2, <1>4 DEF SocketTypeOK, CommandInRange
<1>6. \A d \in Drone : Cardinality(Waiters(d)') = Cardinality(Waiters(d))
  <2> TAKE d \in Drone
  <2>1. ~Expects(p, d) /\ ~Expects(p, d)'
    BY <1>1, <1>2, <1>4 DEF r, Expects, Drone
  <2> QED BY <1>4, <2>1, OnePoll DEF One
<1>7. \A d \in Drone : Coming(d)' = Coming(d) /\ Joining(d)' = Joining(d)
  BY <1>2 DEF Coming, Joining
<1> QED BY <1>2, <1>4, <1>5, <1>6, <1>7, Rest

\* What a poll that has gone leaves.
LEMMA AbandonStep ==
    ASSUME SocketTypeOK, NEW S, Abandon(S)
    PROVE  /\ abandoned' \in [Drone -> Nat]
           /\ \A d \in Drone : abandoned'[d] = abandoned[d] + One(d \in S)
BY DEF SocketTypeOK, Abandon, One

LEMMA PollSendStep ==
    ASSUME SocketInv, NEW p \in Poll, PollSend(p) PROVE SocketInv'
<1> DEFINE at == poll[p].at
           size == poll[p].size
<1>1. SocketTypeOK /\ PollsInRange /\ CommandInRange
  BY DEF SocketInv
<1>2. /\ connected' = connected /\ newcomer' = newcomer /\ command' = command
      /\ missing' = missing /\ poll[p].pc = "send"
  BY DEF PollSend
<1>3. /\ connected \in 0..Drones /\ Drones \in Nat
      /\ size \in 1..connected /\ at \in 1..size /\ at \in Drone /\ at <= connected
  BY <1>1, <1>2, PollFields
<1>4. /\ toDrone' \in [Drone -> Seq(Command \cup {GetInformation})] /\ toServer' = toServer
      /\ \A d \in Drone : d # at => toDrone'[d] = toDrone[d]
      /\ \A d \in Drone : Coming(d)' = IF d = at THEN Coming(d) + 1 ELSE Coming(d)
  BY <1>1, <1>3, SendStep DEF PollSend
<1> DEFINE r == IF size # connected THEN NoPoll
                ELSE IF at < size THEN [poll[p] EXCEPT !.at = @ + 1]
                ELSE [poll[p] EXCEPT !.pc = "turn"]
<1>5. /\ poll' = [poll EXCEPT ![p] = r]
      /\ size # connected => Abandon(1..at)
      /\ size = connected => abandoned' = abandoned
  BY <1>1 DEF PollSend, SocketTypeOK
<1>6. poll[p] = [pc |-> "send", at |-> at, size |-> size]
  BY <1>1, <1>2 DEF SocketTypeOK
<1>7. r = IF size # connected THEN [pc |-> "idle", at |-> 1, size |-> 0]
          ELSE IF at < size THEN [pc |-> "send", at |-> at + 1, size |-> size]
          ELSE [pc |-> "turn", at |-> at, size |-> size]
  BY <1>6 DEF NoPoll
<1> HIDE DEF at, size, r
<1>8. /\ r \in [pc : {"idle", "send", "turn", "receive"}, at : 1..(Drones + 1), size : 0..Drones]
      /\ r.pc # "idle" => r.size \in 1..connected /\ r.at \in 1..r.size
  BY <1>3, <1>7
<1>9. /\ PollsInRange'
      /\ poll' \in [Poll -> [pc : {"idle", "send", "turn", "receive"}, at : 1..(Drones + 1),
                             size : 0..Drones]]
      /\ poll'[p] = r /\ \A q \in Poll : q # p => poll'[q] = poll[q]
  BY <1>1, <1>2, <1>5, <1>8, PollSet
<1>10. /\ abandoned' \in [Drone -> Nat]
       /\ \A d \in Drone : abandoned'[d] =
            abandoned[d] + (IF size # connected /\ d \in 1..at THEN 1 ELSE 0)
  <2>1. CASE size # connected
    BY <1>1, <1>5, <2>1, AbandonStep DEF One
  <2>2. CASE size = connected
    BY <1>1, <1>5, <2>2 DEF SocketTypeOK
  <2> QED BY <2>1, <2>2
<1>11. SocketTypeOK' /\ CommandInRange'
  BY <1>1, <1>2, <1>4, <1>9, <1>10 DEF SocketTypeOK, CommandInRange
<1>12. ASSUME NEW d \in Drone, d <= connected
       PROVE  Cardinality(Waiters(d)') + Joining(d)' + abandoned'[d] + (Coming(d) + missing[d])
                = Cardinality(Waiters(d)) + Joining(d) + abandoned[d] + (Coming(d)' + missing'[d])
  <2>1. d \in Nat /\ 1 <= d
    BY <1>3 DEF Drone
  <2>2. One(Expects(p, d)) = IF d < at THEN 1 ELSE 0
    BY <1>6 DEF Expects, One
  <2>3. One(Expects(p, d)') = IF size # connected THEN 0 ELSE IF d <= at THEN 1 ELSE 0
    <3>1. Expects(p, d)' <=> size = connected /\ d <= at
      BY <1>3, <1>7, <1>9, <2>1, <1>12 DEF Expects
    <3> QED BY <3>1 DEF One
  <2>4. /\ Cardinality(Waiters(d)) \in Nat /\ Cardinality(Waiters(d)') \in Nat
        /\ Cardinality(Waiters(d)') + One(Expects(p, d))
             = Cardinality(Waiters(d)) + One(Expects(p, d)')
    BY <1>9, OnePoll
  <2>5. Joining(d)' = Joining(d) /\ Joining(d) \in Nat
    BY <1>2 DEF Joining
  <2>6. /\ abandoned[d] \in Nat /\ missing[d] \in Nat /\ Coming(d) \in Nat
    BY <1>1, InformationsType DEF SocketTypeOK, Coming
  <2>7. /\ abandoned'[d] = abandoned[d] + (IF size # connected /\ d <= at THEN 1 ELSE 0)
        /\ Coming(d)' = IF d = at THEN Coming(d) + 1 ELSE Coming(d)
        /\ missing'[d] = missing[d]
    BY <1>2, <1>3, <1>4, <1>10, <2>1
  <2> QED BY <1>3, <2>1, <2>2, <2>3, <2>4, <2>5, <2>6, <2>7
<1>13. ASSUME NEW d \in Drone, connected < d
       PROVE  /\ toDrone'[d] = toDrone[d] /\ toServer'[d] = toServer[d]
              /\ newcomer'[d] = newcomer[d]
              /\ missing'[d] = missing[d] /\ abandoned'[d] = abandoned[d]
  <2>1. d # at /\ d \notin 1..at
    BY <1>3, <1>13 DEF Drone
  <2>2. abandoned[d] \in Nat
    BY <1>1 DEF SocketTypeOK
  <2>3. abandoned'[d] = abandoned[d] + 0
    BY <1>10, <2>1
  <2> QED BY <1>2, <1>4, <2>1, <2>2, <2>3
<1> QED BY <1>2, <1>9, <1>11, <1>12, <1>13, Rest

LEMMA PollTurnStep ==
    ASSUME SocketInv, NEW p \in Poll, PollTurn(p) PROVE SocketInv'
<1> DEFINE r == [pc |-> "receive", at |-> 1, size |-> connected]
           size == poll[p].size
<1>1. SocketTypeOK /\ PollsInRange /\ CommandInRange
  BY DEF SocketInv
<1>2. /\ connected' = connected /\ toDrone' = toDrone /\ toServer' = toServer
      /\ newcomer' = newcomer /\ command' = command
      /\ abandoned' = abandoned /\ poll' = [poll EXCEPT ![p] = r] /\ poll[p].pc = "turn"
      /\ missing' = [d \in Drone |-> IF size < d /\ d <= connected THEN missing[d] + 1
                                                                  ELSE missing[d]]
  BY DEF PollTurn, streams
<1>3. /\ connected \in 0..Drones /\ Drones \in Nat /\ size \in 1..connected
  BY <1>1, <1>2, PollFields
<1> HIDE DEF size
<1>4. /\ r \in [pc : {"idle", "send", "turn", "receive"}, at : 1..(Drones + 1), size : 0..Drones]
      /\ r.size \in 1..connected /\ r.at \in 1..r.size
  BY <1>3
<1> HIDE DEF r
<1>5. /\ PollsInRange'
      /\ poll' \in [Poll -> [pc : {"idle", "send", "turn", "receive"}, at : 1..(Drones + 1),
                             size : 0..Drones]]
      /\ poll'[p] = r /\ \A q \in Poll : q # p => poll'[q] = poll[q]
  BY <1>1, <1>2, <1>4, PollSet
<1>6. SocketTypeOK' /\ CommandInRange'
  <2>1. missing' \in [Drone -> Nat]
    BY <1>1, <1>2 DEF SocketTypeOK
  <2> QED BY <1>1, <1>2, <1>5, <2>1 DEF SocketTypeOK, CommandInRange
<1>7. ASSUME NEW d \in Drone, d <= connected
      PROVE  Cardinality(Waiters(d)') + Joining(d)' + abandoned'[d] + (Coming(d) + missing[d])
               = Cardinality(Waiters(d)) + Joining(d) + abandoned[d] + (Coming(d)' + missing'[d])
  <2>1. d \in Nat /\ 1 <= d
    BY <1>3 DEF Drone
  <2>2. One(Expects(p, d)) = IF d <= size THEN 1 ELSE 0
    BY <1>2 DEF size, Expects, One
  <2>3. One(Expects(p, d)') = 1
    BY <1>2, <1>5, <1>7, <2>1 DEF r, Expects, One
  <2>4. /\ Cardinality(Waiters(d)) \in Nat /\ Cardinality(Waiters(d)') \in Nat
        /\ Cardinality(Waiters(d)') + One(Expects(p, d))
             = Cardinality(Waiters(d)) + One(Expects(p, d)')
    BY <1>5, OnePoll
  <2>5. Joining(d)' = Joining(d) /\ Joining(d) \in Nat /\ Coming(d)' = Coming(d)
    BY <1>2 DEF Joining, Coming
  <2>6. /\ abandoned[d] \in Nat /\ missing[d] \in Nat /\ Coming(d) \in Nat
    BY <1>1, InformationsType DEF SocketTypeOK, Coming
  <2>7. /\ abandoned'[d] = abandoned[d]
        /\ missing'[d] = missing[d] + (IF size < d THEN 1 ELSE 0)
    BY <1>1, <1>2, <1>7, <2>6
  <2> QED BY <1>3, <2>1, <2>2, <2>3, <2>4, <2>5, <2>6, <2>7
<1>8. ASSUME NEW d \in Drone, connected < d
      PROVE  /\ toDrone'[d] = toDrone[d] /\ toServer'[d] = toServer[d]
             /\ newcomer'[d] = newcomer[d]
             /\ missing'[d] = missing[d] /\ abandoned'[d] = abandoned[d]
  <2>1. ~(d <= connected)
    BY <1>3, <1>8 DEF Drone
  <2> QED BY <1>2, <2>1
<1> QED BY <1>2, <1>5, <1>6, <1>7, <1>8, Rest

LEMMA PollReceiveStep ==
    ASSUME SocketInv, NEW p \in Poll, PollReceive(p) PROVE SocketInv'
<1> DEFINE at == poll[p].at
           size == poll[p].size
<1>1. SocketTypeOK /\ PollsInRange /\ CommandInRange
  BY DEF SocketInv
<1>2. /\ connected' = connected /\ newcomer' = newcomer /\ command' = command
      /\ toDrone' = toDrone /\ poll[p].pc = "receive"
  BY DEF PollReceive
<1>3. /\ connected \in 0..Drones /\ Drones \in Nat
      /\ size \in 1..connected /\ at \in 1..size /\ at \in Drone /\ at <= connected
  BY <1>1, <1>2, PollFields
<1>4. /\ toServer' \in [Drone -> Nat] /\ missing' \in [Drone -> Nat]
      /\ \A d \in Drone : d # at => toServer'[d] = toServer[d] /\ missing'[d] = missing[d]
      /\ \A d \in Drone : /\ Coming(d) \in Nat /\ Coming(d)' \in Nat
                          /\ Coming(d)' + missing'[d] =
                               Coming(d) + missing[d] - (IF d = at THEN 1 ELSE 0)
  BY <1>1, <1>2, <1>3, TakeAllStep DEF PollReceive
<1> DEFINE r == IF size = connected /\ at < size THEN [poll[p] EXCEPT !.at = @ + 1] ELSE NoPoll
<1>5. /\ poll' = [poll EXCEPT ![p] = r]
      /\ size # connected => Abandon(at + 1..size)
      /\ size = connected => abandoned' = abandoned
  BY <1>1 DEF PollReceive, SocketTypeOK
<1>6. poll[p] = [pc |-> "receive", at |-> at, size |-> size]
  BY <1>1, <1>2 DEF SocketTypeOK
<1>7. r = IF size = connected /\ at < size
            THEN [pc |-> "receive", at |-> at + 1, size |-> size]
            ELSE [pc |-> "idle", at |-> 1, size |-> 0]
  BY <1>6 DEF NoPoll
<1> HIDE DEF at, size, r
<1>8. /\ r \in [pc : {"idle", "send", "turn", "receive"}, at : 1..(Drones + 1), size : 0..Drones]
      /\ r.pc # "idle" => r.size \in 1..connected /\ r.at \in 1..r.size
  BY <1>3, <1>7
<1>9. /\ PollsInRange'
      /\ poll' \in [Poll -> [pc : {"idle", "send", "turn", "receive"}, at : 1..(Drones + 1),
                             size : 0..Drones]]
      /\ poll'[p] = r /\ \A q \in Poll : q # p => poll'[q] = poll[q]
  BY <1>1, <1>2, <1>5, <1>8, PollSet
<1>10. /\ abandoned' \in [Drone -> Nat]
       /\ \A d \in Drone : abandoned'[d] =
            abandoned[d] + (IF size # connected /\ d \in at + 1..size THEN 1 ELSE 0)
  <2>1. CASE size # connected
    BY <1>1, <1>5, <2>1, AbandonStep DEF One
  <2>2. CASE size = connected
    BY <1>1, <1>5, <2>2 DEF SocketTypeOK
  <2> QED BY <2>1, <2>2
<1>11. SocketTypeOK' /\ CommandInRange'
  BY <1>1, <1>2, <1>4, <1>9, <1>10 DEF SocketTypeOK, CommandInRange
<1>12. ASSUME NEW d \in Drone, d <= connected
       PROVE  Cardinality(Waiters(d)') + Joining(d)' + abandoned'[d] + (Coming(d) + missing[d])
                = Cardinality(Waiters(d)) + Joining(d) + abandoned[d] + (Coming(d)' + missing'[d])
  <2>1. d \in Nat /\ 1 <= d
    BY <1>3 DEF Drone
  <2>2. One(Expects(p, d)) = IF at <= d /\ d <= size THEN 1 ELSE 0
    BY <1>6 DEF Expects, One
  <2>3. One(Expects(p, d)') = IF size = connected /\ at < d THEN 1 ELSE 0
    <3>1. Expects(p, d)' <=> size = connected /\ at < d
      BY <1>3, <1>7, <1>9, <2>1, <1>12 DEF Expects
    <3> QED BY <3>1 DEF One
  <2>4. /\ Cardinality(Waiters(d)) \in Nat /\ Cardinality(Waiters(d)') \in Nat
        /\ Cardinality(Waiters(d)') + One(Expects(p, d))
             = Cardinality(Waiters(d)) + One(Expects(p, d)')
    BY <1>9, OnePoll
  <2>5. Joining(d)' = Joining(d) /\ Joining(d) \in Nat
    BY <1>2 DEF Joining
  <2>6. /\ abandoned[d] \in Nat /\ missing[d] \in Nat /\ missing'[d] \in Nat
    BY <1>1, <1>4 DEF SocketTypeOK
  <2>7. abandoned'[d] = abandoned[d] + (IF size # connected /\ at < d /\ d <= size THEN 1 ELSE 0)
    BY <1>3, <1>10, <2>1
  <2>8. /\ Coming(d) \in Nat /\ Coming(d)' \in Nat
        /\ Coming(d)' + missing'[d] = Coming(d) + missing[d] - (IF d = at THEN 1 ELSE 0)
    BY <1>4
  <2> DEFINE taken == IF d = at THEN 1 ELSE 0
             left == IF size # connected /\ at < d /\ d <= size THEN 1 ELSE 0
  <2>9. /\ One(Expects(p, d)) = One(Expects(p, d)') + taken + left
        /\ One(Expects(p, d)') \in Nat /\ taken \in Nat /\ left \in Nat
    BY <1>3, <1>12, <2>1, <2>2, <2>3
  <2>10. /\ abandoned'[d] = abandoned[d] + left
         /\ Coming(d)' + missing'[d] = Coming(d) + missing[d] - taken
    BY <2>7, <2>8
  <2> HIDE DEF taken, left
  <2>11. Cardinality(Waiters(d)) = Cardinality(Waiters(d)') + taken + left
    BY <2>4, <2>9
  <2> QED BY <2>4, <2>5, <2>6, <2>8, <2>9, <2>10, <2>11
<1>13. ASSUME NEW d \in Drone, connected < d
       PROVE  /\ toDrone'[d] = toDrone[d] /\ toServer'[d] = toServer[d]
              /\ newcomer'[d] = newcomer[d]
              /\ missing'[d] = missing[d] /\ abandoned'[d] = abandoned[d]
  <2>1. d # at /\ d \notin at + 1..size
    BY <1>3, <1>13 DEF Drone
  <2>2. abandoned[d] \in Nat
    BY <1>1 DEF SocketTypeOK
  <2>3. abandoned'[d] = abandoned[d] + 0
    BY <1>10, <2>1
  <2> QED BY <1>2, <1>4, <2>1, <2>2, <2>3
<1> QED BY <1>2, <1>9, <1>11, <1>12, <1>13, Rest

LEMMA NewcomerStep ==
    ASSUME SocketInv, NEW e \in Drone, NewcomerReceives(e) PROVE SocketInv'
<1>1. SocketTypeOK /\ PollsInRange /\ CommandInRange
  BY DEF SocketInv
<1>2. /\ connected' = connected /\ command' = command /\ toDrone' = toDrone /\ poll' = poll
      /\ abandoned' = abandoned /\ newcomer[e] = TRUE
      /\ newcomer' = [newcomer EXCEPT ![e] = FALSE]
  BY <1>1 DEF NewcomerReceives, SocketTypeOK
<1>3. /\ connected \in 0..Drones /\ Drones \in Nat
  BY <1>1, SocketAssumption DEF SocketTypeOK
<1>4. /\ toServer' \in [Drone -> Nat] /\ missing' \in [Drone -> Nat]
      /\ \A d \in Drone : d # e => toServer'[d] = toServer[d] /\ missing'[d] = missing[d]
      /\ \A d \in Drone : /\ Coming(d) \in Nat /\ Coming(d)' \in Nat
                          /\ Coming(d)' + missing'[d] =
                               Coming(d) + missing[d] - (IF d = e THEN 1 ELSE 0)
  BY <1>1, <1>2, TakeAllStep DEF NewcomerReceives
<1>5. newcomer' \in [Drone -> BOOLEAN] /\ newcomer'[e] = FALSE
      /\ \A d \in Drone : d # e => newcomer'[d] = newcomer[d]
  BY <1>1, <1>2 DEF SocketTypeOK
<1>6. SocketTypeOK' /\ PollsInRange' /\ CommandInRange'
  BY <1>1, <1>2, <1>4, <1>5 DEF SocketTypeOK, PollsInRange, CommandInRange
<1>7. e <= connected
  <2>1. ~(connected < e)
    BY <1>2 DEF SocketInv, NotYetConnected
  <2> QED BY <1>3, <2>1 DEF Drone
<1>8. ASSUME NEW d \in Drone, d <= connected
      PROVE  Cardinality(Waiters(d)') + Joining(d)' + abandoned'[d] + (Coming(d) + missing[d])
               = Cardinality(Waiters(d)) + Joining(d) + abandoned[d] + (Coming(d)' + missing'[d])
  <2> DEFINE taken == IF d = e THEN 1 ELSE 0
  <2>1. Cardinality(Waiters(d)') = Cardinality(Waiters(d)) /\ Cardinality(Waiters(d)) \in Nat
    BY <1>2, SamePolls
  <2>2. /\ Joining(d) = Joining(d)' + taken /\ Joining(d)' \in Nat /\ taken \in Nat
    BY <1>2, <1>5 DEF Joining
  <2>3. Coming(d)' + missing'[d] = Coming(d) + missing[d] - taken
    BY <1>4
  <2>4. /\ abandoned[d] \in Nat /\ missing[d] \in Nat /\ missing'[d] \in Nat
        /\ Coming(d) \in Nat /\ Coming(d)' \in Nat
    BY <1>1, <1>4 DEF SocketTypeOK
  <2> HIDE DEF taken
  <2> QED BY <1>2, <2>1, <2>2, <2>3, <2>4
<1>9. ASSUME NEW d \in Drone, connected < d
      PROVE  /\ toDrone'[d] = toDrone[d] /\ toServer'[d] = toServer[d]
             /\ newcomer'[d] = newcomer[d]
             /\ missing'[d] = missing[d] /\ abandoned'[d] = abandoned[d]
  <2>1. d # e
    BY <1>3, <1>7, <1>9 DEF Drone
  <2> QED BY <1>2, <1>4, <1>5, <2>1
<1> QED BY <1>2, <1>6, <1>8, <1>9, Rest

LEMMA CommandStep ==
    ASSUME SocketInv, BeginCommand \/ CommandSend PROVE SocketInv'
<1>1. /\ SocketTypeOK /\ PollsInRange /\ CommandInRange
      /\ connected \in 0..Drones /\ Drones \in Nat
  BY SocketAssumption DEF SocketInv, SocketTypeOK
<1>2. /\ connected' = connected /\ newcomer' = newcomer /\ poll' = poll
      /\ missing' = missing /\ abandoned' = abandoned
  BY DEF BeginCommand, CommandSend, histories
<1>3. /\ toDrone' \in [Drone -> Seq(Command \cup {GetInformation})] /\ toServer' = toServer
      /\ \A d \in Drone : Coming(d)' = Coming(d)
      /\ \A d \in Drone : connected < d => toDrone'[d] = toDrone[d]
  <2>1. CASE BeginCommand
    BY <1>1, <2>1 DEF BeginCommand, streams, SocketTypeOK, Coming
  <2>2. CASE CommandSend
    <3>1. /\ command.at \in Drone /\ command.value \in Command /\ command.at <= connected
      BY <1>1, <2>2, CommandFields DEF CommandSend
    <3>2. command.value # GetInformation
      BY <3>1 DEF Command, GetInformation
    <3>3. /\ toDrone' \in [Drone -> Seq(Command \cup {GetInformation})] /\ toServer' = toServer
          /\ \A d \in Drone : d # command.at => toDrone'[d] = toDrone[d]
          /\ \A d \in Drone : Coming(d)' = Coming(d)
      BY <1>1, <2>2, <3>1, <3>2, SendStep DEF CommandSend
    <3>4. \A d \in Drone : connected < d => d # command.at
      BY <1>1, <3>1 DEF Drone
    <3> QED BY <3>3, <3>4
  <2> QED BY <2>1, <2>2
<1>4. CommandInRange' /\ command' \in [value : Command \cup {"none"}, at : 1..(Drones + 1),
                                       size : 0..Drones]
  <2>1. CASE BeginCommand
    BY <1>1, <1>2, <2>1 DEF BeginCommand, CommandInRange
  <2>2. CASE CommandSend
    <3>1. command \in [value : Command \cup {"none"}, at : 1..(Drones + 1), size : 0..Drones]
      BY <1>1 DEF SocketTypeOK
    <3>2. /\ command.value \in Command
          /\ command.size \in 1..connected /\ command.at \in 1..command.size
      BY <1>1, <2>2, CommandFields DEF CommandSend
    <3>3. CASE command.at < command.size /\ command.size = connected
      <4>1. command' = [command EXCEPT !.at = command.at + 1]
        BY <2>2, <3>3 DEF CommandSend
      <4>2. command'.value = command.value /\ command'.size = command.size
            /\ command'.at = command.at + 1
        BY <3>1, <4>1
      <4>3. command'.at \in 1..(Drones + 1) /\ command'.at \in 1..command'.size
        BY <1>1, <3>2, <3>3, <4>2
      <4> QED BY <1>2, <3>1, <3>2, <4>1, <4>2, <4>3 DEF CommandInRange
    <3>4. CASE ~(command.at < command.size /\ command.size = connected)
      BY <1>1, <2>2, <3>4 DEF CommandSend, CommandInRange, NoCommand
    <3> QED BY <3>3, <3>4
  <2> QED BY <2>1, <2>2
<1>5. SocketTypeOK' /\ PollsInRange'
  BY <1>1, <1>2, <1>3, <1>4 DEF SocketTypeOK, PollsInRange
<1>6. \A d \in Drone : /\ Cardinality(Waiters(d)') = Cardinality(Waiters(d))
                       /\ Joining(d)' = Joining(d)
  BY <1>2, SamePolls DEF Joining
<1> QED BY <1>2, <1>3, <1>4, <1>5, <1>6, Rest

LEMMA ControllerStep ==
    ASSUME SocketInv, NEW e \in Drone, ControlStep(e) PROVE SocketInv'
<1>1. /\ SocketTypeOK /\ PollsInRange /\ CommandInRange
      /\ connected \in 0..Drones /\ Drones \in Nat
  BY SocketAssumption DEF SocketInv, SocketTypeOK
<1>2. /\ connected' = connected /\ newcomer' = newcomer /\ poll' = poll /\ command' = command
      /\ abandoned' = abandoned
  BY DEF ControlStep
<1>3. PICK n \in 1..Len(toDrone[e]) : ReceiveValue(e, n)
  BY DEF ControlStep
<1> DEFINE batch == Informations(SubSeq(toDrone[e], 1, n))
           rest == SubSeq(toDrone[e], n + 1, Len(toDrone[e]))
<1>4. /\ toDrone \in [Drone -> Seq(Command \cup {GetInformation})]
      /\ toServer \in [Drone -> Nat] /\ missing \in [Drone -> Nat]
      /\ toDrone[e] \in Seq(Command \cup {GetInformation})
  BY <1>1 DEF SocketTypeOK
<1>5. /\ rest \in Seq(Command \cup {GetInformation})
      /\ Informations(toDrone[e]) = batch + Informations(rest)
      /\ batch \in Nat /\ Informations(rest) \in Nat
  BY <1>4, InformationsSplit, InformationsType
<1>6. /\ toDrone' = [toDrone EXCEPT ![e] = rest]
      /\ n = 1 => toServer' = [toServer EXCEPT ![e] = toServer[e] + batch] /\ missing' = missing
      /\ n # 1 => missing' = [missing EXCEPT ![e] = missing[e] + batch] /\ toServer' = toServer
  BY <1>3 DEF ReceiveValue
<1> HIDE DEF batch, rest
<1>7. /\ toDrone' \in [Drone -> Seq(Command \cup {GetInformation})]
      /\ toServer' \in [Drone -> Nat] /\ missing' \in [Drone -> Nat]
      /\ toDrone'[e] = rest
      /\ \A d \in Drone : d # e => /\ toDrone'[d] = toDrone[d] /\ toServer'[d] = toServer[d]
                                   /\ missing'[d] = missing[d]
      /\ toServer'[e] + missing'[e] = toServer[e] + missing[e] + batch
  <2>1. /\ toDrone' \in [Drone -> Seq(Command \cup {GetInformation})] /\ toDrone'[e] = rest
        /\ \A d \in Drone : d # e => toDrone'[d] = toDrone[d]
    BY <1>4, <1>5, <1>6
  <2>2. /\ toServer' \in [Drone -> Nat] /\ missing' \in [Drone -> Nat]
        /\ \A d \in Drone : d # e => toServer'[d] = toServer[d] /\ missing'[d] = missing[d]
        /\ toServer'[e] + missing'[e] = toServer[e] + missing[e] + batch
    <3>1. toServer \in [Drone -> Nat] /\ missing \in [Drone -> Nat] /\ batch \in Nat
      BY <1>4, <1>5
    <3>2. CASE n = 1
      <4>1. toServer' = [toServer EXCEPT ![e] = toServer[e] + batch] /\ missing' = missing
        BY <1>6, <3>2
      <4> QED BY <3>1, <4>1
    <3>3. CASE n # 1
      <4>1. missing' = [missing EXCEPT ![e] = missing[e] + batch] /\ toServer' = toServer
        BY <1>6, <3>3
      <4> QED BY <3>1, <4>1
    <3> QED BY <3>2, <3>3
  <2> QED BY <2>1, <2>2
<1>8. SocketTypeOK' /\ PollsInRange' /\ CommandInRange'
  BY <1>1, <1>2, <1>7 DEF SocketTypeOK, PollsInRange, CommandInRange
<1>9. e <= connected
  <2>1. toDrone[e] # <<>>
    BY <1>3, <1>4
  <2>2. ~(connected < e)
    BY <2>1 DEF SocketInv, NotYetConnected
  <2> QED BY <1>1, <2>2 DEF Drone
<1>10. \A d \in Drone : Coming(d)' + missing'[d] = Coming(d) + missing[d]
  <2> TAKE d \in Drone
  <2>1. CASE d # e
    BY <1>7, <2>1 DEF Coming
  <2>2. CASE d = e
    <3>1. /\ toServer'[e] \in Nat /\ missing'[e] \in Nat /\ toServer[e] \in Nat
          /\ missing[e] \in Nat /\ batch \in Nat /\ Informations(rest) \in Nat
          /\ toServer'[e] + missing'[e] = toServer[e] + missing[e] + batch
      BY <1>4, <1>5, <1>7
    <3>2. /\ Coming(d)' = Informations(rest) + toServer'[e]
          /\ Coming(d) = batch + Informations(rest) + toServer[e]
      BY <1>5, <1>7, <2>2 DEF Coming
    <3>3. missing'[d] = missing'[e] /\ missing[d] = missing[e]
      BY <2>2
    <3>4. PICK i \in Nat, s \in Nat, t \in Nat, m \in Nat, k \in Nat, b \in Nat :
            /\ i = Informations(rest) /\ b = batch
            /\ s = toServer[e] /\ t = toServer'[e] /\ m = missing[e] /\ k = missing'[e]
      BY <3>1, Zenon
    <3>5. t + k = s + m + b
      BY <3>1, <3>4
    <3>6. (i + t) + k = (b + i + s) + m
      BY <3>5
    <3> QED BY <3>2, <3>3, <3>4, <3>6
  <2> QED BY <2>1, <2>2
<1>11. \A d \in Drone : /\ Cardinality(Waiters(d)') = Cardinality(Waiters(d))
                        /\ Joining(d)' = Joining(d)
  BY <1>2, SamePolls DEF Joining
<1>12. ASSUME NEW d \in Drone, connected < d
       PROVE  /\ toDrone'[d] = toDrone[d] /\ toServer'[d] = toServer[d]
              /\ newcomer'[d] = newcomer[d]
              /\ missing'[d] = missing[d] /\ abandoned'[d] = abandoned[d]
  <2>1. d # e
    BY <1>1, <1>9, <1>12 DEF Drone
  <2> QED BY <1>2, <1>7, <2>1
<1> QED BY <1>2, <1>8, <1>10, <1>11, <1>12, Rest

LEMMA SocketInvStep == ASSUME SocketInv, [SocketNext]_socketVars PROVE SocketInv'
<1>1. CASE SocketNext
  BY <1>1, AcceptStep, BeginPollStep, PollSendStep, PollTurnStep, PollReceiveStep, CommandStep,
     NewcomerStep, ControllerStep DEF SocketNext
<1>2. CASE UNCHANGED socketVars
  <2>1. /\ connected' = connected /\ toDrone' = toDrone /\ toServer' = toServer
        /\ newcomer' = newcomer /\ poll' = poll /\ command' = command
        /\ missing' = missing /\ abandoned' = abandoned
    BY <1>2 DEF socketVars, streams, histories
  <2>2. SocketTypeOK' /\ PollsInRange' /\ CommandInRange'
    BY <2>1 DEF SocketInv, SocketTypeOK, PollsInRange, CommandInRange
  <2>3. \A d \in Drone : /\ Cardinality(Waiters(d)') = Cardinality(Waiters(d))
                         /\ Joining(d)' = Joining(d) /\ Coming(d)' = Coming(d)
    BY <2>1, SamePolls DEF Joining, Coming
  <2> QED BY <2>1, <2>2, <2>3, Rest
<1> QED BY <1>1, <1>2

----------------------------------------------------------------------------
(* Both ways.                                                               *)

LEMMA LinksInitial == LinksInit => TypeOK /\ LinkInv /\ SocketInv
BY LinkInit, SocketInvInit DEF LinksInit

LEMMA LinksStep ==
    ASSUME TypeOK, LinkInv, SocketInv, [LinksNext]_<<which, socketVars, vars>>
    PROVE  (TypeOK /\ LinkInv /\ SocketInv)'
<1>1. [Next]_vars /\ [SocketNext]_socketVars
  BY DEF LinksNext
<1> QED BY <1>1, LinkStep, SocketInvStep

\* Theorem: the variables of the queues, tasks and sockets keep their types and
\* the queues their lengths, for every fleet and every length of a queue.
THEOREM LinksTypeCorrect == LinksSpec => []LinksTypeOK
<1>1. TypeOK /\ SocketInv => LinksTypeOK
  BY DEF SocketInv, LinksTypeOK
<1> QED BY <1>1, LinksInitial, LinksStep, PTL DEF LinksSpec

\* Theorem: with each simulated drone, however many there are and however many
\* polls overlap, one thread more waits than there are requests and answers on
\* their way, but for the answers lost in a batch and those nobody waits for:
\* the constructor of SimDrone takes an answer that it did not ask for.
THEOREM OneAnswerShort == LinksSpec => []AnswersBalance
<1>1. SocketInv => AnswersBalance
  BY DEF SocketInv
<1> QED BY <1>1, LinksInitial, LinksStep, PTL DEF LinksSpec
=============================================================================
