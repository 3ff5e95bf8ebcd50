--------------------------- MODULE CrtpLink_proofs ---------------------------
(* Theorems about the firmware's links, for queues of any lengths.           *)
EXTENDS CrtpLink, FiniteSetTheorems, TLAPS

(* The queues: what is in them, and in which order. *)

\* Packets of the same link, the earlier in the sequence, or in S, received first.
Sorted(s) == \A i, j \in DOMAIN s : i < j /\ s[i].from = s[j].from => s[i].id < s[j].id
Before(S, T) == \A p \in S, q \in T : p.from = q.from => p.id < q.id

LEMMA QueueSet ==
    ASSUME NEW E, NEW s \in Seq(E)
    PROVE  ToSet(s) \subseteq E
BY DEF ToSet

LEMMA EmptyQueue == ToSet(<<>>) = {} /\ Sorted(<<>>) /\ IsInjective(<<>>)
BY DEF ToSet, Sorted, IsInjective

LEMMA SingleQueue ==
    ASSUME NEW e
    PROVE  ToSet(<<e>>) = {e} /\ Sorted(<<e>>) /\ IsInjective(<<e>>)
BY DEF ToSet, Sorted, IsInjective

LEMMA JoinSet ==
    ASSUME NEW E, NEW s \in Seq(E), NEW t \in Seq(E)
    PROVE  ToSet(s \o t) = ToSet(s) \cup ToSet(t)
<1>1. /\ Len(s) \in Nat /\ DOMAIN s = 1..Len(s) /\ Len(t) \in Nat /\ DOMAIN t = 1..Len(t)
      /\ DOMAIN (s \o t) = 1..(Len(s) + Len(t))
  OBVIOUS
<1>2. ASSUME NEW i \in DOMAIN (s \o t) PROVE (s \o t)[i] \in ToSet(s) \cup ToSet(t)
  <2>1. CASE i \in 1..Len(s)
    BY <1>1, <2>1 DEF ToSet
  <2>2. CASE i \notin 1..Len(s)
    <3>1. i - Len(s) \in DOMAIN t /\ (s \o t)[i] = t[i - Len(s)]
      BY <1>1, <2>2
    <3> QED BY <3>1 DEF ToSet
  <2> QED BY <2>1, <2>2
<1>3. ASSUME NEW i \in DOMAIN s PROVE s[i] \in ToSet(s \o t)
  <2>1. i \in DOMAIN (s \o t) /\ (s \o t)[i] = s[i]
    BY <1>1
  <2> QED BY <2>1 DEF ToSet
<1>4. ASSUME NEW i \in DOMAIN t PROVE t[i] \in ToSet(s \o t)
  <2>1. Len(s) + i \in DOMAIN (s \o t) /\ (s \o t)[Len(s) + i] = t[i]
    BY <1>1
  <2> QED BY <2>1 DEF ToSet
<1> QED BY <1>2, <1>3, <1>4 DEF ToSet

\* Where an element of two sequences joined comes from.
LEMMA JoinIndex ==
    ASSUME NEW E, NEW s \in Seq(E), NEW t \in Seq(E), NEW i \in DOMAIN (s \o t)
    PROVE  \/ i \in DOMAIN s /\ (s \o t)[i] = s[i]
           \/ i - Len(s) \in DOMAIN t /\ i > Len(s) /\ (s \o t)[i] = t[i - Len(s)]
<1>1. CASE i \in DOMAIN s
  BY <1>1
<1>2. CASE i \notin DOMAIN s
  BY <1>2
<1> QED BY <1>1, <1>2

LEMMA JoinSorted ==
    ASSUME NEW E, NEW s \in Seq(E), NEW t \in Seq(E),
           Sorted(s), Sorted(t), Before(ToSet(s), ToSet(t))
    PROVE  Sorted(s \o t)
<1> SUFFICES ASSUME NEW i \in DOMAIN (s \o t), NEW j \in DOMAIN (s \o t), i < j,
                    (s \o t)[i].from = (s \o t)[j].from
             PROVE  (s \o t)[i].id < (s \o t)[j].id
  BY DEF Sorted
<1>1. i \in Int /\ j \in Int /\ Len(s) \in Nat /\ DOMAIN s = 1..Len(s)
  OBVIOUS
<1>2. CASE j \in DOMAIN s /\ (s \o t)[j] = s[j]
  <2>1. i \in DOMAIN s /\ (s \o t)[i] = s[i]
    BY <1>1, <1>2, JoinIndex
  <2> QED BY <1>2, <2>1 DEF Sorted
<1>3. CASE j - Len(s) \in DOMAIN t /\ j > Len(s) /\ (s \o t)[j] = t[j - Len(s)]
  <2>1. CASE i \in DOMAIN s /\ (s \o t)[i] = s[i]
    BY <1>3, <2>1 DEF Before, ToSet
  <2>2. CASE i - Len(s) \in DOMAIN t /\ (s \o t)[i] = t[i - Len(s)]
    <3>1. i - Len(s) < j - Len(s)
      BY <1>1
    <3> QED BY <1>3, <2>2, <3>1 DEF Sorted
  <2> QED BY <2>1, <2>2, JoinIndex
<1> QED BY <1>2, <1>3, JoinIndex

LEMMA JoinInjective ==
    ASSUME NEW E, NEW s \in Seq(E), NEW t \in Seq(E),
           IsInjective(s), IsInjective(t), ToSet(s) \cap ToSet(t) = {}
    PROVE  IsInjective(s \o t)
<1> SUFFICES ASSUME NEW i \in DOMAIN (s \o t), NEW j \in DOMAIN (s \o t),
                    (s \o t)[i] = (s \o t)[j]
             PROVE  i = j
  BY DEF IsInjective
<1>1. i \in Int /\ j \in Int /\ Len(s) \in Nat
  OBVIOUS
<1>2. \A k \in DOMAIN s, m \in DOMAIN t : s[k] # t[m]
  BY DEF ToSet
<1>3. CASE i \in DOMAIN s /\ (s \o t)[i] = s[i]
  <2>1. j \in DOMAIN s /\ (s \o t)[j] = s[j]
    <3>1. \/ j \in DOMAIN s /\ (s \o t)[j] = s[j]
          \/ j - Len(s) \in DOMAIN t /\ (s \o t)[j] = t[j - Len(s)]
      BY JoinIndex
    <3> QED BY <1>2, <1>3, <3>1
  <2> QED BY <1>3, <2>1 DEF IsInjective
<1>4. CASE i - Len(s) \in DOMAIN t /\ (s \o t)[i] = t[i - Len(s)]
  <2>1. j - Len(s) \in DOMAIN t /\ (s \o t)[j] = t[j - Len(s)]
    BY <1>2, <1>4, JoinIndex, ZenonT(40)
  <2>2. i - Len(s) = j - Len(s)
    BY <1>4, <2>1 DEF IsInjective
  <2> QED BY <1>1, <2>2
<1> QED BY <1>3, <1>4, JoinIndex

LEMMA AppendToQueue ==
    ASSUME NEW E, NEW s \in Seq(E), NEW e \in E
    PROVE  /\ Append(s, e) \in Seq(E)
           /\ ToSet(Append(s, e)) = ToSet(s) \cup {e}
           /\ Sorted(s) /\ Before(ToSet(s), {e}) => Sorted(Append(s, e))
           /\ IsInjective(s) /\ e \notin ToSet(s) => IsInjective(Append(s, e))
<1>1. PICK t \in Seq(E) : t = <<e>> /\ Append(s, e) = s \o t
  <2>1. <<e>> \in Seq(E) /\ Append(s, e) = s \o <<e>>
    OBVIOUS
  <2>2. WITNESS <<e>> \in Seq(E)
  <2> QED BY <2>1
<1>2. ToSet(t) = {e} /\ Sorted(t) /\ IsInjective(t)
  BY <1>1, SingleQueue
<1>3. e \notin ToSet(s) => ToSet(s) \cap ToSet(t) = {}
  BY <1>2
<1>4. ToSet(s \o t) = ToSet(s) \cup {e}
  BY <1>2, JoinSet
<1>5. /\ Sorted(s) /\ Before(ToSet(s), {e}) => Sorted(s \o t)
      /\ IsInjective(s) /\ e \notin ToSet(s) => IsInjective(s \o t)
  BY <1>2, <1>3, JoinSorted, JoinInjective
<1>6. Append(s, e) \in Seq(E)
  OBVIOUS
<1> QED BY <1>1, <1>4, <1>5, <1>6

LEMMA TakeFromQueue ==
    ASSUME NEW E, NEW s \in Seq(E), s # <<>>
    PROVE  /\ Head(s) \in E /\ Tail(s) \in Seq(E) /\ Len(Tail(s)) = Len(s) - 1
           /\ ToSet(s) = {Head(s)} \cup ToSet(Tail(s))
           /\ Sorted(s) => Sorted(Tail(s)) /\ Before({Head(s)}, ToSet(Tail(s)))
           /\ IsInjective(s) => IsInjective(Tail(s)) /\ Head(s) \notin ToSet(Tail(s))
<1>1. /\ Head(s) = s[1] /\ 1 \in DOMAIN s
      /\ \A i \in DOMAIN Tail(s) : i \in Nat \ {0} /\ i + 1 \in DOMAIN s /\ Tail(s)[i] = s[i + 1]
  OBVIOUS
<1>2. ToSet(s) = {Head(s)} \cup ToSet(Tail(s))
  <2>1. ASSUME NEW i \in DOMAIN s PROVE s[i] \in {Head(s)} \cup ToSet(Tail(s))
    <3>1. CASE i = 1
      BY <1>1, <3>1
    <3>2. CASE i # 1
      <4>1. i - 1 \in DOMAIN Tail(s) /\ Tail(s)[i - 1] = s[i]
        BY <3>2
      <4> QED BY <4>1 DEF ToSet
    <3> QED BY <3>1, <3>2
  <2>2. ASSUME NEW i \in DOMAIN Tail(s) PROVE Tail(s)[i] \in ToSet(s)
    BY <1>1 DEF ToSet
  <2> QED BY <1>1, <2>1, <2>2 DEF ToSet
<1>3. ASSUME Sorted(s) PROVE Sorted(Tail(s)) /\ Before({Head(s)}, ToSet(Tail(s)))
  <2>1. ASSUME NEW i \in DOMAIN Tail(s), Head(s).from = Tail(s)[i].from
        PROVE  Head(s).id < Tail(s)[i].id
    <3>1. 1 < i + 1
      BY <1>1
    <3> QED BY <1>1, <1>3, <2>1, <3>1 DEF Sorted
  <2>2. ASSUME NEW i \in DOMAIN Tail(s), NEW j \in DOMAIN Tail(s), i < j,
               Tail(s)[i].from = Tail(s)[j].from
        PROVE  Tail(s)[i].id < Tail(s)[j].id
    <3>1. i + 1 < j + 1
      BY <1>1, <2>2
    <3> QED BY <1>1, <1>3, <2>2, <3>1 DEF Sorted
  <2> QED BY <2>1, <2>2 DEF Sorted, Before, ToSet
<1>4. ASSUME IsInjective(s) PROVE IsInjective(Tail(s)) /\ Head(s) \notin ToSet(Tail(s))
  <2>1. ASSUME NEW i \in DOMAIN Tail(s) PROVE Head(s) # Tail(s)[i]
    <3>1. 1 # i + 1
      BY <1>1
    <3> QED BY <1>1, <1>4, <3>1 DEF IsInjective
  <2>2. ASSUME NEW i \in DOMAIN Tail(s), NEW j \in DOMAIN Tail(s), Tail(s)[i] = Tail(s)[j]
        PROVE  i = j
    <3>1. i + 1 = j + 1
      BY <1>1, <1>4, <2>2 DEF IsInjective
    <3> QED BY <1>1, <3>1
  <2> QED BY <2>1, <2>2 DEF IsInjective, ToSet
<1> QED BY <1>2, <1>3, <1>4

LEMMA DistinctLength ==
    ASSUME NEW E, NEW s \in Seq(E), IsInjective(s)
    PROVE  Cardinality(ToSet(s)) = Len(s)
<1>1. Len(s) \in Nat /\ DOMAIN s = 1..Len(s) /\ s \in [1..Len(s) -> E]
  OBVIOUS
<1>2. s \in [1..Len(s) -> ToSet(s)]
  BY <1>1 DEF ToSet
<1>3. s \in Bijection(1..Len(s), ToSet(s))
  BY <1>1, <1>2 DEF Bijection, Injection, Surjection, ToSet
<1>4. IsFiniteSet(1..Len(s)) /\ Cardinality(1..Len(s)) = Len(s)
  BY <1>1, FS_Interval
<1> QED BY <1>3, <1>4, FS_Bijection DEF ExistsBijection

----------------------------------------------------------------------------
(* The steps, by what they change of the way in and of the way out. *)

Arrives(l, kind) ==
    Enqueue(l, kind) /\ UNCHANGED <<rx, portQueue, server, appQueue, processed, overflowed>>
Flushes(l) ==
    /\ outQueue' = [outQueue EXCEPT ![l] = <<>>]
    /\ gone' = gone \cup ToSet(outQueue[l])
    /\ UNCHANGED <<txQueue, tx, made>>
Sends == SendPacket /\ UNCHANGED <<tx, outQueue, gone>>

InStep ==
    \/ \E l \in Links, kind \in Kinds : Arrives(l, kind)
    \/ RxChoose \/ RxReceive \/ RxForward
    \/ ServerTake \/ appchannelIncomingPacket \/ ServerAnswer \/ appchannelReceivePacket
    \/ UNCHANGED inVars
OutStep ==
    \/ \E l \in Links : Flushes(l)
    \/ UsbDataIn \/ Sends \/ LogReset \/ TxTake \/ TxChoose \/ TxSend \/ TxTimeout
    \/ UNCHANGED outVars

LEMMA Steps == ASSUME [Next]_vars PROVE InStep /\ OutStep
<1> USE DEF InStep, OutStep
<1>1. "radio" \in Links /\ "usb" \in Links
  BY DEF Links
<1>2. ASSUME NEW kind \in Kinds, RadioDispatch(kind) PROVE InStep /\ OutStep
  <2>1. CASE UNCHANGED <<link, inVars, outVars>>
    BY <2>1
  <2>2. CASE Arrives("radio", kind) /\ Flushes("radio")
    BY <1>1, <2>2
  <2> QED BY <1>2, <2>1, <2>2 DEF RadioDispatch, Arrives, Flushes
<1>3. ASSUME NEW l \in Links, NEW kind \in Kinds, OtherDispatch(l, kind) PROVE InStep /\ OutStep
  <2>1. Arrives(l, kind) /\ UNCHANGED outVars
    BY <1>3 DEF OtherDispatch, Arrives
  <2> QED BY <2>1
<1>4. CASE ResetUSB
  <2>1. UNCHANGED inVars /\ Flushes("usb")
    BY <1>4 DEF ResetUSB, Flushes
  <2> QED BY <1>1, <2>1
<1>5. ASSUME NEW l \in Links, SetLink(l) PROVE InStep /\ OutStep
  BY <1>5 DEF SetLink
<1>6. CASE UsbDataIn \/ LogReset \/ TxTake \/ TxChoose \/ TxSend \/ TxTimeout
  BY <1>6 DEF UsbDataIn, LogReset, TxTake, TxChoose, TxSend, TxTimeout
<1>7. CASE RxChoose \/ RxReceive \/ RxForward
  BY <1>7 DEF RxChoose, RxReceive, RxForward, RxVars
<1>8. CASE ServerTake \/ appchannelIncomingPacket \/ appchannelReceivePacket
  BY <1>8 DEF ServerTake, appchannelIncomingPacket, appchannelReceivePacket, ServerVars, outVars
<1>9. CASE ServerAnswer
  BY <1>9 DEF ServerAnswer, ServerVars, outVars, Sends
<1>10. CASE LogBlock
  BY <1>10 DEF LogBlock, Sends
<1>11. CASE UNCHANGED vars
  BY <1>11 DEF vars
<1> QED BY <1>2, <1>3, <1>4, <1>5, <1>6, <1>7, <1>8, <1>9, <1>10, <1>11 DEF Next

----------------------------------------------------------------------------
(* The types. The receiving task and the sending task hold a packet exactly  *)
(* while they handle one.                                                    *)

InTypes ==
    /\ inQueue \in [Links -> Seq(Packet)]
    /\ rx \in [at : Links \cup {"choose", "forward"}, packet : Packet \cup {None}]
    /\ portQueue \in Seq(Packet) /\ Len(portQueue) <= PortQueue
    /\ server \in Packet \cup {None}
    /\ appQueue \in Seq(Packet) /\ Len(appQueue) <= AppQueue
    /\ accepted \in 0..MaxIn
    /\ processed \subseteq 1..MaxIn /\ overflowed \subseteq 1..MaxIn
    /\ rx.at = "forward" <=> rx.packet # None

OutTypes ==
    /\ txQueue \in Seq(1..MaxOut) /\ Len(txQueue) <= TxQueue
    /\ tx \in [at : Links \cup {"take", "choose"}, packet : 0..MaxOut]
    /\ outQueue \in [Links -> Seq(1..MaxOut)]
    /\ made \in 0..MaxOut /\ gone \subseteq 1..MaxOut
    /\ tx.at # "take" => tx.packet \in 1..MaxOut

LEMMA NoneIsNoPacket == None \notin Packet
BY DEF None, Packet, Kinds

LEMMA Sizes ==
    /\ PortQueue \in Nat \ {0} /\ AppQueue \in Nat \ {0} /\ TxQueue \in Nat \ {0}
    /\ MaxIn \in Nat /\ MaxOut \in Nat
BY SizeAssumption, BoundAssumption

LEMMA InTypeStep == ASSUME link \in Links, InTypes, InStep PROVE InTypes'
<1> USE DEF InTypes
<1>1. ASSUME NEW p \in Packet PROVE p.id \in 1..MaxIn /\ p # None
  BY NoneIsNoPacket DEF Packet
<1>2. ASSUME NEW l \in Links, NEW kind \in Kinds, Arrives(l, kind) PROVE InTypes'
  <2>1. [id |-> accepted + 1, kind |-> kind, from |-> l] \in Packet
    BY <1>2, Sizes DEF Arrives, Enqueue, Packet
  <2>2. inQueue' \in [Links -> Seq(Packet)] /\ accepted' \in 0..MaxIn
    BY <1>2, <2>1, Sizes DEF Arrives, Enqueue
  <2> QED BY <1>2, <2>2 DEF Arrives
<1>3. CASE RxChoose
  <2>1. rx.packet = None /\ rx' = [at |-> link, packet |-> None]
    BY <1>3 DEF RxChoose
  <2>2. link \in Links /\ link # "forward"
    BY DEF Links
  <2> QED BY <1>3, <2>1, <2>2 DEF RxChoose, RxVars
<1>4. CASE RxReceive
  <2>1. CASE inQueue[rx.at] = <<>>
    <3>1. rx.packet = None /\ rx' = [at |-> "choose", packet |-> None]
      BY <1>4, <2>1 DEF RxReceive, Links
    <3>2. UNCHANGED <<inQueue, portQueue, processed, appQueue, server, accepted, overflowed>>
      BY <1>4, <2>1 DEF RxReceive, RxVars
    <3> QED BY <3>1, <3>2
  <2>2. CASE inQueue[rx.at] # <<>>
    <3>1. Head(inQueue[rx.at]) \in Packet /\ Tail(inQueue[rx.at]) \in Seq(Packet)
      BY <1>4, <2>2 DEF RxReceive
    <3>2. rx' = [at |-> "forward", packet |-> Head(inQueue[rx.at])]
      BY <1>4, <2>2 DEF RxReceive
    <3>3. inQueue' \in [Links -> Seq(Packet)]
      BY <1>4, <2>2, <3>1 DEF RxReceive
    <3>4. UNCHANGED <<portQueue, processed, appQueue, server, accepted, overflowed>>
      BY <1>4 DEF RxReceive, RxVars
    <3> QED BY <1>1, <3>1, <3>2, <3>3, <3>4
  <2> QED BY <2>1, <2>2
<1>5. CASE RxForward
  <2>1. rx.packet \in Packet
    BY <1>5 DEF RxForward
  <2>2. rx.packet.id \in 1..MaxIn
    BY <1>1, <2>1
  <2>3. /\ portQueue' \in Seq(Packet) /\ Len(portQueue') <= PortQueue
        /\ processed' \subseteq 1..MaxIn
    <3>1. CASE CallBack
      BY <2>2, <3>1 DEF CallBack
    <3>2. CASE Len(portQueue) < PortQueue /\ portQueue' = Append(portQueue, rx.packet)
               /\ UNCHANGED processed
      <4>1. portQueue' \in Seq(Packet) /\ Len(portQueue') = Len(portQueue) + 1
        BY <2>1, <3>2
      <4> QED BY <3>2, <4>1, Sizes
    <3> QED BY <1>5, <3>1, <3>2 DEF RxForward
  <2>4. UNCHANGED <<inQueue, appQueue, server, accepted, overflowed>>
    BY <1>5 DEF RxForward, CallBack, RxVars
  <2>5. rx' = [at |-> "choose", packet |-> None]
    BY <1>5 DEF RxForward
  <2> QED BY <2>3, <2>4, <2>5
<1>6. CASE ServerTake
  <2>1. /\ Head(portQueue) \in Packet /\ Tail(portQueue) \in Seq(Packet)
        /\ Len(Tail(portQueue)) <= PortQueue
    BY <1>6, Sizes DEF ServerTake
  <2> QED BY <1>6, <2>1 DEF ServerTake, ServerVars
<1>7. CASE appchannelIncomingPacket
  <2>1. server \in Packet /\ server.id \in 1..MaxIn
    BY <1>1, <1>7 DEF appchannelIncomingPacket, None
  <2>2. appQueue' \in Seq(Packet) /\ Len(appQueue') <= AppQueue /\ overflowed' \subseteq 1..MaxIn
    <3>1. CASE Len(appQueue) < AppQueue
      <4>1. appQueue' = Append(appQueue, server) /\ UNCHANGED overflowed
        BY <1>7, <3>1 DEF appchannelIncomingPacket
      <4>2. appQueue' \in Seq(Packet) /\ Len(appQueue') = Len(appQueue) + 1
        BY <2>1, <4>1
      <4> QED BY <3>1, <4>1, <4>2, Sizes
    <3>2. CASE ~(Len(appQueue) < AppQueue)
      BY <1>7, <2>1, <3>2 DEF appchannelIncomingPacket
    <3> QED BY <3>1, <3>2
  <2> QED BY <1>7, <2>2 DEF appchannelIncomingPacket, ServerVars
<1>8. CASE ServerAnswer
  <2>1. server \in Packet /\ server.id \in 1..MaxIn
    BY <1>1, <1>8 DEF ServerAnswer, None
  <2> QED BY <1>8, <2>1 DEF ServerAnswer, ServerVars
<1>9. CASE appchannelReceivePacket
  <2>1. /\ Head(appQueue) \in Packet /\ Tail(appQueue) \in Seq(Packet)
        /\ Len(Tail(appQueue)) <= AppQueue
    BY <1>9, Sizes DEF appchannelReceivePacket
  <2>2. Head(appQueue).id \in 1..MaxIn
    BY <1>1, <2>1
  <2> QED BY <1>9, <2>1, <2>2 DEF appchannelReceivePacket, ServerVars
<1>10. CASE UNCHANGED inVars
  BY <1>10 DEF inVars
<1> QED BY <1>2, <1>3, <1>4, <1>5, <1>6, <1>7, <1>8, <1>9, <1>10 DEF InStep

LEMMA OutTypeStep == ASSUME link \in Links, OutTypes, OutStep PROVE OutTypes'
<1> USE DEF OutTypes
<1>1. \A s \in Seq(1..MaxOut) : ToSet(s) \subseteq 1..MaxOut
  BY QueueSet
<1>2. ASSUME NEW l \in Links, Flushes(l) PROVE OutTypes'
  <2>1. ToSet(outQueue[l]) \subseteq 1..MaxOut
    BY <1>1
  <2>2. outQueue' \in [Links -> Seq(1..MaxOut)]
    BY <1>2 DEF Flushes
  <2> QED BY <1>2, <2>1, <2>2 DEF Flushes
<1>3. CASE UsbDataIn
  <2>1. "usb" \in Links /\ outQueue["usb"] \in Seq(1..MaxOut)
    BY DEF Links
  <2>2. Head(outQueue["usb"]) \in 1..MaxOut /\ Tail(outQueue["usb"]) \in Seq(1..MaxOut)
    BY <1>3, <2>1, TakeFromQueue DEF UsbDataIn
  <2>3. outQueue' \in [Links -> Seq(1..MaxOut)]
    BY <1>3, <2>2 DEF UsbDataIn
  <2> QED BY <1>3, <2>2, <2>3 DEF UsbDataIn
<1>4. CASE Sends
  <2>1. txQueue' \in Seq(1..MaxOut) /\ Len(txQueue') <= TxQueue /\ made' \in 0..MaxOut
    BY <1>4, Sizes DEF Sends, SendPacket
  <2> QED BY <1>4, <2>1 DEF Sends
<1>5. CASE LogReset
  <2>1. ToSet(txQueue) \subseteq 1..MaxOut /\ <<>> \in Seq(1..MaxOut) /\ Len(<<>>) <= TxQueue
    BY <1>1, Sizes
  <2> QED BY <1>5, <2>1 DEF LogReset
<1>6. CASE TxTake
  <2>1. /\ Head(txQueue) \in 1..MaxOut /\ Tail(txQueue) \in Seq(1..MaxOut)
        /\ Len(Tail(txQueue)) <= TxQueue
    BY <1>6, Sizes DEF TxTake
  <2> QED BY <1>6, <2>1 DEF TxTake
<1>7. CASE TxTimeout
  <2>1. tx.packet \in 1..MaxOut /\ tx' = [at |-> "choose", packet |-> tx.packet]
    BY <1>7 DEF TxTimeout, Links
  <2> QED BY <1>7, <2>1 DEF TxTimeout
<1>8. CASE TxChoose
  <2>1. tx.packet \in 1..MaxOut /\ tx' = [at |-> link, packet |-> tx.packet]
    BY <1>8 DEF TxChoose
  <2> QED BY <1>8, <2>1 DEF TxChoose
<1>9. CASE TxSend
  <2>1. tx.at \in Links /\ tx.packet \in 1..MaxOut
    BY <1>9 DEF TxSend, Links
  <2>2. outQueue' \in [Links -> Seq(1..MaxOut)]
    BY <1>9, <2>1 DEF TxSend
  <2>3. tx' = [at |-> "take", packet |-> 0] /\ 0 \in 0..MaxOut
    BY <1>9, Sizes DEF TxSend
  <2> QED BY <1>9, <2>2, <2>3 DEF TxSend
<1>10. CASE UNCHANGED outVars
  BY <1>10 DEF outVars
<1> QED BY <1>2, <1>3, <1>4, <1>5, <1>6, <1>7, <1>8, <1>9, <1>10 DEF OutStep

----------------------------------------------------------------------------
(* The way in. Five stages, the packets nearest to the application first;    *)
(* every packet is in one of them, and behind it are only later ones.        *)

App == ToSet(appQueue)
Srv == ToSet(Held(server))
Port == ToSet(portQueue)
Rx == ToSet(Held(rx.packet))
Arrived == ToSet(inQueue["radio"]) \cup ToSet(inQueue["usb"])
Around == App \cup Srv \cup Port \cup Rx \cup Arrived

StagesInOrder ==
    /\ \A l \in Links : Sorted(inQueue[l]) /\ \A p \in ToSet(inQueue[l]) : p.from = l
    /\ Sorted(appQueue) /\ Sorted(portQueue)
    /\ Before(App, Srv \cup Port \cup Rx \cup Arrived)
    /\ Before(Srv, Port \cup Rx \cup Arrived)
    /\ Before(Port, Rx \cup Arrived)
    /\ Before(Rx, Arrived)

IdsOf(S) == {p.id : p \in S}

EachOnce ==
    /\ \A p, q \in Around : p.id = q.id => p = q
    /\ 1..accepted = processed \cup overflowed \cup IdsOf(Around)
    /\ IdsOf(Around) \cap (processed \cup overflowed) = {}

LEMMA HeldSet ==
    ASSUME NEW p
    PROVE  /\ p = None => Held(p) = <<>> /\ ToSet(Held(p)) = {}
           /\ p # None => Held(p) = <<p>> /\ ToSet(Held(p)) = {p}
BY EmptyQueue, SingleQueue DEF Held

\* What is around, typed.
LEMMA AroundPackets ==
    ASSUME InTypes
    PROVE  /\ Around \subseteq Packet /\ \A p \in Around : p.id \in Nat /\ p.from \in Links
           /\ inQueue["radio"] \in Seq(Packet) /\ inQueue["usb"] \in Seq(Packet)
           /\ accepted \in Nat
<1>1. inQueue["radio"] \in Seq(Packet) /\ inQueue["usb"] \in Seq(Packet) /\ accepted \in Nat
  BY Sizes DEF InTypes, Links
<1>2. App \subseteq Packet /\ Port \subseteq Packet /\ Arrived \subseteq Packet
  BY <1>1, QueueSet DEF App, Port, Arrived, InTypes
<1>3. Srv \subseteq Packet /\ Rx \subseteq Packet
  BY HeldSet DEF Srv, Rx, InTypes
<1>4. Around \subseteq Packet
  BY <1>2, <1>3 DEF Around
<1> QED BY <1>1, <1>4, Sizes DEF Packet

\* A stage that comes before the others has none of their packets.
LEMMA Apart ==
    ASSUME NEW S \in SUBSET Packet, NEW T, Before(S, T)
    PROVE  S \cap T = {}
BY DEF Before, Packet

LEMMA InInit == Init => StagesInOrder /\ EachOnce
<1> SUFFICES ASSUME Init PROVE StagesInOrder /\ EachOnce
  OBVIOUS
<1>1. \A l \in Links : inQueue[l] = <<>>
  BY DEF Init
<1>2. App = {} /\ Srv = {} /\ Port = {} /\ Rx = {} /\ Arrived = {}
  BY <1>1, EmptyQueue, HeldSet DEF Init, App, Srv, Port, Rx, Arrived, Links
<1>3. StagesInOrder
  BY <1>1, <1>2, EmptyQueue DEF Init, StagesInOrder, Before
<1>4. EachOnce
  BY <1>2 DEF Init, EachOnce, Around, IdsOf
<1> QED BY <1>3, <1>4

\* A packet that comes in is behind all others.
LEMMA ArriveStep ==
    ASSUME InTypes, StagesInOrder, EachOnce, NEW l \in Links, NEW kind \in Kinds, Arrives(l, kind)
    PROVE  (StagesInOrder /\ EachOnce)'
<1> DEFINE new == [id |-> accepted + 1, kind |-> kind, from |-> l]
<1>1. new \in Packet /\ new.id = accepted + 1 /\ new.from = l
  BY Sizes DEF Arrives, Enqueue, Packet, InTypes
<1>2. /\ inQueue' = [inQueue EXCEPT ![l] = Append(@, new)] /\ accepted' = accepted + 1
      /\ UNCHANGED <<rx, portQueue, server, appQueue, processed, overflowed>>
  BY DEF Arrives, Enqueue
<1> HIDE DEF new
<1>3. \A p \in Around : p.id \in 1..accepted
  BY DEF EachOnce, IdsOf
<1>4. ToSet(inQueue[l]) \subseteq Around /\ inQueue[l] \in Seq(Packet)
  BY DEF Around, Arrived, Links, InTypes
<1>5. Before(ToSet(inQueue[l]), {new}) /\ Before(Around, {new})
  BY <1>1, <1>3, <1>4, AroundPackets DEF Before
<1>6. /\ inQueue'[l] = Append(inQueue[l], new)
      /\ ToSet(inQueue'[l]) = ToSet(inQueue[l]) \cup {new} /\ Sorted(inQueue'[l])
  BY <1>1, <1>2, <1>4, <1>5, AppendToQueue DEF InTypes, StagesInOrder
<1>7. \A m \in Links \ {l} : inQueue'[m] = inQueue[m]
  BY <1>2 DEF InTypes
<1>8. Arrived' = Arrived \cup {new}
  BY <1>6, <1>7 DEF Arrived, Links
<1>9. App' = App /\ Srv' = Srv /\ Port' = Port /\ Rx' = Rx /\ Around' = Around \cup {new}
  BY <1>2, <1>8 DEF App, Srv, Port, Rx, Around, Held
<1>10. StagesInOrder'
  <2>1. \A m \in Links : Sorted(inQueue'[m]) /\ \A p \in ToSet(inQueue'[m]) : p.from = m
    BY <1>1, <1>6, <1>7 DEF StagesInOrder
  <2>2. Before(App, {new}) /\ Before(Srv, {new}) /\ Before(Port, {new}) /\ Before(Rx, {new})
    BY <1>5 DEF Before, Around
  <2>3. \A S, T : Before(S, T) /\ Before(S, {new}) => Before(S, T \cup {new})
    BY DEF Before
  <2>4. /\ Srv \cup Port \cup Rx \cup Arrived \cup {new} = (Srv \cup Port \cup Rx \cup Arrived)'
        /\ Port \cup Rx \cup Arrived \cup {new} = (Port \cup Rx \cup Arrived)'
        /\ Rx \cup Arrived \cup {new} = (Rx \cup Arrived)'
    BY <1>8, <1>9
  <2>5. Sorted(appQueue)' /\ Sorted(portQueue)'
    BY <1>2 DEF StagesInOrder, Sorted
  <2>6. /\ Before(App, Srv \cup Port \cup Rx \cup Arrived)'
        /\ Before(Srv, Port \cup Rx \cup Arrived)'
        /\ Before(Port, Rx \cup Arrived)' /\ Before(Rx, Arrived)'
    BY <1>8, <1>9, <2>2, <2>3, <2>4 DEF StagesInOrder
  <2> QED BY <2>1, <2>5, <2>6 DEF StagesInOrder
<1>11. EachOnce'
  <2>1. \A p \in Around : p.id # new.id
    BY <1>1, <1>3, AroundPackets
  <2>2. \A p, q \in Around' : p.id = q.id => p = q
    BY <1>9, <2>1 DEF EachOnce
  <2>3. IdsOf(Around') = IdsOf(Around) \cup {accepted + 1}
    BY <1>1, <1>9 DEF IdsOf
  <2>4. 1..accepted' = 1..accepted \cup {accepted + 1} /\ accepted + 1 \notin 1..accepted
    BY <1>2, AroundPackets
  <2> QED BY <1>2, <2>2, <2>3, <2>4 DEF EachOnce
<1> QED BY <1>10, <1>11

\* One that is handled is handled nowhere else.
LEMMA Handled ==
    ASSUME EachOnce, NEW p \in Around, Around' = Around \ {p}, accepted' = accepted,
           (processed \cup overflowed)' = (processed \cup overflowed) \cup {p.id}
    PROVE  EachOnce'
<1>1. IdsOf(Around') = IdsOf(Around) \ {p.id} /\ p.id \in IdsOf(Around)
  BY DEF EachOnce, IdsOf
<1>2. \A q, r \in Around' : q.id = r.id => q = r
  BY DEF EachOnce
<1> QED BY <1>1, <1>2 DEF EachOnce

LEMMA Carried ==
    ASSUME EachOnce, Around' = Around, UNCHANGED <<accepted, processed, overflowed>>
    PROVE  EachOnce'
BY DEF EachOnce, IdsOf

LEMMA ReceiveStep ==
    ASSUME InTypes, StagesInOrder, EachOnce, RxReceive
    PROVE  (StagesInOrder /\ EachOnce)'
<1>1. UNCHANGED <<portQueue, processed, appQueue, server, accepted, overflowed>>
  BY DEF RxReceive, RxVars
<1>2. rx.at \in Links /\ rx.packet = None /\ Rx = {}
  BY HeldSet DEF RxReceive, Links, InTypes, Rx
<1>3. App' = App /\ Srv' = Srv /\ Port' = Port
  BY <1>1 DEF App, Srv, Port, Held
<1>4. CASE inQueue[rx.at] = <<>>
  <2>1. rx'.packet = None /\ inQueue' = inQueue /\ Rx' = {} /\ Arrived' = Arrived
    BY <1>2, <1>4, HeldSet DEF RxReceive, Rx, Arrived, InTypes
  <2>2. Around' = Around
    BY <1>2, <1>3, <2>1 DEF Around
  <2> QED BY <1>1, <1>2, <1>3, <2>1, <2>2, Carried DEF StagesInOrder
<1>5. CASE inQueue[rx.at] # <<>>
  <2> DEFINE l == rx.at
             p == Head(inQueue[l])
  <2>1. l \in Links /\ inQueue[l] \in Seq(Packet) /\ inQueue[l] # <<>>
    BY <1>2, <1>5 DEF InTypes
  <2>2. /\ p \in Packet /\ Tail(inQueue[l]) \in Seq(Packet)
        /\ ToSet(inQueue[l]) = {p} \cup ToSet(Tail(inQueue[l]))
        /\ Sorted(Tail(inQueue[l])) /\ Before({p}, ToSet(Tail(inQueue[l])))
    BY <2>1, TakeFromQueue DEF StagesInOrder
  <2>3. rx'.packet = p /\ inQueue' = [inQueue EXCEPT ![l] = Tail(@)]
    BY <1>5 DEF RxReceive
  <2>4. inQueue'[l] = Tail(inQueue[l]) /\ \A m \in Links \ {l} : inQueue'[m] = inQueue[m]
    BY <2>1, <2>3 DEF InTypes
  <2> HIDE DEF l, p
  <2>5. Rx' = {p}
    BY <2>2, <2>3, HeldSet, NoneIsNoPacket DEF Rx
  <2>6. Arrived = {p} \cup Arrived'
    BY <2>1, <2>2, <2>4 DEF Arrived, Links
  <2>7. \A m \in Links : \A q \in ToSet(inQueue[m]) : q.from = m
    BY DEF StagesInOrder
  <2>8. \A m \in Links : Sorted(inQueue'[m]) /\ ToSet(inQueue'[m]) \subseteq ToSet(inQueue[m])
    BY <2>2, <2>4 DEF StagesInOrder
  <2>9. Before(Rx', Arrived')
    <3>1. p.from = l
      BY <2>1, <2>2, <2>7
    <3>2. ASSUME NEW q \in Arrived', q.from = l PROVE q \in ToSet(inQueue'[l])
      <4>1. q \in ToSet(inQueue'["radio"]) \/ q \in ToSet(inQueue'["usb"])
        BY DEF Arrived
      <4> QED BY <2>7, <2>8, <3>2, <4>1 DEF Links
    <3> QED BY <2>2, <2>4, <2>5, <3>1, <3>2 DEF Before
  <2>10. (Rx \cup Arrived)' = Rx \cup Arrived /\ Around' = Around
    BY <1>2, <1>3, <2>5, <2>6 DEF Around
  <2>11. Sorted(appQueue)' /\ Sorted(portQueue)'
    BY <1>1 DEF StagesInOrder, Sorted
  <2>12. StagesInOrder'
    <3>1. /\ (Srv \cup Port \cup Rx \cup Arrived)' = Srv \cup Port \cup Rx \cup Arrived
          /\ (Port \cup Rx \cup Arrived)' = Port \cup Rx \cup Arrived
      BY <1>3, <2>10
    <3> QED BY <1>3, <2>7, <2>8, <2>9, <2>10, <2>11, <3>1 DEF StagesInOrder
  <2> QED BY <1>1, <2>10, <2>12, Carried
<1> QED BY <1>4, <1>5

LEMMA ForwardStep ==
    ASSUME InTypes, StagesInOrder, EachOnce, RxForward
    PROVE  (StagesInOrder /\ EachOnce)'
<1>1. /\ UNCHANGED <<inQueue, appQueue, server, accepted, overflowed>>
      /\ rx' = [at |-> "choose", packet |-> None]
  BY DEF RxForward, CallBack, RxVars
<1>2. rx.packet \in Packet /\ Rx = {rx.packet}
  BY HeldSet DEF RxForward, Rx, InTypes
<1>3. App' = App /\ Srv' = Srv /\ Arrived' = Arrived /\ Rx' = {}
  BY <1>1, HeldSet DEF App, Srv, Arrived, Rx, Held
<1>4. /\ \A l \in Links : inQueue'[l] = inQueue[l]
      /\ Sorted(appQueue')
  BY <1>1 DEF StagesInOrder
<1>5. Before(Rx', Arrived')
  BY <1>3 DEF Before
<1>6. CASE CallBack
  <2>1. Port' = Port /\ portQueue' = portQueue /\ processed' = processed \cup {rx.packet.id}
    BY <1>6 DEF CallBack, Port
  <2>2. Rx \cap App = {} /\ Rx \cap Srv = {} /\ Rx \cap Port = {} /\ Rx \cap Arrived = {}
    <3>1. /\ App \subseteq Packet /\ Srv \subseteq Packet
          /\ Port \subseteq Packet /\ Rx \subseteq Packet
      BY AroundPackets DEF Around
    <3> QED BY <3>1, Apart DEF StagesInOrder
  <2>3. Around' = Around \ {rx.packet} /\ rx.packet \in Around
    BY <1>2, <1>3, <2>1, <2>2 DEF Around
  <2>4. EachOnce'
    BY <1>1, <2>1, <2>3, Handled
  <2>5. /\ Before(App', (Srv \cup Port \cup Rx \cup Arrived)')
        /\ Before(Srv', (Port \cup Rx \cup Arrived)')
        /\ Before(Port', (Rx \cup Arrived)')
    BY <1>3, <2>1 DEF StagesInOrder, Before
  <2> QED BY <1>4, <1>5, <2>1, <2>4, <2>5 DEF StagesInOrder
<1>7. CASE portQueue' = Append(portQueue, rx.packet) /\ UNCHANGED <<inQueue, processed>>
  <2>1. portQueue \in Seq(Packet) /\ Before(Port, {rx.packet})
    BY <1>2 DEF InTypes, StagesInOrder, Before
  <2>2. Port' = Port \cup Rx /\ Sorted(portQueue')
    BY <1>2, <1>7, <2>1, AppendToQueue DEF Port, StagesInOrder
  <2>3. /\ (Port \cup Rx \cup Arrived)' = Port \cup Rx \cup Arrived
        /\ (Srv \cup Port \cup Rx \cup Arrived)' = Srv \cup Port \cup Rx \cup Arrived
        /\ Around' = Around /\ (Rx \cup Arrived)' = Arrived
    BY <1>3, <2>2 DEF Around
  <2>4. Before(Port', (Rx \cup Arrived)')
    BY <1>3, <2>2 DEF StagesInOrder, Before
  <2> QED BY <1>1, <1>3, <1>4, <1>5, <1>7, <2>2, <2>3, <2>4, Carried DEF StagesInOrder
<1> QED BY <1>6, <1>7 DEF RxForward

LEMMA TakeStep ==
    ASSUME InTypes, StagesInOrder, EachOnce, ServerTake
    PROVE  (StagesInOrder /\ EachOnce)'
<1> DEFINE p == Head(portQueue)
<1>1. /\ UNCHANGED <<appQueue, processed, overflowed, inQueue, rx, accepted>>
      /\ server = None /\ server' = p /\ portQueue' = Tail(portQueue)
  BY DEF ServerTake, ServerVars
<1>2. /\ p \in Packet /\ Port = {p} \cup Port' /\ Sorted(portQueue') /\ Before({p}, Port')
  <2>1. /\ p \in Packet /\ ToSet(portQueue) = {p} \cup ToSet(Tail(portQueue))
        /\ Sorted(Tail(portQueue)) /\ Before({p}, ToSet(Tail(portQueue)))
    BY TakeFromQueue DEF ServerTake, InTypes, StagesInOrder
  <2> QED BY <1>1, <2>1 DEF Port
<1> HIDE DEF p
<1>3. Srv = {} /\ Srv' = {p}
  BY <1>1, <1>2, HeldSet, NoneIsNoPacket DEF Srv
<1>4. App' = App /\ Rx' = Rx /\ Arrived' = Arrived
  BY <1>1 DEF App, Rx, Arrived, Held
<1>5. /\ (Srv \cup Port \cup Rx \cup Arrived)' = Srv \cup Port \cup Rx \cup Arrived
      /\ (Rx \cup Arrived)' = Rx \cup Arrived
      /\ Around' = Around
  BY <1>2, <1>3, <1>4 DEF Around
<1>6. Before(Srv', (Port \cup Rx \cup Arrived)') /\ Before(Port', (Rx \cup Arrived)')
  BY <1>2, <1>3, <1>4 DEF StagesInOrder, Before
<1>7. Sorted(appQueue)' /\ \A l \in Links : inQueue'[l] = inQueue[l]
  BY <1>1 DEF StagesInOrder
<1> QED BY <1>1, <1>2, <1>4, <1>5, <1>6, <1>7, Carried DEF StagesInOrder

\* The server's packet, dropped or answered.
LEMMA ServerDone ==
    ASSUME InTypes, StagesInOrder, EachOnce, server \in Packet, server' = None,
           UNCHANGED <<appQueue, portQueue, inQueue, rx, accepted>>,
           (processed \cup overflowed)' = (processed \cup overflowed) \cup {server.id}
    PROVE  (StagesInOrder /\ EachOnce)'
<1>1. Srv = {server} /\ Srv' = {}
  BY HeldSet, NoneIsNoPacket DEF Srv
<1>2. App' = App /\ Port' = Port /\ Rx' = Rx /\ Arrived' = Arrived
  BY DEF App, Port, Rx, Arrived, Held
<1>3. Srv \cap App = {} /\ Srv \cap Port = {} /\ Srv \cap Rx = {} /\ Srv \cap Arrived = {}
  <2>1. App \subseteq Packet /\ Srv \subseteq Packet
    BY AroundPackets DEF Around
  <2> QED BY <2>1, Apart DEF StagesInOrder
<1>4. Around' = Around \ {server} /\ server \in Around
  BY <1>1, <1>2, <1>3 DEF Around
<1>5. /\ Before(App', (Srv \cup Port \cup Rx \cup Arrived)')
      /\ Before(Srv', (Port \cup Rx \cup Arrived)')
      /\ Before(Port', (Rx \cup Arrived)') /\ Before(Rx', Arrived')
  BY <1>1, <1>2 DEF StagesInOrder, Before
<1>6. /\ Sorted(appQueue)' /\ Sorted(portQueue)' /\ \A l \in Links : inQueue'[l] = inQueue[l]
  BY DEF StagesInOrder
<1> QED BY <1>4, <1>5, <1>6, Handled DEF StagesInOrder

LEMMA IncomingStep ==
    ASSUME InTypes, StagesInOrder, EachOnce, appchannelIncomingPacket
    PROVE  (StagesInOrder /\ EachOnce)'
<1>1. /\ UNCHANGED <<portQueue, processed, inQueue, rx, accepted>>
      /\ server' = None /\ server \in Packet
  BY DEF appchannelIncomingPacket, ServerVars, InTypes, None
<1>2. CASE overflowed' = overflowed \cup {server.id} /\ UNCHANGED appQueue
  BY <1>1, <1>2, ServerDone
<1>3. CASE appQueue' = Append(appQueue, server) /\ UNCHANGED overflowed
  <2>1. Srv = {server} /\ Srv' = {}
    BY <1>1, HeldSet, NoneIsNoPacket DEF Srv
  <2>2. appQueue \in Seq(Packet) /\ Before(App, {server})
    BY <2>1 DEF InTypes, StagesInOrder, Before
  <2>3. App' = App \cup Srv /\ Sorted(appQueue')
    BY <1>1, <1>3, <2>1, <2>2, AppendToQueue DEF App, StagesInOrder
  <2>4. Port' = Port /\ Rx' = Rx /\ Arrived' = Arrived
    BY <1>1 DEF Port, Rx, Arrived, Held
  <2>5. Around' = Around
    BY <2>1, <2>3, <2>4 DEF Around
  <2>6. /\ Before(App', (Srv \cup Port \cup Rx \cup Arrived)')
        /\ Before(Srv', (Port \cup Rx \cup Arrived)')
        /\ Before(Port', (Rx \cup Arrived)') /\ Before(Rx', Arrived')
    BY <2>1, <2>3, <2>4 DEF StagesInOrder, Before
  <2>7. Sorted(portQueue)' /\ \A l \in Links : inQueue'[l] = inQueue[l]
    BY <1>1 DEF StagesInOrder
  <2> QED BY <1>1, <1>3, <2>3, <2>5, <2>6, <2>7, Carried DEF StagesInOrder
<1> QED BY <1>2, <1>3 DEF appchannelIncomingPacket

LEMMA AnswerStep ==
    ASSUME InTypes, StagesInOrder, EachOnce, ServerAnswer
    PROVE  (StagesInOrder /\ EachOnce)'
<1>1. /\ UNCHANGED <<appQueue, portQueue, overflowed, inQueue, rx, accepted>>
      /\ server' = None /\ server \in Packet /\ processed' = processed \cup {server.id}
  BY DEF ServerAnswer, ServerVars, InTypes, None
<1> QED BY <1>1, ServerDone

LEMMA AppStep ==
    ASSUME InTypes, StagesInOrder, EachOnce, appchannelReceivePacket
    PROVE  (StagesInOrder /\ EachOnce)'
<1> DEFINE p == Head(appQueue)
<1>1. /\ UNCHANGED <<portQueue, server, overflowed, inQueue, rx, accepted>>
      /\ processed' = processed \cup {p.id} /\ appQueue' = Tail(appQueue)
  BY DEF appchannelReceivePacket, ServerVars
<1>2. p \in Packet /\ App = {p} \cup App' /\ Sorted(appQueue') /\ Before({p}, App')
  <2>1. /\ p \in Packet /\ ToSet(appQueue) = {p} \cup ToSet(Tail(appQueue))
        /\ Sorted(Tail(appQueue)) /\ Before({p}, ToSet(Tail(appQueue)))
    BY TakeFromQueue DEF appchannelReceivePacket, InTypes, StagesInOrder
  <2> QED BY <1>1, <2>1 DEF App
<1> HIDE DEF p
<1>3. Srv' = Srv /\ Port' = Port /\ Rx' = Rx /\ Arrived' = Arrived
  BY <1>1 DEF Srv, Port, Rx, Arrived, Held
<1>4. Before(App, (Srv \cup Port \cup Rx \cup Arrived)')
  BY <1>3 DEF StagesInOrder
<1>5. p \notin App' /\ p \notin (Srv \cup Port \cup Rx \cup Arrived)'
  BY <1>2, <1>4 DEF Before, Packet
<1>6. Around' = Around \ {p} /\ p \in Around
  BY <1>2, <1>3, <1>5 DEF Around
<1>7. /\ Before(App', (Srv \cup Port \cup Rx \cup Arrived)')
      /\ Before(Srv', (Port \cup Rx \cup Arrived)')
      /\ Before(Port', (Rx \cup Arrived)') /\ Before(Rx', Arrived')
  BY <1>2, <1>3 DEF StagesInOrder, Before
<1>8. Sorted(portQueue)' /\ \A l \in Links : inQueue'[l] = inQueue[l]
  BY <1>1 DEF StagesInOrder
<1> QED BY <1>1, <1>2, <1>6, <1>7, <1>8, Handled DEF StagesInOrder

LEMMA InInduction ==
    ASSUME InTypes, StagesInOrder, EachOnce, InStep
    PROVE  (StagesInOrder /\ EachOnce)'
<1>1. CASE RxChoose
  <2>1. UNCHANGED <<inQueue, portQueue, processed, appQueue, server, accepted, overflowed>>
    BY <1>1 DEF RxChoose, RxVars
  <2>2. rx'.packet = rx.packet
    BY <1>1 DEF RxChoose, InTypes
  <2>3. App' = App /\ Srv' = Srv /\ Port' = Port /\ Rx' = Rx /\ Arrived' = Arrived
    BY <2>1, <2>2 DEF App, Srv, Port, Rx, Arrived, Held
  <2> QED BY <2>1, <2>3, Carried DEF StagesInOrder, Around
<1>2. CASE UNCHANGED inVars
  <2>1. App' = App /\ Srv' = Srv /\ Port' = Port /\ Rx' = Rx /\ Arrived' = Arrived
    BY <1>2 DEF inVars, App, Srv, Port, Rx, Arrived, Held
  <2> QED BY <1>2, <2>1, Carried DEF inVars, StagesInOrder, Around
<1> QED BY <1>1, <1>2, ArriveStep, ReceiveStep, ForwardStep, TakeStep, IncomingStep, AnswerStep,
           AppStep DEF InStep

LEMMA HeldType ==
    ASSUME NEW p \in Packet \cup {None}
    PROVE  Held(p) \in Seq(Packet)
<1>1. CASE p = None
  BY <1>1 DEF Held
<1>2. CASE p # None
  BY <1>2 DEF Held
<1> QED BY <1>1, <1>2

LEMMA JoinStages ==
    ASSUME NEW s \in Seq(Packet), NEW t \in Seq(Packet),
           Sorted(s), Sorted(t), Before(ToSet(s), ToSet(t))
    PROVE  s \o t \in Seq(Packet) /\ ToSet(s \o t) = ToSet(s) \cup ToSet(t) /\ Sorted(s \o t)
BY JoinSet, JoinSorted

\* What the invariant says of the sequence of all the stages.
LEMMA WayInOrder ==
    ASSUME InTypes, StagesInOrder, NEW l \in Links
    PROVE  /\ OnTheWay(l) \in Seq(Packet) /\ Sorted(OnTheWay(l))
           /\ ToSet(OnTheWay(l)) = App \cup Srv \cup Port \cup Rx \cup ToSet(inQueue[l])
<1> DEFINE S1 == appQueue \o Held(server)
           S2 == S1 \o portQueue
           S3 == S2 \o Held(rx.packet)
<1>0. /\ Held(server) \in Seq(Packet) /\ Held(rx.packet) \in Seq(Packet)
      /\ inQueue[l] \in Seq(Packet)
  BY HeldType DEF InTypes, Links
<1>1. /\ Sorted(appQueue) /\ Sorted(Held(server)) /\ Sorted(portQueue) /\ Sorted(Held(rx.packet))
      /\ Sorted(inQueue[l]) /\ ToSet(inQueue[l]) \subseteq Arrived
  BY HeldSet, EmptyQueue, SingleQueue DEF StagesInOrder, Arrived, Links
<1>2. S1 \in Seq(Packet) /\ ToSet(S1) = App \cup Srv /\ Sorted(S1)
  <2>1. Before(App, Srv)
    BY DEF StagesInOrder, Before
  <2> QED BY <1>0, <1>1, <2>1, JoinStages DEF App, Srv, InTypes
<1>3. S2 \in Seq(Packet) /\ ToSet(S2) = App \cup Srv \cup Port /\ Sorted(S2)
  <2>1. Before(App \cup Srv, Port)
    BY DEF StagesInOrder, Before
  <2> HIDE DEF S1
  <2> QED BY <1>1, <1>2, <2>1, JoinStages DEF Port, InTypes
<1>4. S3 \in Seq(Packet) /\ ToSet(S3) = App \cup Srv \cup Port \cup Rx /\ Sorted(S3)
  <2>1. Before(App \cup Srv \cup Port, Rx)
    BY DEF StagesInOrder, Before
  <2> HIDE DEF S2
  <2> QED BY <1>0, <1>1, <1>3, <2>1, JoinStages DEF Rx
<1>5. OnTheWay(l) = S3 \o inQueue[l]
  BY DEF OnTheWay
<1>6. Before(App \cup Srv \cup Port \cup Rx, ToSet(inQueue[l]))
  BY <1>1 DEF StagesInOrder, Before
<1> HIDE DEF S3
<1> QED BY <1>0, <1>1, <1>4, <1>5, <1>6, JoinStages, ZenonT(40)

LEMMA WayIds ==
    ASSUME NEW s
    PROVE  Ids(s) = IdsOf(ToSet(s))
BY DEF Ids, IdsOf, ToSet

LEMMA InImplies ==
    ASSUME InTypes, StagesInOrder, EachOnce
    PROVE  NeverDropped /\ InOrder
<1>1. InOrder
  BY WayInOrder DEF InOrder, Sorted
<1>2. \A l \in Links :
        Ids(OnTheWay(l)) = IdsOf(App \cup Srv \cup Port \cup Rx \cup ToSet(inQueue[l]))
  BY WayInOrder, WayIds
<1>3. UNION {Ids(OnTheWay(l)) : l \in Links} = IdsOf(Around)
  BY <1>2 DEF Links, IdsOf, Around, Arrived
<1>4. \A l \in Links : Ids(OnTheWay(l)) \subseteq IdsOf(Around)
  BY <1>3
<1> QED BY <1>1, <1>3, <1>4 DEF NeverDropped, EachOnce

----------------------------------------------------------------------------
(* The way out. No queue holds a packet twice, nor one that another place    *)
(* has.                                                                      *)

Tx == ToSet(txQueue)
Trying == IF tx.at = "take" THEN {} ELSE {tx.packet}
Radio == ToSet(outQueue["radio"])
Usb == ToSet(outQueue["usb"])

PlacesApart ==
    /\ IsInjective(txQueue) /\ IsInjective(outQueue["radio"]) /\ IsInjective(outQueue["usb"])
    /\ Tx \cap Trying = {} /\ Tx \cap Radio = {} /\ Tx \cap Usb = {}
    /\ Trying \cap Radio = {} /\ Trying \cap Usb = {} /\ Radio \cap Usb = {}
    /\ 1..made = gone \cup Tx \cup Trying \cup Radio \cup Usb
    /\ gone \cap (Tx \cup Trying \cup Radio \cup Usb) = {}

LEMMA OutQueues ==
    ASSUME OutTypes
    PROVE  /\ "radio" \in Links /\ "usb" \in Links /\ DOMAIN outQueue = Links
           /\ outQueue["radio"] \in Seq(1..MaxOut) /\ outQueue["usb"] \in Seq(1..MaxOut)
BY DEF OutTypes, Links

LEMMA OutInit == Init => PlacesApart
<1> SUFFICES ASSUME Init PROVE PlacesApart
  OBVIOUS
<1>1. txQueue = <<>> /\ outQueue["radio"] = <<>> /\ outQueue["usb"] = <<>>
  BY DEF Init, Links
<1>2. Tx = {} /\ Trying = {} /\ Radio = {} /\ Usb = {}
  BY <1>1, EmptyQueue DEF Init, Tx, Trying, Radio, Usb
<1> QED BY <1>1, <1>2, EmptyQueue DEF Init, PlacesApart

LEMMA FlushStep ==
    ASSUME OutTypes, PlacesApart, NEW l \in Links, Flushes(l)
    PROVE  PlacesApart'
<1>1. Tx' = Tx /\ Trying' = Trying /\ UNCHANGED <<txQueue, made>>
  BY DEF Flushes, Tx, Trying
<1>2. CASE l = "radio"
  <2>1. outQueue'["radio"] = <<>> /\ outQueue'["usb"] = outQueue["usb"] /\ gone' = gone \cup Radio
    BY <1>2, OutQueues DEF Flushes, Radio
  <2>2. Radio' = {} /\ Usb' = Usb
    BY <2>1, EmptyQueue DEF Radio, Usb
  <2> QED BY <1>1, <2>1, <2>2, EmptyQueue DEF PlacesApart
<1>3. CASE l = "usb"
  <2>1. outQueue'["usb"] = <<>> /\ outQueue'["radio"] = outQueue["radio"] /\ gone' = gone \cup Usb
    BY <1>3, OutQueues DEF Flushes, Usb
  <2>2. Usb' = {} /\ Radio' = Radio
    BY <2>1, EmptyQueue DEF Radio, Usb
  <2> QED BY <1>1, <2>1, <2>2, EmptyQueue DEF PlacesApart
<1> QED BY <1>2, <1>3 DEF Links

LEMMA DataInStep ==
    ASSUME OutTypes, PlacesApart, UsbDataIn
    PROVE  PlacesApart'
<1> DEFINE n == Head(outQueue["usb"])
<1>1. /\ Usb = {n} \cup ToSet(Tail(outQueue["usb"])) /\ n \notin ToSet(Tail(outQueue["usb"]))
      /\ IsInjective(Tail(outQueue["usb"]))
  BY OutQueues, TakeFromQueue DEF UsbDataIn, Usb, PlacesApart
<1>2. /\ outQueue'["usb"] = Tail(outQueue["usb"]) /\ outQueue'["radio"] = outQueue["radio"]
      /\ gone' = gone \cup {n} /\ UNCHANGED <<txQueue, tx, made>>
  BY OutQueues DEF UsbDataIn
<1> HIDE DEF n
<1>3. Tx' = Tx /\ Trying' = Trying /\ Radio' = Radio /\ Usb = {n} \cup Usb' /\ n \notin Usb'
  BY <1>1, <1>2 DEF Tx, Trying, Radio, Usb
<1> QED BY <1>1, <1>2, <1>3 DEF PlacesApart

LEMMA AppendPlace ==
    ASSUME NEW s \in Seq(1..MaxOut), NEW n \in 1..MaxOut, IsInjective(s), n \notin ToSet(s)
    PROVE  ToSet(Append(s, n)) = ToSet(s) \cup {n} /\ IsInjective(Append(s, n))
<1>0. /\ Append(s, n) \in Seq(1..MaxOut) /\ Len(s) \in Nat
      /\ DOMAIN s = 1..Len(s) /\ DOMAIN Append(s, n) = 1..(Len(s) + 1)
      /\ \A i \in 1..Len(s) : Append(s, n)[i] = s[i]
      /\ Append(s, n)[Len(s) + 1] = n
  OBVIOUS
<1>1. PICK q \in Seq(1..MaxOut), m \in Nat :
         /\ q = Append(s, n) /\ m = Len(s) /\ DOMAIN s = 1..m /\ DOMAIN q = 1..(m + 1)
         /\ \A i \in 1..m : q[i] = s[i]
         /\ q[m + 1] = n
  BY <1>0, Zenon
<1>2. ToSet(q) = ToSet(s) \cup {n}
  <2>1. ASSUME NEW i \in DOMAIN q PROVE q[i] \in ToSet(s) \cup {n}
    <3>1. i \in 1..m \/ i = m + 1
      BY <1>1, <2>1
    <3> QED BY <1>1, <3>1 DEF ToSet
  <2>2. ASSUME NEW i \in DOMAIN s PROVE s[i] \in ToSet(q)
    <3>1. i \in DOMAIN q /\ q[i] = s[i]
      BY <1>1, <2>2
    <3> QED BY <3>1 DEF ToSet
  <2>3. n \in ToSet(q)
    BY <1>1 DEF ToSet
  <2> QED BY <2>1, <2>2, <2>3 DEF ToSet
<1>3. IsInjective(q)
  <2>1. ASSUME NEW i \in 1..m PROVE q[i] # n
    BY <1>1, <2>1 DEF ToSet
  <2>2. ASSUME NEW i \in DOMAIN q, NEW j \in DOMAIN q, q[i] = q[j] PROVE i = j
    <3>1. (i \in 1..m \/ i = m + 1) /\ (j \in 1..m \/ j = m + 1)
      BY <1>1, <2>2
    <3> QED BY <1>1, <2>1, <2>2, <3>1 DEF IsInjective
  <2> QED BY <2>2 DEF IsInjective
<1> QED BY <1>1, <1>2, <1>3

LEMMA SendsStep ==
    ASSUME OutTypes, PlacesApart, Sends
    PROVE  PlacesApart'
<1>1. /\ txQueue' = Append(txQueue, made + 1) /\ made' = made + 1
      /\ made + 1 \in 1..MaxOut /\ UNCHANGED <<tx, outQueue, gone>>
  BY Sizes DEF Sends, SendPacket, OutTypes
<1>2. 1..made' = 1..made \cup {made + 1} /\ made + 1 \notin 1..made
  BY <1>1 DEF OutTypes
<1>3. made + 1 \notin gone \cup Tx \cup Trying \cup Radio \cup Usb
  BY <1>2 DEF PlacesApart
<1>4. Tx' = Tx \cup {made + 1} /\ IsInjective(txQueue')
  <2>1. txQueue \in Seq(1..MaxOut) /\ made + 1 \notin ToSet(txQueue)
    BY <1>3 DEF OutTypes, Tx
  <2>2. /\ ToSet(Append(txQueue, made + 1)) = ToSet(txQueue) \cup {made + 1}
        /\ IsInjective(Append(txQueue, made + 1))
    BY <1>1, <2>1, AppendPlace DEF PlacesApart
  <2> QED BY <1>1, <2>2 DEF Tx
<1>5. Trying' = Trying /\ Radio' = Radio /\ Usb' = Usb
  BY <1>1 DEF Trying, Radio, Usb
<1> QED BY <1>1, <1>2, <1>3, <1>4, <1>5 DEF PlacesApart

LEMMA TxTakeStep ==
    ASSUME OutTypes, PlacesApart, TxTake
    PROVE  PlacesApart'
<1> DEFINE n == Head(txQueue)
<1>1. /\ Tx = {n} \cup ToSet(Tail(txQueue)) /\ n \notin ToSet(Tail(txQueue))
      /\ IsInjective(Tail(txQueue))
  BY TakeFromQueue DEF TxTake, OutTypes, Tx, PlacesApart
<1>2. /\ txQueue' = Tail(txQueue) /\ tx' = [at |-> "choose", packet |-> n] /\ Trying = {}
      /\ UNCHANGED <<outQueue, gone, made>>
  BY DEF TxTake, Trying
<1> HIDE DEF n
<1>3. Tx = {n} \cup Tx' /\ n \notin Tx' /\ Trying' = {n} /\ Radio' = Radio /\ Usb' = Usb
  BY <1>1, <1>2 DEF Tx, Trying, Radio, Usb
<1> QED BY <1>1, <1>2, <1>3 DEF PlacesApart

LEMMA TxSendStep ==
    ASSUME OutTypes, PlacesApart, TxSend
    PROVE  PlacesApart'
<1>1. /\ tx.at \in Links /\ tx.packet \in 1..MaxOut /\ Trying = {tx.packet}
      /\ UNCHANGED <<txQueue, gone, made>> /\ tx'.at = "take" /\ Trying' = {} /\ Tx' = Tx
  BY DEF TxSend, Trying, Tx, OutTypes, Links
<1>2. CASE tx.at = "radio"
  <2>1. /\ outQueue'["radio"] = Append(outQueue["radio"], tx.packet)
        /\ outQueue'["usb"] = outQueue["usb"] /\ tx.packet \notin Radio
    BY <1>1, <1>2, OutQueues DEF TxSend, PlacesApart
  <2>2. /\ ToSet(Append(outQueue["radio"], tx.packet)) = Radio \cup {tx.packet}
        /\ IsInjective(Append(outQueue["radio"], tx.packet))
    BY <1>1, <2>1, OutQueues, AppendPlace DEF PlacesApart, Radio
  <2>3. Radio' = Radio \cup Trying /\ Usb' = Usb
    BY <1>1, <2>1, <2>2 DEF Radio, Usb
  <2> QED BY <1>1, <2>1, <2>2, <2>3 DEF PlacesApart
<1>3. CASE tx.at = "usb"
  <2>1. /\ outQueue'["usb"] = Append(outQueue["usb"], tx.packet)
        /\ outQueue'["radio"] = outQueue["radio"] /\ tx.packet \notin Usb
    BY <1>1, <1>3, OutQueues DEF TxSend, PlacesApart
  <2>2. /\ ToSet(Append(outQueue["usb"], tx.packet)) = Usb \cup {tx.packet}
        /\ IsInjective(Append(outQueue["usb"], tx.packet))
    BY <1>1, <2>1, OutQueues, AppendPlace DEF PlacesApart, Usb
  <2>3. Usb' = Usb \cup Trying /\ Radio' = Radio
    BY <1>1, <2>1, <2>2 DEF Radio, Usb
  <2> QED BY <1>1, <2>1, <2>2, <2>3 DEF PlacesApart
<1> QED BY <1>1, <1>2, <1>3 DEF Links

LEMMA OutInduction ==
    ASSUME link \in Links, OutTypes, PlacesApart, OutStep
    PROVE  PlacesApart'
<1>1. CASE LogReset
  <2>1. /\ txQueue' = <<>> /\ gone' = gone \cup Tx /\ UNCHANGED <<tx, outQueue, made>>
    BY <1>1 DEF LogReset, Tx
  <2>2. Tx' = {} /\ Trying' = Trying /\ Radio' = Radio /\ Usb' = Usb
    BY <2>1, EmptyQueue DEF Tx, Trying, Radio, Usb
  <2> QED BY <2>1, <2>2, EmptyQueue DEF PlacesApart
<1>2. CASE TxChoose \/ TxTimeout
  <2>1. /\ tx.at # "take" /\ tx'.at # "take" /\ tx'.packet = tx.packet
        /\ UNCHANGED <<txQueue, outQueue, made, gone>>
    BY <1>2 DEF TxChoose, TxTimeout, OutTypes, Links
  <2>2. Tx' = Tx /\ Trying' = Trying /\ Radio' = Radio /\ Usb' = Usb
    BY <2>1 DEF Tx, Trying, Radio, Usb
  <2> QED BY <2>1, <2>2 DEF PlacesApart
<1>3. CASE UNCHANGED outVars
  <2>1. Tx' = Tx /\ Trying' = Trying /\ Radio' = Radio /\ Usb' = Usb
    BY <1>3 DEF outVars, Tx, Trying, Radio, Usb
  <2> QED BY <1>3, <2>1 DEF outVars, PlacesApart
<1> QED BY <1>1, <1>2, <1>3, FlushStep, DataInStep, SendsStep, TxTakeStep, TxSendStep DEF OutStep

LEMMA JoinPlaces ==
    ASSUME NEW s \in Seq(1..MaxOut), NEW t \in Seq(1..MaxOut),
           IsInjective(s), IsInjective(t), ToSet(s) \cap ToSet(t) = {}
    PROVE  /\ s \o t \in Seq(1..MaxOut) /\ ToSet(s \o t) = ToSet(s) \cup ToSet(t)
           /\ IsInjective(s \o t)
BY JoinSet, JoinInjective

LEMMA OutImplies ==
    ASSUME OutTypes, PlacesApart
    PROVE  SentOnce
<1> DEFINE S1 == IF tx.at = "take" THEN <<>> ELSE <<tx.packet>>
           S2 == txQueue \o S1
           S3 == S2 \o outQueue["radio"]
<1>0. S1 \in Seq(1..MaxOut) /\ ToSet(S1) = Trying /\ IsInjective(S1)
  <2>1. CASE tx.at = "take"
    BY <2>1, EmptyQueue DEF Trying
  <2>2. CASE tx.at # "take"
    BY <2>2, SingleQueue DEF Trying, OutTypes
  <2> QED BY <2>1, <2>2
<1>1. S2 \in Seq(1..MaxOut) /\ ToSet(S2) = Tx \cup Trying /\ IsInjective(S2)
  <2> HIDE DEF S1
  <2> QED BY <1>0, JoinPlaces DEF PlacesApart, OutTypes, Tx
<1>2. S3 \in Seq(1..MaxOut) /\ ToSet(S3) = Tx \cup Trying \cup Radio /\ IsInjective(S3)
  <2>1. (Tx \cup Trying) \cap Radio = {}
    BY DEF PlacesApart
  <2> HIDE DEF S2
  <2> QED BY <1>1, <2>1, JoinPlaces, OutQueues DEF PlacesApart, Radio
<1>3. /\ Unsent \in Seq(1..MaxOut) /\ IsInjective(Unsent)
      /\ ToSet(Unsent) = Tx \cup Trying \cup Radio \cup Usb
  <2>1. Unsent = S3 \o outQueue["usb"]
    BY DEF Unsent
  <2>2. (Tx \cup Trying \cup Radio) \cap Usb = {}
    BY DEF PlacesApart
  <2> HIDE DEF S3
  <2> QED BY <1>2, <2>1, <2>2, JoinPlaces, OutQueues DEF PlacesApart, Usb
<1>4. Cardinality(ToSet(Unsent)) = Len(Unsent)
  BY <1>3, DistinctLength
<1> QED BY <1>3, <1>4 DEF SentOnce, PlacesApart

----------------------------------------------------------------------------
(* The theorems. *)

LinkInv == InTypes /\ OutTypes /\ StagesInOrder /\ EachOnce /\ PlacesApart

LEMMA LinkInit == Init => TypeOK /\ LinkInv
<1> SUFFICES ASSUME Init PROVE TypeOK /\ LinkInv
  OBVIOUS
<1>1. /\ None \in Packet \cup {None} /\ 0 \in 0..MaxIn /\ 0 \in 0..MaxOut
      /\ "radio" \in Links /\ "radio" # "forward"
  BY Sizes DEF Links
<1>2. InTypes
  <2>1. rx = [at |-> "choose", packet |-> None]
    BY DEF Init
  <2> QED BY <1>1, <2>1, Sizes DEF Init, InTypes
<1>3. OutTypes
  BY <1>1, Sizes DEF Init, OutTypes
<1>4. TypeOK
  BY <1>1, <1>2, <1>3 DEF Init, TypeOK, InTypes, OutTypes
<1> QED BY <1>2, <1>3, <1>4, InInit, OutInit DEF LinkInv

LEMMA LinkStep == ASSUME TypeOK, LinkInv, [Next]_vars PROVE (TypeOK /\ LinkInv)'
<1>1. link \in Links /\ InStep /\ OutStep
  BY Steps DEF TypeOK
<1>2. LinkInv'
  BY <1>1, InTypeStep, OutTypeStep, InInduction, OutInduction DEF LinkInv
<1>3. link' \in Links /\ failed' \in BOOLEAN
  <2> USE DEF Next, vars, RadioDispatch, OtherDispatch, SetLink, ResetUSB, UsbDataIn, RxChoose,
              RxReceive, RxForward, RxVars, ServerTake, appchannelIncomingPacket, ServerAnswer,
              appchannelReceivePacket, ServerVars, LogBlock, LogReset, TxTake, TxChoose, TxSend,
              TxTimeout
  <2>1. link' \in Links
    <3>1. "radio" \in Links
      BY DEF Links
    <3> QED BY <1>1, <3>1
  <2>2. failed' \in BOOLEAN
    BY DEF TypeOK
  <2> QED BY <2>1, <2>2
<1> QED BY <1>2, <1>3 DEF TypeOK, LinkInv, InTypes, OutTypes

LEMMA LinkImplies == TypeOK /\ LinkInv => NeverDropped /\ InOrder /\ SentOnce
BY InImplies, OutImplies DEF LinkInv

\* Theorem: every variable of the links keeps its type, and the queues their
\* lengths.  A sender asks for room before it sends, and the task that is woken
\* by the room is the only one that fills it.
THEOREM LinkTypeCorrect == Spec => []TypeOK
<1> QED BY LinkInit, LinkStep, PTL DEF Spec

\* Theorem: crtpRxTask drops nothing and handles nothing twice (crtp.c:183),
\* for every length of the queues and every change of the link in between.
THEOREM NothingDropped == Spec => []NeverDropped
<1> QED BY LinkInit, LinkStep, LinkImplies, PTL DEF Spec

\* Theorem: the packets that one link has received reach the application and
\* the server in the order of their arrival.
THEOREM ArrivalOrder == Spec => []InOrder
<1> QED BY LinkInit, LinkStep, LinkImplies, PTL DEF Spec

\* Theorem: crtpTxTask loses no packet and sends none twice (crtp.c:153), except
\* those a reset flushes, whichever link is in use at each attempt.
THEOREM SentExactlyOnce == Spec => []SentOnce
<1> QED BY LinkInit, LinkStep, LinkImplies, PTL DEF Spec
=============================================================================
