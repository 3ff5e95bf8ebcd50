------------------------------- MODULE CrtpLink -------------------------------
(***************************************************************************)
(* The way of a packet through the drone's firmware: the radio link        *)
(* (hal/src/radiolink.c) or the USB link (usblink.c, usb.c), the two tasks *)
(* of crtp.c, the platform service and the channel of the application      *)
(* (platformservice.c, app_channel.c), and back.                           *)
(*                                                                         *)
(* Every stage is a task with a queue.  Some block on a full queue, some   *)
(* drop, and the radio's receiver, which may do neither, asserts that its  *)
(* queue has room.  The link in use changes at any time, in the interrupts *)
(* of the USB port; both tasks of crtp.c read it once per round and may be *)
(* waiting on a queue of the other link.                                   *)
(***************************************************************************)
EXTENDS Naturals, Sequences, FiniteSets, SequencesExt

CONSTANTS
    RadioQueue,   \* RADIOLINK_CRTP_QUEUE_SIZE
    UsbQueue,     \* CRTP_RX_QUEUE_SIZE of usblink.c
    PortQueue,    \* CRTP_RX_QUEUE_SIZE
    AppQueue,     \* length of rxQueue in app_channel.c
    TxQueue,      \* CRTP_TX_QUEUE_SIZE
    UsbTxQueue,   \* length of usbDataTx
    MaxIn,        \* bound on the packets received
    MaxOut        \* bound on the packets sent

ASSUME SizeAssumption ==
    \A n \in {RadioQueue, UsbQueue, PortQueue, AppQueue, TxQueue, UsbTxQueue} : n \in Nat \ {0}
ASSUME BoundAssumption == MaxIn \in Nat /\ MaxOut \in Nat

Links == {"radio", "usb"}

\* For the application, for the platform server to answer, or (the setpoints)
\* for a callback of crtpRegisterPortCB.
Kinds == {"app", "query", "setpoint"}

None == [id |-> 0, kind |-> "none", from |-> "none"]

VARIABLES
    link,         \* crtp.c's link
    inQueue,      \* crtpPacketDelivery of either link
    rx,           \* where crtpRxTask is, and the packet it holds
    portQueue,    \* queues[CRTP_PORT_PLATFORM]
    server,       \* the packet platformSrvTask holds
    appQueue,     \* rxQueue of the application's channel
    txQueue,      \* txQueue of crtp.c
    tx,           \* where crtpTxTask is, and the packet it holds
    outQueue,     \* txQueue of radiolink.c, usbDataTx
    failed,       \* the assertion has failed: the drone resets
    accepted,     \* history: packets received
    processed,    \* history: packets the app has received, or the server answered
    overflowed,   \* history: packets dropped by appchannelIncomingPacket
    made,         \* history: packets given to crtpSendPacket
    gone          \* history: packets sent, or flushed by a reset

inVars == <<inQueue, rx, portQueue, server, appQueue, accepted, processed, overflowed>>
outVars == <<txQueue, tx, outQueue, made, gone>>
vars == <<link, inVars, outVars, failed>>

Init ==
    /\ link = "radio"
    /\ inQueue = [l \in Links |-> <<>>]
    /\ rx = [at |-> "choose", packet |-> None]
    /\ portQueue = <<>>
    /\ server = None
    /\ appQueue = <<>>
    /\ txQueue = <<>>
    /\ tx = [at |-> "take", packet |-> 0]
    /\ outQueue = [l \in Links |-> <<>>]
    /\ failed = FALSE
    /\ accepted = 0
    /\ processed = {}
    /\ overflowed = {}
    /\ made = 0
    /\ gone = {}

----------------------------------------------------------------------------
(* The links.                                                              *)

Enqueue(l, kind) ==
    /\ accepted < MaxIn
    /\ accepted' = accepted + 1
    /\ inQueue' = [inQueue EXCEPT ![l] = Append(@, [id |-> accepted + 1, kind |-> kind, from |-> l])]

\* SYSLINK_RADIO_RAW: with each packet received, one can be sent.
RadioDispatch(kind) ==
    \/ /\ Len(inQueue["radio"]) = RadioQueue
       /\ failed' = TRUE
       /\ UNCHANGED <<link, inVars, outVars>>
    \/ /\ Len(inQueue["radio"]) < RadioQueue
       /\ Enqueue("radio", kind)
       /\ outQueue' = [outQueue EXCEPT !["radio"] = <<>>]
       /\ gone' = gone \cup ToSet(outQueue["radio"])
       /\ UNCHANGED <<link, rx, portQueue, server, appQueue, processed, overflowed,
                      txQueue, tx, made, failed>>

\* SYSLINK_RADIO_RAW_BROADCAST is best effort; usbGetDataBlocking and the send
\* after it block until there is room.
OtherDispatch(l, kind) ==
    /\ Len(inQueue[l]) < (IF l = "radio" THEN RadioQueue ELSE UsbQueue)
    /\ Enqueue(l, kind)
    /\ UNCHANGED <<link, rx, portQueue, server, appQueue, processed, overflowed, outVars, failed>>

\* usbd_cf_Setup selects a link, and resetUSB goes back to the radio and
\* empties the queue of the USB link.
SetLink(l) ==
    /\ link' = l
    /\ UNCHANGED <<inVars, outVars, failed>>

ResetUSB ==
    /\ link' = "radio"
    /\ outQueue' = [outQueue EXCEPT !["usb"] = <<>>]
    /\ gone' = gone \cup ToSet(outQueue["usb"])
    /\ UNCHANGED <<inVars, txQueue, tx, made, failed>>

UsbDataIn ==
    /\ outQueue["usb"] # <<>>
    /\ outQueue' = [outQueue EXCEPT !["usb"] = Tail(@)]
    /\ gone' = gone \cup {Head(outQueue["usb"])}
    /\ UNCHANGED <<link, inVars, txQueue, tx, made, failed>>

----------------------------------------------------------------------------
(* crtpRxTask.                                                             *)

RxVars == <<link, appQueue, server, accepted, overflowed, outVars, failed>>

RxChoose ==
    /\ rx.at = "choose"
    /\ rx' = [rx EXCEPT !.at = link]
    /\ UNCHANGED <<inQueue, portQueue, processed, RxVars>>

\* receivePacket waits for at most 100 ms.
RxReceive ==
    /\ rx.at \in Links
    /\ IF inQueue[rx.at] = <<>>
         THEN rx' = [rx EXCEPT !.at = "choose"] /\ UNCHANGED inQueue
         ELSE /\ rx' = [at |-> "forward", packet |-> Head(inQueue[rx.at])]
              /\ inQueue' = [inQueue EXCEPT ![rx.at] = Tail(@)]
    /\ UNCHANGED <<portQueue, processed, RxVars>>

\* A callback has the packet at once.
CallBack ==
    /\ rx.packet.kind = "setpoint"
    /\ processed' = processed \cup {rx.packet.id}
    /\ UNCHANGED <<inQueue, portQueue>>

RxForward_NoWait ==   \* mutant: it does not wait for room
    /\ rx.at = "forward"
    /\ \/ CallBack
       \/ /\ rx.packet.kind # "setpoint"
          /\ portQueue' = IF Len(portQueue) < PortQueue THEN Append(portQueue, rx.packet) ELSE portQueue
          /\ UNCHANGED <<inQueue, processed>>
    /\ rx' = [at |-> "choose", packet |-> None]
    /\ UNCHANGED RxVars

RxForward_Requeues ==   \* mutant: when there is no room the packet is received again later
    /\ rx.at = "forward"
    /\ \/ CallBack
       \/ /\ rx.packet.kind # "setpoint"
          /\ IF Len(portQueue) < PortQueue
               THEN portQueue' = Append(portQueue, rx.packet) /\ UNCHANGED inQueue
               ELSE inQueue' = [inQueue EXCEPT ![rx.packet.from] = Append(@, rx.packet)]
                    /\ UNCHANGED portQueue
          /\ UNCHANGED processed
    /\ rx' = [at |-> "choose", packet |-> None]
    /\ UNCHANGED RxVars

\* Block, since we should never drop a packet.
RxForward ==
    /\ rx.at = "forward"
    /\ \/ CallBack
       \/ /\ rx.packet.kind # "setpoint" /\ Len(portQueue) < PortQueue
          /\ portQueue' = Append(portQueue, rx.packet)
          /\ UNCHANGED <<inQueue, processed>>
    /\ rx' = [at |-> "choose", packet |-> None]
    /\ UNCHANGED RxVars

----------------------------------------------------------------------------
(* platformSrvTask, and the application.                                   *)

ServerVars == <<link, inQueue, rx, accepted, tx, outQueue, gone, failed>>

ServerTake ==
    /\ server = None /\ portQueue # <<>>
    /\ server' = Head(portQueue)
    /\ portQueue' = Tail(portQueue)
    /\ UNCHANGED <<appQueue, processed, overflowed, txQueue, made, ServerVars>>

appchannelIncomingPacket ==
    /\ server.kind = "app"
    /\ server' = None
    /\ IF Len(appQueue) < AppQueue
         THEN appQueue' = Append(appQueue, server) /\ UNCHANGED overflowed
         ELSE overflowed' = overflowed \cup {server.id} /\ UNCHANGED appQueue
    /\ UNCHANGED <<portQueue, processed, txQueue, made, ServerVars>>

SendPacket_Unbounded ==   \* mutant: the queue is taken to have room
    /\ made < MaxOut
    /\ made' = made + 1
    /\ txQueue' = Append(txQueue, made + 1)

\* Room in the queue, and one packet more.
SendPacket ==
    /\ Len(txQueue) < TxQueue /\ made < MaxOut
    /\ made' = made + 1
    /\ txQueue' = Append(txQueue, made + 1)

\* crtpSendPacketBlock; an unknown channel or version command has no answer.
ServerAnswer ==
    /\ server.kind = "query"
    /\ SendPacket \/ UNCHANGED <<txQueue, made>>
    /\ processed' = processed \cup {server.id}
    /\ server' = None
    /\ UNCHANGED <<portQueue, appQueue, overflowed, ServerVars>>

appchannelReceivePacket ==
    /\ appQueue # <<>>
    /\ processed' = processed \cup {Head(appQueue).id}
    /\ appQueue' = Tail(appQueue)
    /\ UNCHANGED <<portQueue, server, overflowed, txQueue, made, ServerVars>>

----------------------------------------------------------------------------
(* crtpTxTask, and the log task that feeds and flushes its queue.          *)

\* crtpSendPacket does not block: a full queue drops the packet at once.
LogBlock ==
    /\ SendPacket
    /\ UNCHANGED <<link, inVars, tx, outQueue, gone, failed>>

\* crtpReset, when the radio has been silent.
LogReset ==
    /\ link = "radio"
    /\ txQueue' = <<>>
    /\ gone' = gone \cup ToSet(txQueue)
    /\ UNCHANGED <<link, inVars, tx, outQueue, made, failed>>

TxTake ==
    /\ tx.at = "take" /\ txQueue # <<>>
    /\ tx' = [at |-> "choose", packet |-> Head(txQueue)]
    /\ txQueue' = Tail(txQueue)
    /\ UNCHANGED <<link, inVars, outQueue, made, gone, failed>>

\* Keep testing, if the link changes to USB it will go through.
TxChoose ==
    /\ tx.at = "choose"
    /\ tx' = [tx EXCEPT !.at = link]
    /\ UNCHANGED <<link, inVars, txQueue, outQueue, made, gone, failed>>

OutSize(l) == IF l = "radio" THEN 1 ELSE UsbTxQueue

TxSend ==
    /\ tx.at \in Links
    /\ Len(outQueue[tx.at]) < OutSize(tx.at)
    /\ outQueue' = [outQueue EXCEPT ![tx.at] = Append(@, tx.packet)]
    /\ tx' = [at |-> "take", packet |-> 0]
    /\ UNCHANGED <<link, inVars, txQueue, made, gone, failed>>

TxTimeout_GivesUp ==   \* mutant: the packet is not tried again
    /\ tx.at \in Links
    /\ Len(outQueue[tx.at]) = OutSize(tx.at)
    /\ tx' = [at |-> "take", packet |-> 0]
    /\ UNCHANGED <<link, inVars, txQueue, outQueue, made, gone, failed>>

\* After 100 ms sendPacket returns false.
TxTimeout ==
    /\ tx.at \in Links
    /\ Len(outQueue[tx.at]) = OutSize(tx.at)
    /\ tx' = [tx EXCEPT !.at = "choose"]
    /\ UNCHANGED <<link, inVars, txQueue, outQueue, made, gone, failed>>

----------------------------------------------------------------------------
Next ==
    /\ ~failed
    /\ \/ \E kind \in Kinds : RadioDispatch(kind) \/ \E l \in Links : OtherDispatch(l, kind)
       \/ \E l \in Links : SetLink(l)
       \/ ResetUSB \/ UsbDataIn
       \/ RxChoose \/ RxReceive \/ RxForward
       \/ ServerTake \/ appchannelIncomingPacket \/ ServerAnswer \/ appchannelReceivePacket
       \/ LogBlock \/ LogReset \/ TxTake \/ TxChoose \/ TxSend \/ TxTimeout

Spec == Init /\ [][Next]_vars

----------------------------------------------------------------------------
(* Properties.                                                             *)

Packet == [id : 1..MaxIn, kind : Kinds, from : Links]

\* Types of all the variables.
TypeOK ==
    /\ link \in Links
    /\ inQueue \in [Links -> Seq(Packet)]
    /\ rx \in [at : Links \cup {"choose", "forward"}, packet : Packet \cup {None}]
    /\ portQueue \in Seq(Packet) /\ Len(portQueue) <= PortQueue
    /\ server \in Packet \cup {None}
    /\ appQueue \in Seq(Packet) /\ Len(appQueue) <= AppQueue
    /\ txQueue \in Seq(1..MaxOut) /\ Len(txQueue) <= TxQueue
    /\ tx \in [at : Links \cup {"take", "choose"}, packet : 0..MaxOut]
    /\ outQueue \in [Links -> Seq(1..MaxOut)]
    /\ failed \in BOOLEAN
    /\ accepted \in 0..MaxIn /\ made \in 0..MaxOut
    /\ processed \subseteq 1..MaxIn /\ overflowed \subseteq 1..MaxIn /\ gone \subseteq 1..MaxOut

Held(packet) == IF packet = None THEN <<>> ELSE <<packet>>

\* What is on its way, and behind it what link l has received: the oldest packet of a link first.
OnTheWay(l) == appQueue \o Held(server) \o portQueue \o Held(rx.packet) \o inQueue[l]

Ids(packets) == {packets[i].id : i \in DOMAIN packets}

\* crtp.c:183: no packet that a link has received is dropped on its way, except
\* by the application's channel when the application does not keep up; and none
\* is handled twice.  The link may change between any two steps.
NeverDropped ==
    /\ 1..accepted = processed \cup overflowed \cup UNION {Ids(OnTheWay(l)) : l \in Links}
    /\ \A l \in Links : Ids(OnTheWay(l)) \cap (processed \cup overflowed) = {}

\* The packets of one link stay in the order of their arrival: a LANDING does
\* not overtake the EXPLORATION sent before it, however long a task is blocked.
InOrder ==
    \A l \in Links : \A i, j \in DOMAIN OnTheWay(l) :
      i < j /\ OnTheWay(l)[i].from = OnTheWay(l)[j].from => OnTheWay(l)[i].id < OnTheWay(l)[j].id

Unsent == txQueue \o (IF tx.at = "take" THEN <<>> ELSE <<tx.packet>>)
                 \o outQueue["radio"] \o outQueue["usb"]

\* crtp.c:153: the sender keeps trying, on whichever link is in use, until a
\* packet has gone: none is lost, except flushed by a reset, and none is sent
\* twice, although the link may change in the middle of an attempt.
SentOnce ==
    /\ 1..made = gone \cup ToSet(Unsent)
    /\ gone \cap ToSet(Unsent) = {}
    /\ Cardinality(ToSet(Unsent)) = Len(Unsent)

----------------------------------------------------------------------------
(* What the code asserts.                                                  *)

\* The receiving task has something to do and nothing that keeps it.
RxIsReady ==
    \/ rx.at = "choose"
    \/ rx.at \in Links /\ inQueue[rx.at] # <<>>
    \/ rx.at = "forward" /\ (rx.packet.kind = "setpoint" \/ Len(portQueue) < PortQueue)

\* radiolink.c:163: "Assert that we are not dropping any packets": the radio's
\* queue has room for every packet, provided that the task that reads it is
\* scheduled when it is ready.
AssertHolds == failed => RxIsReady
=============================================================================
