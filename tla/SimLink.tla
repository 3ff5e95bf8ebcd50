------------------------------- MODULE SimLink -------------------------------
(***************************************************************************)
(* How the server talks to the simulated drones: SimDroneManager.py and    *)
(* SimDrone.py on one side, SocketManager.cpp and CreateStatusMessage on   *)
(* the other.                                                              *)
(*                                                                         *)
(* The sockets are streams: values sent one after the other may arrive     *)
(* together.  ReceiveValue reads everything that has arrived and throws it *)
(* away unless it is exactly one value; do_reception blocks until          *)
(* something has arrived and takes all of it for one status message.  Each *)
(* status request is served in a thread of its own, and the constructor of *)
(* SimDrone starts one more thread that receives once.                     *)
(***************************************************************************)
EXTENDS Integers, Sequences, FiniteSets

CONSTANTS
    Drones,       \* how many simulated drones there are
    Poll,         \* threads serving /dronesupdate: a bound on those in progress
    MaxStream,    \* bound: values in a socket that the drone has not read
    MaxStray      \* bound on the two histories

ASSUME SocketAssumption ==
    Drones \in Nat /\ MaxStream \in Nat /\ MaxStray \in Nat /\ IsFiniteSet(Poll)

Drone == 1..Drones   \* in the order they are accepted, which is the dictionary's
Command == {"EXPLORE", "LAND", "RETURN_TO_BASE"}
GetInformation == "GET_INFORMATION"

VARIABLES
    connected,    \* len(_connected_drones)
    toDrone,      \* values sent and not yet read by the controller
    toServer,     \* status messages sent and not yet read by the server
    newcomer,     \* the constructor's thread is in recv
    poll,         \* progress of each thread serving /dronesupdate
    command,      \* progress of the thread serving a command
    missing,      \* history: answers that will never come for someone waiting
    abandoned     \* history: answers for which nobody waits any more

streams == <<toDrone, toServer>>
histories == <<missing, abandoned>>
socketVars == <<connected, streams, newcomer, poll, command, histories>>

NoPoll == [pc |-> "idle", at |-> 1, size |-> 0]
NoCommand == [value |-> "none", at |-> 1, size |-> 0]

SocketInit ==
    /\ connected = 0
    /\ toDrone = [d \in Drone |-> <<>>]
    /\ toServer = [d \in Drone |-> 0]
    /\ newcomer = [d \in Drone |-> FALSE]
    /\ poll = [p \in Poll |-> NoPoll]
    /\ command = NoCommand
    /\ missing = [d \in Drone |-> 0]
    /\ abandoned = [d \in Drone |-> 0]

Informations(s) == Cardinality({k \in DOMAIN s : s[k] = GetInformation})

Send(d, value) ==
    /\ Len(toDrone[d]) < MaxStream
    /\ toDrone' = [toDrone EXCEPT ![d] = Append(@, value)]
    /\ UNCHANGED toServer

----------------------------------------------------------------------------
(* The server.                                                             *)

\* The scanning thread; SimDrone() starts a thread that receives once.
Accept ==
    /\ connected < Drones
    /\ connected' = connected + 1
    /\ newcomer' = [newcomer EXCEPT ![connected + 1] = TRUE]
    /\ UNCHANGED <<streams, poll, command, histories>>

BeginPoll(p) ==
    /\ poll[p].pc = "idle" /\ connected > 0
    /\ poll' = [poll EXCEPT ![p] = [pc |-> "send", at |-> 1, size |-> connected]]
    /\ UNCHANGED <<connected, streams, newcomer, command, histories>>

\* The drones of S will answer a poll that has gone.
Abandon(S) ==
    /\ abandoned' = [d \in Drone |-> IF d \in S THEN abandoned[d] + 1 ELSE abandoned[d]]
    /\ \A d \in Drone : abandoned'[d] <= MaxStray

\* One round of the first loop.  The next one raises "dictionary changed size
\* during iteration" when a drone was accepted meanwhile.
PollSend(p) ==
    /\ poll[p].pc = "send"
    /\ Send(poll[p].at, GetInformation)
    /\ IF poll[p].size # connected
         THEN poll' = [poll EXCEPT ![p] = NoPoll] /\ Abandon(1..poll[p].at)
         ELSE /\ poll' = IF poll[p].at < poll[p].size
                           THEN [poll EXCEPT ![p].at = @ + 1]
                           ELSE [poll EXCEPT ![p].pc = "turn"]
              /\ UNCHANGED abandoned
    /\ UNCHANGED <<connected, newcomer, command, missing>>

\* The second loop waits for the drones accepted since the first as well.
PollTurn(p) ==
    /\ poll[p].pc = "turn"
    /\ poll' = [poll EXCEPT ![p] = [pc |-> "receive", at |-> 1, size |-> connected]]
    /\ missing' = [d \in Drone |-> IF poll[p].size < d /\ d <= connected
                                     THEN missing[d] + 1 ELSE missing[d]]
    /\ \A d \in Drone : missing'[d] <= MaxStray
    /\ UNCHANGED <<connected, streams, newcomer, command, abandoned>>

\* recv(1024) takes every message that is there: they are parsed as one.
TakeAll(d) ==
    /\ toServer[d] > 0
    /\ toServer' = [toServer EXCEPT ![d] = 0]
    /\ missing' = [missing EXCEPT ![d] = @ + (toServer[d] - 1)]
    /\ missing'[d] <= MaxStray

PollReceive(p) ==
    /\ poll[p].pc = "receive"
    /\ TakeAll(poll[p].at)
    /\ IF poll[p].size # connected
         THEN poll' = [poll EXCEPT ![p] = NoPoll] /\ Abandon(poll[p].at + 1..poll[p].size)
         ELSE /\ poll' = IF poll[p].at < poll[p].size
                           THEN [poll EXCEPT ![p].at = @ + 1]
                           ELSE [poll EXCEPT ![p] = NoPoll]
              /\ UNCHANGED abandoned
    /\ UNCHANGED <<connected, toDrone, newcomer, command>>

NewcomerReceives_Stays(d) ==   \* mutant: the constructor's thread receives in a loop
    /\ newcomer[d]
    /\ TakeAll(d)
    /\ UNCHANGED <<connected, toDrone, newcomer, poll, command, abandoned>>

\* The thread of the constructor receives once and drops what it got.
NewcomerReceives(d) ==
    /\ newcomer[d]
    /\ TakeAll(d)
    /\ newcomer' = [newcomer EXCEPT ![d] = FALSE]
    /\ UNCHANGED <<connected, toDrone, poll, command, abandoned>>

\* explore, land, return_home.
BeginCommand ==
    /\ command = NoCommand /\ connected > 0
    /\ \E v \in Command : command' = [value |-> v, at |-> 1, size |-> connected]
    /\ UNCHANGED <<connected, streams, newcomer, poll, histories>>

CommandSend ==
    /\ command # NoCommand
    /\ Send(command.at, command.value)
    /\ command' = IF command.size = connected /\ command.at < command.size
                    THEN [command EXCEPT !.at = @ + 1]
                    ELSE NoCommand
    /\ UNCHANGED <<connected, newcomer, poll, histories>>

----------------------------------------------------------------------------
(* The controller of a drone, once per tick.                               *)

\* The first n values have arrived.
ReceiveValue(d, n) ==
    /\ toDrone' = [toDrone EXCEPT ![d] = SubSeq(@, n + 1, Len(@))]
    /\ LET batch == Informations(SubSeq(toDrone[d], 1, n))
       IN  IF n = 1
             THEN toServer' = [toServer EXCEPT ![d] = @ + batch] /\ UNCHANGED missing
             ELSE /\ missing' = [missing EXCEPT ![d] = @ + batch]
                  /\ missing'[d] <= MaxStray
                  /\ UNCHANGED toServer

ControlStep(d) ==
    /\ \E n \in 1..Len(toDrone[d]) : ReceiveValue(d, n)
    /\ UNCHANGED <<connected, newcomer, poll, command, abandoned>>

----------------------------------------------------------------------------
SocketNext ==
    \/ Accept
    \/ \E p \in Poll : BeginPoll(p) \/ PollSend(p) \/ PollTurn(p) \/ PollReceive(p)
    \/ BeginCommand \/ CommandSend
    \/ \E d \in Drone : NewcomerReceives(d) \/ ControlStep(d)

SocketSpec == SocketInit /\ [][SocketNext]_socketVars

----------------------------------------------------------------------------
(* Properties.                                                             *)

\* Types of all the variables.
SocketTypeOK ==
    /\ connected \in 0..Drones
    /\ toDrone \in [Drone -> Seq(Command \cup {GetInformation})]
    /\ toServer \in [Drone -> Nat]
    /\ newcomer \in [Drone -> BOOLEAN]
    /\ poll \in [Poll -> [pc : {"idle", "send", "turn", "receive"}, at : 1..(Drones + 1),
                          size : 0..Drones]]
    /\ command \in [value : Command \cup {"none"}, at : 1..(Drones + 1), size : 0..Drones]
    /\ missing \in [Drone -> Nat]
    /\ abandoned \in [Drone -> Nat]

\* A poll has asked the drone, or will wait for it, and has not heard from it.
Expects(p, d) == \/ poll[p].pc = "send" /\ d < poll[p].at
                 \/ poll[p].pc = "turn" /\ d <= poll[p].size
                 \/ poll[p].pc = "receive" /\ poll[p].at <= d /\ d <= poll[p].size

Waiting(d) == Cardinality({p \in Poll : Expects(p, d)}) + (IF newcomer[d] THEN 1 ELSE 0)

Coming(d) == Informations(toDrone[d]) + toServer[d]

\* Requests, answers and waiting threads of each drone balance: the thread of
\* the constructor takes the answer to the first poll, so that every poll
\* lives on the answer to the next, and each request thrown away, or merged
\* into another answer, leaves one more thread waiting for ever.
AnswersBalance ==
    \A d \in 1..connected : Waiting(d) + abandoned[d] = Coming(d) + missing[d] + 1
=============================================================================
