------------------------------- MODULE MCLinks -------------------------------
(* The two ways in which a drone is reached: the links of the firmware, with *)
(* queues of one or two packets, and the sockets of the simulation.  They    *)
(* share no state; a behaviour is one of either, and leaves the other alone. *)
EXTENDS CrtpLink, SimLink

VARIABLE which

LinksInit == which \in {"crtp", "socket"} /\ Init /\ SocketInit

LinksNext ==
    \/ which = "crtp" /\ Next /\ UNCHANGED <<which, socketVars>>
    \/ which = "socket" /\ SocketNext /\ UNCHANGED <<which, vars>>

LinksSpec == LinksInit /\ [][LinksNext]_<<which, socketVars, vars>>

LinksTypeOK == TypeOK /\ SocketTypeOK
=============================================================================
