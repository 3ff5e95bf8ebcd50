--------------------------- MODULE BatteryEstimate ---------------------------
(***************************************************************************)
(* The battery level the ground station shows (PhysicalDrone.py).  On the  *)
(* ground it is read from the voltage; in flight, where the voltage sags,  *)
(* it is the level at the launch less a fixed drop per log packet.  The    *)
(* level at the launch and the drop are globals of the module, "we did not *)
(* have a choice": every drone's log callback, each in a thread of its     *)
(* own, and every explore request, each in a thread of the web server,     *)
(* update the same ones without a lock.  Each read and each store of them  *)
(* is a step of its own.                                                   *)
(***************************************************************************)
EXTENDS Integers

CONSTANTS
    Drone,    \* the connected drones
    Request,  \* the threads that serve explore requests
    Full,     \* the level of a full battery
    Unit,     \* the globals are floats: they count this many parts of a level
    Drop,     \* what a drone consumes per log period, in such parts
    Bound,    \* no thread comes to what exceeds this
    NoLevel   \* the attribute is not set yet; the drone has not been sent off

ScaleAssumption ==
    /\ Full \in Nat \ {0} /\ Unit \in Nat \ {0} /\ Drop \in Nat \ {0}
    /\ Bound \in Nat /\ Full * Unit <= Bound /\ Drop <= Bound
    /\ NoLevel \notin Int

VARIABLES
    flying,     \* the state in the last log packet is EXPLORATION or RETURN_HOME
    shown,      \* _drone_battery_level
    mission,    \* battery_for_this_mission
    drop,       \* battery_drop_per_800_milisecond
    callback,   \* each drone's log callback in flight: its place and operand
    explore,    \* each request: its place, its drone and what it has read
    launch,     \* history: the highest level with which the drone was sent off
    estimated,  \* history: the level shown is an estimate of this flight
    raced       \* history: the drones for whose flight two threads met on the globals

vars == <<flying, shown, mission, drop, callback, explore, launch, estimated, raced>>

NoPacket == [pc |-> "idle", value |-> 0]
NoRequest == [pc |-> "idle", drone |-> NoLevel, level |-> 0, first |-> 0, second |-> 0]

Init ==
    /\ flying = [d \in Drone |-> FALSE]
    /\ shown = [d \in Drone |-> NoLevel]
    /\ mission = 0
    /\ drop = 0
    /\ callback = [d \in Drone |-> NoPacket]
    /\ explore = [r \in Request |-> NoRequest]
    /\ launch = [d \in Drone |-> NoLevel]
    /\ estimated = [d \in Drone |-> FALSE]
    /\ raced = {}

Exploring == {r \in Request : explore[r].pc # "idle"}
Logging == {d \in Drone : callback[d].pc # "idle"}

\* A thread comes to the globals; where another is at them, every flight's estimate is in play.
Meet == raced' = IF Exploring \cup Logging = {} THEN raced ELSE Drone

\* _stab_log_data on the ground: battery_level from the table of voltages.
LogOnGround(d) ==
    /\ ~flying[d] /\ callback[d].pc = "idle"
    /\ \E level \in 0..Full : shown' = [shown EXCEPT ![d] = level]
    /\ estimated' = [estimated EXCEPT ![d] = FALSE]
    /\ UNCHANGED <<flying, mission, drop, callback, explore, launch, raced>>

----------------------------------------------------------------------------
(* In flight: PhysicalDrone.py:147, the global less the drop, in three steps. *)

ReadMission(d) ==
    /\ flying[d] /\ callback[d].pc = "idle"
    /\ {mission, drop} \subseteq -Bound..Bound
    /\ callback' = [callback EXCEPT ![d] = [pc |-> "drop", value |-> mission]]
    /\ Meet
    /\ UNCHANGED <<flying, shown, mission, drop, explore, launch, estimated>>

ReadDrop_Adds(d) ==   \* mutant: the sign of the drop
    /\ callback[d].pc = "drop"
    /\ callback' = [callback EXCEPT ![d] = [pc |-> "store", value |-> @.value + drop]]
    /\ UNCHANGED <<flying, shown, mission, drop, explore, launch, estimated, raced>>

ReadDrop(d) ==
    /\ callback[d].pc = "drop"
    /\ callback' = [callback EXCEPT ![d] = [pc |-> "store", value |-> @.value - drop]]
    /\ UNCHANGED <<flying, shown, mission, drop, explore, launch, estimated, raced>>

StoreMission_NoDrop(d) ==   \* mutant: the difference is not stored
    /\ callback[d].pc = "store"
    /\ callback' = [callback EXCEPT ![d] = [pc |-> "test", value |-> 0]]
    /\ UNCHANGED <<flying, shown, mission, drop, explore, launch, estimated, raced>>

StoreMission(d) ==
    /\ callback[d].pc = "store"
    /\ mission' = callback[d].value
    /\ callback' = [callback EXCEPT ![d] = [pc |-> "test", value |-> 0]]
    /\ UNCHANGED <<flying, shown, drop, explore, launch, estimated, raced>>

\* Lines 148 and 149: the global is read again, and cut off at zero.
TestMission(d) ==
    /\ callback[d].pc = "test"
    /\ callback' = [callback EXCEPT ![d].pc = IF mission < 0 THEN "reset" ELSE "read"]
    /\ UNCHANGED <<flying, shown, mission, drop, explore, launch, estimated, raced>>

ResetMission(d) ==
    /\ callback[d].pc = "reset"
    /\ mission' = 0
    /\ callback' = [callback EXCEPT ![d].pc = "read"]
    /\ UNCHANGED <<flying, shown, drop, explore, launch, estimated, raced>>

\* int(): towards zero.
Truncated(n) == IF n < 0 THEN -((-n) \div Unit) ELSE n \div Unit

\* Lines 150 and 99: it is read a third time, for the level to be shown.
ReadShown(d) ==
    /\ callback[d].pc = "read"
    /\ callback' = [callback EXCEPT ![d] = [pc |-> "show", value |-> Truncated(mission)]]
    /\ UNCHANGED <<flying, shown, mission, drop, explore, launch, estimated, raced>>

Show(d) ==
    /\ callback[d].pc = "show"
    /\ shown' = [shown EXCEPT ![d] = callback[d].value]
    /\ callback' = [callback EXCEPT ![d] = NoPacket]
    /\ estimated' = [estimated EXCEPT ![d] = TRUE]
    /\ UNCHANGED <<flying, mission, drop, explore, launch, raced>>

LogInFlight(d) ==
    \/ ReadMission(d) \/ ReadDrop(d) \/ StoreMission(d) \/ TestMission(d) \/ ResetMission(d)
    \/ ReadShown(d) \/ Show(d)

----------------------------------------------------------------------------
(* Within an explore request, for each drone that has a level: lines 188-195. *)

ReadLevel(r, d) ==
    /\ explore[r].pc = "idle" /\ shown[d] # NoLevel
    /\ shown[d] * Unit \in -Bound..Bound
    /\ explore' = [explore EXCEPT ![r] =
           [pc |-> "mission", drone |-> d, level |-> shown[d], first |-> 0, second |-> 0]]
    /\ Meet
    /\ UNCHANGED <<flying, shown, mission, drop, callback, launch, estimated>>

SetMission(r) ==
    /\ explore[r].pc = "mission"
    /\ mission' = explore[r].level * Unit
    /\ explore' = [explore EXCEPT ![r].pc = "time"]
    /\ UNCHANGED <<flying, shown, drop, callback, launch, estimated, raced>>

\* The estimated time of flight and the drop per second are locals; each reads the global.
ReadForTime(r) ==
    /\ explore[r].pc = "time"
    /\ explore' = [explore EXCEPT ![r].pc = "second", ![r].first = mission]
    /\ UNCHANGED <<flying, shown, mission, drop, callback, launch, estimated, raced>>

ReadForDrop_NoRaise(r) ==   \* mutant: with no time left it goes on
    /\ explore[r].pc = "second"
    /\ explore' = [explore EXCEPT ![r].pc = "store", ![r].second = mission]
    /\ UNCHANGED <<flying, shown, mission, drop, callback, launch, estimated, raced>>

\* With no time left the division raises: the drop keeps its value, nothing is sent.
ReadForDrop(r) ==
    /\ explore[r].pc = "second"
    /\ explore' = [explore EXCEPT ![r] =
           IF @.first = 0 THEN NoRequest ELSE [@ EXCEPT !.pc = "store", !.second = mission]]
    /\ UNCHANGED <<flying, shown, mission, drop, callback, launch, estimated, raced>>

Size(n) == IF n < 0 THEN -n ELSE n

\* A quotient of floats, rounded away from zero: it is zero, or negative, where theirs is.
Quotient(a, b) ==
    LET q == (Size(a) + Size(b) - 1) \div Size(b) IN IF (a < 0) = (b < 0) THEN q ELSE -q

\* The drop per period is one of the constants where both reads agree.
NewDrop(first, second) == IF first = second THEN Drop ELSE Quotient(Drop * second, first)

SentOffWith(d, level) ==
    IF launch[d] = NoLevel \/ (~estimated[d] /\ launch[d] < level) THEN level ELSE launch[d]

SetDrop(r) ==
    LET e == explore[r]
        d == e.drone
    IN  /\ e.pc = "store"
        /\ drop' = NewDrop(e.first, e.second)
        /\ launch' = [launch EXCEPT ![d] = SentOffWith(d, e.level)]
        /\ explore' = [explore EXCEPT ![r] = NoRequest]
        /\ UNCHANGED <<flying, shown, mission, callback, estimated, raced>>

SetEstimate(r) ==
    \/ \E d \in Drone : ReadLevel(r, d)
    \/ SetMission(r) \/ ReadForTime(r) \/ ReadForDrop(r) \/ SetDrop(r)

----------------------------------------------------------------------------
\* A drone that was sent off takes off.
TakeOff(d) ==
    /\ ~flying[d] /\ launch[d] # NoLevel
    /\ flying' = [flying EXCEPT ![d] = TRUE]
    /\ UNCHANGED <<shown, mission, drop, callback, explore, launch, estimated, raced>>

\* It lands; its next packets show what the voltage of its battery, which may be charged or
\* exchanged, stands for.
Land(d) ==
    /\ flying[d] /\ callback[d].pc = "idle"
    /\ flying' = [flying EXCEPT ![d] = FALSE]
    /\ launch' = [launch EXCEPT ![d] = NoLevel]
    /\ estimated' = [estimated EXCEPT ![d] = FALSE]
    /\ raced' = IF Exploring = {} THEN raced \ {d} ELSE raced
    /\ UNCHANGED <<shown, mission, drop, callback, explore>>

Next ==
    \/ \E d \in Drone : LogOnGround(d) \/ LogInFlight(d) \/ TakeOff(d) \/ Land(d)
    \/ \E r \in Request : SetEstimate(r)

\* A drone in flight keeps sending its log packets.
Fairness == \A d \in Drone : WF_vars(LogInFlight(d))

Spec == Init /\ [][Next]_vars /\ Fairness

----------------------------------------------------------------------------
\* Types of all the variables.
TypeOK ==
    /\ flying \in [Drone -> BOOLEAN]
    /\ shown \in [Drone -> Int \cup {NoLevel}]
    /\ mission \in Int /\ drop \in Int
    /\ callback \in [Drone -> [pc : {"idle", "drop", "store", "test", "reset", "read", "show"},
                               value : Int]]
    /\ explore \in [Request -> {NoRequest} \cup
           [pc : {"mission", "time", "second", "store"}, drone : Drone, level : Int,
            first : Int, second : Int]]
    /\ \A r \in Request : explore[r].pc = "store" => explore[r].first # 0
    /\ launch \in [Drone -> Int \cup {NoLevel}]
    /\ estimated \in [Drone -> BOOLEAN]
    /\ raced \in SUBSET Drone

\* PhysicalDrone.py:143-144: in flight the level is estimated from the level
\* just before the drone's thrust.  With a single drone the shared globals are
\* its own: unless an explore meets its log callback, or another explore, the
\* estimate never exceeds the highest level with which the drone was sent off,
\* however often explore is repeated, on the ground and in flight.
OwnEstimate == \A d \in Drone :
    flying[d] /\ estimated[d] /\ d \notin raced => shown[d] <= launch[d]

\* PhysicalDrone.py:143-144, as it stands: the level in flight is one that the
\* level before the thrust allows.  An explore that meets a callback breaks it.
EstimateFromTheLaunch == \A d \in Drone : flying[d] /\ estimated[d] => shown[d] <= launch[d]

\* With a single drone, however often explore is repeated, a flight that goes
\* on runs the level down to zero, unless an explore meets a log callback.
EstimateRunsOut == \A d \in Drone :
    flying[d] ~> (shown[d] = 0 \/ ~flying[d] \/ d \in raced)

\* The same of every flight: an explore between the store and the last read of
\* each callback undoes each decrement.
EstimateAlwaysRunsOut == \A d \in Drone : flying[d] ~> (shown[d] = 0 \/ ~flying[d])
=============================================================================
