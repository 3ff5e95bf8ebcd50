---------------------------- MODULE SimController ----------------------------
(***************************************************************************)
(* The controllers of the simulated drones                                 *)
(* (crazyflie_sensing.cpp): each ARGoS tick runs ControlStep once for each *)
(* drone, in one thread, then moves the drones toward the position they    *)
(* were last sent to.  The command is a static variable of the file, so    *)
(* every drone executes the command that any drone received.               *)
(***************************************************************************)
EXTENDS Naturals

CONSTANT Drone

Heights == {"ground", "low", "hover"}   \* below hoverHeight, at it
Places == {"base", "away"}              \* within a metre of m_cInitialPosition or not

\* What ReceiveValue returns: -1 or 0, or a value sent by the server.
Received == {"nothing", "TAKEOFF", "LAND", "BACKTOBASE", "SENDINFO"}

VARIABLES
    command,   \* static int command
    m_state,
    m_bDoneFinalLanding,
    target,    \* what SetAbsolutePosition was last called with
    height, place, low,   \* sensor readings: position, and a charge below 0.3
    stepped    \* drones whose ControlStep has run in this tick

world == <<height, place, low>>
vars == <<command, m_state, m_bDoneFinalLanding, target, world, stepped>>

Init ==
    /\ command = "none"
    /\ m_state = [d \in Drone |-> "WAITING"]
    /\ m_bDoneFinalLanding = [d \in Drone |-> FALSE]
    /\ target = [d \in Drone |-> "none"]
    /\ height = [d \in Drone |-> "ground"]
    /\ place = [d \in Drone |-> "base"]
    /\ low = [d \in Drone |-> FALSE]
    /\ stepped = {}

SetAbsolutePosition(d, pos) == target' = [target EXCEPT ![d] = pos]

SetState(d, s) == m_state' = [m_state EXCEPT ![d] = s]

----------------------------------------------------------------------------
(* The commands.                                                           *)

RandomExplore(d) ==
    IF m_state[d] = "EXPLORE" THEN SetAbsolutePosition(d, "explore") ELSE UNCHANGED target

TakeOffAndExplore_AtOnce(d) ==   \* mutant: it does not wait for the hover height
    /\ SetState(d, "EXPLORE")
    /\ IF m_state[d] = "EXPLORE" THEN RandomExplore(d) ELSE SetAbsolutePosition(d, "hover")

TakeOffAndExplore(d) ==
    IF m_state[d] = "EXPLORE"
      THEN RandomExplore(d) /\ UNCHANGED m_state
      ELSE /\ SetAbsolutePosition(d, "hover")
           /\ IF height[d] = "hover" THEN SetState(d, "EXPLORE") ELSE UNCHANGED m_state

Land_KeepsState(d) ==   \* mutant: the state is not reset
    /\ IF m_state[d] = "EXPLORE" THEN SetAbsolutePosition(d, "ground") ELSE UNCHANGED target
    /\ UNCHANGED m_state

Land(d) ==
    /\ IF m_state[d] = "EXPLORE" THEN SetAbsolutePosition(d, "ground") ELSE UNCHANGED target
    /\ SetState(d, "WAITING")

\* In either state the last position set is the initial one.
BackToBase(d) ==
    /\ SetAbsolutePosition(d, "base")
    /\ SetState(d, "WAITING")

Obey(d, c) ==
    CASE c = "TAKEOFF" -> TakeOffAndExplore(d)
      [] c = "LAND" -> Land(d)
      [] c = "BACKTOBASE" -> BackToBase(d)
      [] OTHER -> RandomExplore(d) /\ UNCHANGED m_state

\* ! !IsAtBase(): at the base the drone returns to its very start, elsewhere
\* it lands where it is.
FinalLanding_Repeats(d) ==   \* mutant: the flag is not set
    /\ IF place[d] = "base" THEN BackToBase(d) ELSE Land(d)
    /\ UNCHANGED m_bDoneFinalLanding

FinalLanding(d) ==
    /\ IF place[d] = "base" THEN BackToBase(d) ELSE Land(d)
    /\ m_bDoneFinalLanding' = [m_bDoneFinalLanding EXCEPT ![d] = TRUE]

ControlStep(d) ==
    /\ d \notin stepped
    /\ stepped' = stepped \cup {d}
    /\ \E r \in Received :
         /\ command' = IF r \in {"nothing", "SENDINFO"} THEN command ELSE r
         /\ \/ ~low[d] /\ Obey(d, command') /\ UNCHANGED m_bDoneFinalLanding
            \/ low[d] /\ ~m_bDoneFinalLanding[d] /\ FinalLanding(d)
            \/ /\ low[d] /\ m_bDoneFinalLanding[d]
               /\ UNCHANGED <<m_state, target, m_bDoneFinalLanding>>
    /\ UNCHANGED world

----------------------------------------------------------------------------
(* The simulator, between two rounds of control steps.                     *)

Climbs(h) == IF h = "ground" THEN {"low", "hover"} ELSE {h, "hover"}

Sinks(h) == IF h = "hover" THEN {"hover", "low"} ELSE {h, "ground"}

NextHeights(d) == CASE target[d] = "none" -> {height[d]}
                    [] target[d] = "hover" -> Climbs(height[d])
                    [] target[d] = "explore" -> {"hover"}
                    [] target[d] \in {"ground", "base"} -> Sinks(height[d])

NextPlaces(d) == CASE target[d] = "explore" -> Places
                   [] target[d] = "base" -> {place[d], "base"}
                   [] OTHER -> {place[d]}

Tick ==
    /\ stepped = Drone
    /\ stepped' = {}
    /\ height' \in [Drone -> Heights] /\ \A d \in Drone : height'[d] \in NextHeights(d)
    /\ place' \in [Drone -> Places] /\ \A d \in Drone : place'[d] \in NextPlaces(d)
    /\ low' \in [Drone -> BOOLEAN] /\ \A d \in Drone : low[d] => low'[d]
    /\ UNCHANGED <<command, m_state, m_bDoneFinalLanding, target>>

\* The reset button of the simulator: command keeps its value.
Reset ==
    /\ stepped = {}
    /\ m_state' = [d \in Drone |-> "WAITING"]
    /\ m_bDoneFinalLanding' = [d \in Drone |-> FALSE]
    /\ target' = [d \in Drone |-> "none"]
    /\ height' = [d \in Drone |-> "ground"]
    /\ place' = [d \in Drone |-> "base"]
    /\ low' = [d \in Drone |-> FALSE]
    /\ UNCHANGED <<command, stepped>>

Next == (\E d \in Drone : ControlStep(d)) \/ Tick \/ Reset

\* The simulator runs.
Fairness == WF_vars(Tick) /\ \A d \in Drone : WF_vars(ControlStep(d))

Spec == Init /\ [][Next]_vars /\ Fairness

----------------------------------------------------------------------------
(* Properties.                                                             *)

\* Types of all the variables.
TypeOK ==
    /\ command \in {"none", "TAKEOFF", "LAND", "BACKTOBASE"}
    /\ m_state \in [Drone -> {"WAITING", "EXPLORE"}]
    /\ m_bDoneFinalLanding \in [Drone -> BOOLEAN]
    /\ target \in [Drone -> {"none", "hover", "explore", "ground", "base"}]
    /\ height \in [Drone -> Heights]
    /\ place \in [Drone -> Places]
    /\ low \in [Drone -> BOOLEAN]
    /\ stepped \subseteq Drone

\* A drone that is exploring is at its hover height and not on its way down,
\* whichever drone received which command, and in whichever tick.
ExplorersFly ==
    \A d \in Drone :
      m_state[d] = "EXPLORE" => height[d] = "hover" /\ target[d] \in {"hover", "explore"}

\* One drone that receives LAND or BACKTOBASE stops the exploration of all.
EndReachesAll ==
    command \in {"LAND", "BACKTOBASE"}
      ~> (command = "TAKEOFF" \/ \A d \in Drone : m_state[d] = "WAITING")

\* An empty battery ends the exploration, whatever the server goes on sending.
BatteryEndsExploration ==
    \A d \in Drone : low[d] ~> (m_bDoneFinalLanding[d] /\ m_state[d] = "WAITING") \/ ~low[d]

----------------------------------------------------------------------------
(* What a comment says and the code does not do.                           *)

\* crazyflie_sensing.h:148: the flag says that the drone "has land for the
\* last time", so it is on its way to the ground.
FinalLandingLands ==
    \A d \in Drone : m_bDoneFinalLanding[d] => target[d] # "hover"
=============================================================================
