------------------------------ MODULE DroneApp ------------------------------
(***************************************************************************)
(* The onboard application task of a Crazyflie (app_api/src/app_main.c and *)
(* the files it calls): the mission state machine, the nested state        *)
(* machine that brings the drone back to its base, the hand lock of the    *)
(* wall follower, and the FreeRTOS software timer that re-aims the drone.  *)
(*                                                                         *)
(* Two tasks run here.  The application task (priority 0) goes round the   *)
(* loop of appMain; pc says where it is in an iteration.  The timer task   *)
(* (priority 1) may preempt it anywhere and runs its callback to the end,  *)
(* so a callback is one action and the application is split wherever it    *)
(* reads or writes a variable the callback also uses.  Sensors, parameters *)
(* and packets are chosen afresh every time the code reads them.           *)
(***************************************************************************)
EXTENDS Integers

CONSTANTS
    FullCharge,      \* charge of a cell at the top of the voltage table
    ReserveCharge,   \* MINIMUM_BATTERY_LEVEL_FOR_EXPLORATION
    UpRanges,        \* readings of the upward ranger, in millimetres
    DecksReady       \* positioningInit && multirangerInit

ASSUME ChargeAssumption == /\ FullCharge \in Nat
                           /\ ReserveCharge \in 0..FullCharge
ASSUME RangeAssumption == UpRanges \subseteq Nat /\ UpRanges # {}
ASSUME DecksAssumption == DecksReady \in BOOLEAN

State == {"IDLE", "TAKE_OFF", "EXPLORATION", "RETURN_HOME", "LANDING", "CRASHED"}

ReturnState == {"VERIFY_DISTANCE_TO_BASE", "FINDING_ANGLE", "TURN_TO_ANGLE",
                "VERIFY_WAY_AHEAD", "GO_STRAIGHT_TO_BASE", "RE_INIT_WALL_FOLLER",
                "WALL_FOLLOWER"}

OuterLoop == {"idle", "lowUnlock", "unlocked", "stopping"}

\* What the last commanderSetSetpoint(&setpoint, 3) of the application asks for.
Setpoint == {"none", "null", "wall", "turn", "straight", "land"}

VARIABLES
    pc,              \* where the application task is in an iteration of appMain
    state,           \* mission state, the one the ground station logs
    stateForReturnToBase,
    pending,         \* the value the application is about to store there, or "none"
    angleTimer,      \* AnglerTimer: "dormant", "armed" or "due"
    stateOuterLoop,  \* hand lock of followTheWall
    setpoint,        \* last setpoint handed to the commander
    enHighLevel,     \* parameter commander.enHighLevel
    planFlying,      \* the high-level planner holds a trajectory
    elapsed,         \* time since timeStartMission, saturated
    voltage,         \* last reading of the battery voltage
    estimatedTimeForMission,
    handStopped,     \* history: a hand stopped the drone, nothing unlocked it since
    looked,          \* history: the way ahead was clean at the last look of this return
    returnCause      \* history: what started the return in progress

returnVars == <<stateForReturnToBase, pending, angleTimer>>
commanderVars == <<setpoint, enHighLevel, planFlying>>
missionVars == <<elapsed, voltage, estimatedTimeForMission>>
history == <<handStopped, looked, returnCause>>
vars == <<pc, state, returnVars, stateOuterLoop, commanderVars, missionVars, history>>

----------------------------------------------------------------------------
(* Battery and mission time.  One unit of charge pays for one unit of time. *)

\* getBatteryLevel: every branch of the table asks for a voltage of at most
\* 4.2 V, so a reading above the table keeps the initial 0.
getBatteryLevel_NoTop(v) == v   \* mutant: nothing above the table is caught

getBatteryLevel(v) == IF v > FullCharge THEN 0 ELSE v

Voltages == 0..(FullCharge + 1)

\* Beyond the longest estimate the comparison of timeForMissionHasPassed is
\* TRUE for ever, so the clock need not be counted further.
MaxElapsed == FullCharge - ReserveCharge + 1

timeForMissionHasPassed == elapsed > estimatedTimeForMission

setTimeForLowBattery_Always ==   \* mutant: no test of the state
    /\ elapsed' = 0
    /\ voltage' \in Voltages
    /\ estimatedTimeForMission' = getBatteryLevel(voltage') - ReserveCharge

setTimeForLowBattery ==
    IF state # "EXPLORATION"
      THEN /\ elapsed' = 0
           /\ voltage' \in Voltages
           /\ estimatedTimeForMission' = getBatteryLevel(voltage') - ReserveCharge
      ELSE UNCHANGED missionVars

----------------------------------------------------------------------------
(* Commands to the commander. *)

\* commanderSetSetpoint at priority 3, which no other source exceeds: the
\* setpoint is taken and the high-level planner is stopped.
commanderSetSetpoint(s) ==
    /\ setpoint' = s
    /\ planFlying' = FALSE
    /\ UNCHANGED enHighLevel

unlockThLow == 100
unlockThHigh == 300
stoppedTh == 500

\* The locked branch of followTheWall: its three tests run in this order, each
\* on the value the one before it left.
Released(outer, up) == IF outer = "stopping" /\ up > stoppedTh THEN "idle" ELSE outer
Covered(outer, up) ==
    IF outer = "idle" /\ up < unlockThLow /\ up > 0 THEN "lowUnlock" ELSE outer
Uncovered(outer, up) ==
    IF outer = "lowUnlock" /\ up > unlockThHigh /\ DecksReady THEN "unlocked" ELSE outer
LockedNext(outer, up) == Uncovered(Covered(Released(outer, up), up), up)

\* cmdHeight < spHeight - 0.2, with cmdHeight = 0.3 - (300 - MIN(up, 300)) / 1000.
HandAbove(up) == up < 100

----------------------------------------------------------------------------
Init ==
    /\ pc = "crash"
    /\ state = "IDLE"
    /\ stateForReturnToBase = "FINDING_ANGLE"
    /\ pending = "none"
    /\ angleTimer = "dormant"
    /\ stateOuterLoop = "idle"
    /\ setpoint = "none"
    /\ enHighLevel = FALSE
    /\ planFlying = FALSE
    /\ elapsed = 0
    /\ voltage = 0
    /\ estimatedTimeForMission = 0
    /\ handStopped = FALSE
    /\ looked = FALSE
    /\ returnCause = "none"

----------------------------------------------------------------------------
(* Top of the loop: crash verification, then at most one packet. *)

VerifyCrash ==
    /\ pc = "crash"
    /\ pc' = "packet"
    /\ \E crashed \in BOOLEAN :
         state' = IF crashed THEN "CRASHED"
                  ELSE IF state = "CRASHED" THEN "IDLE" ELSE state
    /\ UNCHANGED <<returnVars, stateOuterLoop, commanderVars, missionVars, history>>

\* No packet, or one that changes nothing here (the DEL request's own state
\* is in Identification).
NoCommand ==
    /\ pc = "packet"
    /\ pc' = "dispatch"
    /\ UNCHANGED <<state, returnVars, stateOuterLoop, commanderVars, missionVars, history>>

OnTakeOff_AnyState ==   \* mutant: no test of the state
    /\ pc = "packet"
    /\ pc' = "dispatch"
    /\ state' = "TAKE_OFF"
    /\ UNCHANGED <<returnVars, stateOuterLoop, commanderVars, missionVars, history>>

OnTakeOff ==
    /\ pc = "packet"
    /\ pc' = "dispatch"
    /\ state' = IF state = "IDLE" THEN "TAKE_OFF" ELSE state
    /\ UNCHANGED <<returnVars, stateOuterLoop, commanderVars, missionVars, history>>

\* commandIsFinish compares the clock with the planner's trajectory; it is
\* only asked in STATE_LANDING.
OnLanding ==
    /\ pc = "packet"
    /\ pc' = "dispatch"
    /\ \E commandIsFinish \in BOOLEAN :
         state' = IF state = "LANDING" /\ commandIsFinish THEN "IDLE"
                  ELSE IF state \in {"TAKE_OFF", "EXPLORATION", "RETURN_HOME"} THEN "LANDING"
                  ELSE state
    /\ UNCHANGED <<returnVars, stateOuterLoop, commanderVars, missionVars, history>>

\* prepareExploration up to the delay in followTheWall, where it gives up the
\* processor; nothing to prepare when the hand lock is already open.
EnterPrepareExploration ==
    IF stateOuterLoop # "unlocked"
      THEN pc' = "prepare" /\ stateOuterLoop' = "idle"
      ELSE pc' = "dispatch" /\ UNCHANGED stateOuterLoop

OnExploration ==
    /\ pc = "packet"
    /\ setTimeForLowBattery
    /\ state' = "EXPLORATION"
    /\ EnterPrepareExploration
    /\ UNCHANGED <<returnVars, commanderVars, history>>

OnReturnToBase_NoPrepare ==   \* mutant: prepareExploration is not called
    /\ pc = "packet"
    /\ pc' = "dispatch"
    /\ state' = "RETURN_HOME"
    /\ stateForReturnToBase' = "VERIFY_DISTANCE_TO_BASE"
    /\ looked' = FALSE
    /\ returnCause' = "command"
    /\ UNCHANGED <<pending, angleTimer, stateOuterLoop, commanderVars, missionVars, handStopped>>

OnReturnToBase_KeepsState ==   \* mutant: setStateReturnHome is not called
    /\ pc = "packet"
    /\ state' = "RETURN_HOME"
    /\ EnterPrepareExploration
    /\ looked' = FALSE
    /\ returnCause' = "command"
    /\ UNCHANGED <<returnVars, commanderVars, missionVars, handStopped>>

OnReturnToBase ==
    /\ pc = "packet"
    /\ state' = "RETURN_HOME"
    /\ stateForReturnToBase' = "VERIFY_DISTANCE_TO_BASE"
    /\ EnterPrepareExploration
    /\ looked' = FALSE
    /\ returnCause' = "command"
    /\ UNCHANGED <<pending, angleTimer, commanderVars, missionVars, handStopped>>

\* The rest of prepareExploration: the locked branch of followTheWall runs
\* once from idle, then the lock is opened whatever it did.
PrepareExploration ==
    /\ pc = "prepare"
    /\ pc' = "dispatch"
    /\ \E up \in UpRanges :
         IF LockedNext(stateOuterLoop, up) \in {"idle", "stopping"}
           THEN commanderSetSetpoint("null")
           ELSE UNCHANGED commanderVars
    /\ stateOuterLoop' = "unlocked"
    /\ handStopped' = FALSE
    /\ UNCHANGED <<state, returnVars, missionVars, looked, returnCause>>

----------------------------------------------------------------------------
(* launchCommand. *)

NothingToLaunch ==
    /\ pc = "dispatch"
    /\ state \in {"IDLE", "CRASHED"}
    /\ pc' = "crash"
    /\ UNCHANGED <<state, returnVars, stateOuterLoop, commanderVars, missionVars, history>>

\* takeOff: a planner that is not idle refuses and keeps its trajectory.
TakeOff ==
    /\ pc = "dispatch"
    /\ state = "TAKE_OFF"
    /\ pc' = "crash"
    /\ state' = "IDLE"
    /\ enHighLevel' = TRUE
    /\ planFlying' = TRUE
    /\ UNCHANGED <<returnVars, stateOuterLoop, setpoint, missionVars, history>>

Landing ==
    /\ pc = "dispatch"
    /\ state = "LANDING"
    /\ pc' = "crash"
    /\ state' = "IDLE"
    /\ commanderSetSetpoint("land")
    /\ UNCHANGED <<returnVars, stateOuterLoop, missionVars, history>>

\* exploration up to the delay in followTheWall.
Exploration ==
    /\ pc = "dispatch"
    /\ state = "EXPLORATION"
    /\ pc' = "wall"
    /\ IF timeForMissionHasPassed
         THEN state' = "RETURN_HOME" /\ returnCause' = "battery" /\ looked' = FALSE
         ELSE UNCHANGED <<state, returnCause, looked>>
    /\ UNCHANGED <<returnVars, stateOuterLoop, commanderVars, missionVars, handStopped>>

\* followTheWall after its delay, lock open: one wall-following setpoint, and
\* the lock closes under a hand.
FollowUnlocked ==
    /\ pc = "wall"
    /\ stateOuterLoop = "unlocked"
    /\ pc' = "crash"
    /\ commanderSetSetpoint("wall")
    /\ \E up \in UpRanges :
         IF HandAbove(up)
           THEN stateOuterLoop' = "stopping" /\ handStopped' = TRUE
           ELSE UNCHANGED <<stateOuterLoop, handStopped>>
    /\ UNCHANGED <<state, returnVars, missionVars, looked, returnCause>>

\* followTheWall after its delay, lock closed.
FollowLocked ==
    /\ pc = "wall"
    /\ stateOuterLoop # "unlocked"
    /\ pc' = "crash"
    /\ \E up \in UpRanges :
         /\ stateOuterLoop' = LockedNext(stateOuterLoop, up)
         /\ IF stateOuterLoop' \in {"idle", "stopping"}
              THEN commanderSetSetpoint("null")
              ELSE UNCHANGED commanderVars
    /\ handStopped' = (handStopped /\ stateOuterLoop' # "unlocked")
    /\ UNCHANGED <<state, returnVars, missionVars, looked, returnCause>>

----------------------------------------------------------------------------
(* returnToBase: the switch reads stateForReturnToBase, the case works, and *)
(* the store of the next value is a step of its own (pc = "store").         *)

Returning(r) ==
    /\ pc = "dispatch"
    /\ state = "RETURN_HOME"
    /\ stateForReturnToBase = r

Store(r) == pc' = "store" /\ pending' = r

VerifyDistanceToBase ==
    /\ Returning("VERIFY_DISTANCE_TO_BASE")
    /\ \/ Store("FINDING_ANGLE") /\ UNCHANGED state
       \/ pc' = "crash" /\ state' = "LANDING" /\ UNCHANGED pending
    /\ UNCHANGED <<stateForReturnToBase, angleTimer, stateOuterLoop, commanderVars,
                   missionVars, history>>

FindAngleState ==
    /\ Returning("FINDING_ANGLE")
    /\ Store("TURN_TO_ANGLE")
    /\ UNCHANGED <<state, stateForReturnToBase, angleTimer, stateOuterLoop, commanderVars,
                   missionVars, history>>

TurnToAngleState ==
    /\ Returning("TURN_TO_ANGLE")
    /\ \/ Store("VERIFY_WAY_AHEAD")
       \/ pc' = "crash" /\ UNCHANGED pending
    /\ commanderSetSetpoint("turn")
    /\ UNCHANGED <<state, stateForReturnToBase, angleTimer, stateOuterLoop, missionVars, history>>

VerifyWayAheadState ==
    /\ Returning("VERIFY_WAY_AHEAD")
    /\ \E clean \in BOOLEAN :
         /\ Store(IF clean THEN "GO_STRAIGHT_TO_BASE" ELSE "RE_INIT_WALL_FOLLER")
         /\ looked' = clean
    /\ UNCHANGED <<state, stateForReturnToBase, angleTimer, stateOuterLoop, commanderVars,
                   missionVars, handStopped, returnCause>>

GoStraightToBaseState ==
    /\ Returning("GO_STRAIGHT_TO_BASE")
    /\ commanderSetSetpoint("straight")
    /\ \/ Store("VERIFY_WAY_AHEAD") /\ UNCHANGED state
       \/ pc' = "crash" /\ state' = "LANDING" /\ UNCHANGED pending
    /\ UNCHANGED <<stateForReturnToBase, angleTimer, stateOuterLoop, missionVars, history>>

ReInitWallFollowerState_NoTimer ==   \* mutant: startFindingAngleTimer is not called
    /\ Returning("RE_INIT_WALL_FOLLER")
    /\ Store("WALL_FOLLOWER")
    /\ UNCHANGED <<state, stateForReturnToBase, angleTimer, stateOuterLoop, commanderVars,
                   missionVars, history>>

\* xTimerStart: the timer task preempts the application and (re)starts the
\* timer for a whole period before the application goes on.
ReInitWallFollowerState ==
    /\ Returning("RE_INIT_WALL_FOLLER")
    /\ angleTimer' = "armed"
    /\ Store("WALL_FOLLOWER")
    /\ UNCHANGED <<state, stateForReturnToBase, stateOuterLoop, commanderVars, missionVars, history>>

ReturnByWall ==
    /\ Returning("WALL_FOLLOWER")
    /\ pc' = "wall"
    /\ UNCHANGED <<state, returnVars, stateOuterLoop, commanderVars, missionVars, history>>

StoreReturnState ==
    /\ pc = "store"
    /\ pc' = "crash"
    /\ stateForReturnToBase' = pending
    /\ pending' = "none"
    /\ UNCHANGED <<state, angleTimer, stateOuterLoop, commanderVars, missionVars, history>>

----------------------------------------------------------------------------
(* Time and the timer task. *)

\* The period of 11 s is over.  The application is never held up for a whole
\* period between xTimerStart and the store that follows it.
AnglePeriodElapses ==
    /\ angleTimer = "armed"
    /\ ~ (pc = "store" /\ pending = "WALL_FOLLOWER")
    /\ angleTimer' = "due"
    /\ UNCHANGED <<pc, state, stateForReturnToBase, pending, stateOuterLoop, commanderVars,
                   missionVars, history>>

findingAngle_OnlyStops ==   \* mutant: the callback stops the timer and stores nothing
    /\ angleTimer = "due"
    /\ angleTimer' = "dormant"
    /\ UNCHANGED <<pc, state, stateForReturnToBase, pending, stateOuterLoop, commanderVars,
                   missionVars, history>>

\* The callback; the timer task handles the stop it posts before it yields.
findingAngle ==
    /\ angleTimer = "due"
    /\ stateForReturnToBase' = "FINDING_ANGLE"
    /\ angleTimer' = "dormant"
    /\ UNCHANGED <<pc, state, pending, stateOuterLoop, commanderVars, missionVars, history>>

Tick ==
    /\ elapsed < MaxElapsed
    /\ elapsed' = elapsed + 1
    /\ UNCHANGED <<pc, state, returnVars, stateOuterLoop, commanderVars, voltage,
                   estimatedTimeForMission, history>>

----------------------------------------------------------------------------
ReceivePacket == NoCommand \/ OnTakeOff \/ OnLanding \/ OnExploration \/ OnReturnToBase

ReturnToBase ==
    \/ VerifyDistanceToBase \/ FindAngleState \/ TurnToAngleState
    \/ VerifyWayAheadState \/ GoStraightToBaseState
    \/ ReInitWallFollowerState \/ ReturnByWall

LaunchCommand ==
    NothingToLaunch \/ TakeOff \/ Landing \/ Exploration \/ ReturnToBase

FollowTheWall == FollowUnlocked \/ FollowLocked

AppTask ==
    VerifyCrash \/ ReceivePacket \/ PrepareExploration \/ LaunchCommand
      \/ FollowTheWall \/ StoreReturnState

TimerTask == AnglePeriodElapses \/ findingAngle

Next == AppTask \/ TimerTask \/ Tick

\* The scheduler gives every ready task the processor, the timer task first;
\* time passes.
Fairness == WF_vars(AppTask) /\ WF_vars(TimerTask) /\ WF_vars(Tick)

Spec == Init /\ [][Next]_vars /\ Fairness
----------------------------------------------------------------------------
(* Properties. *)

\* Types of all the variables.
TypeOK ==
    /\ pc \in {"crash", "packet", "prepare", "dispatch", "wall", "store"}
    /\ state \in State
    /\ stateForReturnToBase \in ReturnState
    /\ pending \in ReturnState \cup {"none"}
    /\ pc = "store" <=> pending # "none"
    /\ angleTimer \in {"dormant", "armed", "due"}
    /\ stateOuterLoop \in OuterLoop
    /\ setpoint \in Setpoint
    /\ enHighLevel \in BOOLEAN
    /\ planFlying \in BOOLEAN
    /\ elapsed \in 0..MaxElapsed
    /\ voltage \in Voltages
    /\ estimatedTimeForMission \in (0 - ReserveCharge)..(FullCharge - ReserveCharge)
    /\ handStopped \in BOOLEAN
    /\ looked \in BOOLEAN
    /\ returnCause \in {"none", "command", "battery"}

\* The wall follower of the return to base is left only through the timer
\* (main_commands.c:126-128 never leaves WALL_FOLLOWER), so whenever the drone
\* is in it the timer must be running: no interleaving of the application with
\* the callback, and no command in between, loses the wake-up.
WallFollowerHasTimer ==
    stateForReturnToBase = "WALL_FOLLOWER" => angleTimer \in {"armed", "due"}

\* A mission never waits for the hand that unlocks the stock wall follower:
\* once an exploration or a return is launched the lock is open, unless a hand
\* closed it during the mission (wall_following_projet3.c:155-166, 252-256).
MissionIsUnlocked ==
    pc \in {"dispatch", "wall", "store"} /\ state \in {"EXPLORATION", "RETURN_HOME"}
      => stateOuterLoop = "unlocked" \/ handStopped

\* In a return the ground station asked for, the drone flies straight only
\* when its last look ahead in this return found the way clean
\* (main_commands.c:92-95, 180-196).
CommandedReturnLooksFirst ==
    Returning("GO_STRAIGHT_TO_BASE") /\ returnCause = "command" => looked

\* As long as a mission explores, its start and its length stay what they were:
\* a second EXPLORATION packet does not lengthen it (information.c:85-93).
MissionNotExtended ==
    [][state = "EXPLORATION" /\ state' = "EXPLORATION"
        => elapsed' >= elapsed /\ UNCHANGED estimatedTimeForMission]_vars

\* Every exploration comes to an end, however many EXPLORATION packets arrive:
\* its time passes and the drone turns home, if nothing stops it earlier
\* (main_commands.c:84-90).
ExplorationEnds == state = "EXPLORATION" ~> state # "EXPLORATION"

\* The drone does not follow the wall for ever on its way home: it looks for
\* the angle to its base again (main_commands.c:150-154, 198-203).
WallFollowerIsLeft ==
    stateForReturnToBase = "WALL_FOLLOWER" ~> stateForReturnToBase = "FINDING_ANGLE"

\* What the ground station may rely on (DroneMode): the mission state changes
\* only in the ways the command protocol allows, and take-off, landing and
\* exploration do not last (app_main.c:70-139).
Mode == INSTANCE DroneMode WITH mode <- state
ImplementsMode == Mode!Spec

----------------------------------------------------------------------------
(* What the comments of the code say and the code does not do. *)

\* main_commands.h:34: landing after the exploration or after a simple take
\* off.  A drone up on its take-off trajectory is in a state in which a LANDING
\* packet lands it.
LandsAfterTakeOff ==
    pc = "packet" /\ planFlying /\ state # "CRASHED"
      => state \in {"TAKE_OFF", "EXPLORATION", "RETURN_HOME", "LANDING"}

\* return_to_base.h:67: the drone goes in a straight line unless it finds
\* obstacles, so it flies straight only after a look that found none.
LooksBeforeGoingStraight == Returning("GO_STRAIGHT_TO_BASE") => looked

\* wall_following_projet3.c:251 and 283: a hand above the drone stops it, and
\* it stays stopped (or lands) until a command or a hand unlocks it.
HandStopHolds ==
    [][handStopped /\ handStopped' => setpoint' \in {setpoint, "null", "land"}]_vars

\* main_commands.h:69: within the radius the drone switches to landing; once
\* it did, it does not become idle without having sent the landing setpoint.
LandingIsCarriedOut ==
    [][state = "LANDING" /\ state' = "IDLE" => setpoint' = "land"]_vars

\* information.h:120: the mission lasts until 30 % of the battery is left, so a
\* mission that starts on a cell above the reserve has some time to explore.
ChargedCellExplores == voltage > ReserveCharge => estimatedTimeForMission > 0
=============================================================================
