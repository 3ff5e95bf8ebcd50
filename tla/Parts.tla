-------------------------------- MODULE Parts --------------------------------
(* The small models that share no state with one another, explored one after *)
(* the other in the same run: a behaviour is one of the part it starts with, *)
(* and leaves the variables of the others alone.                             *)
EXTENDS Integers, Sequences

CONSTANTS
    SimDrone,                                   \* of SimController
    Flying, Request, Full, Unit, Drop,          \* of BatteryEstimate
        Bound, NoLevel,
    BlinkTime,                                  \* of Identification
    Ranges, Turn, MaxOutside,                   \* of WallFollower
    Shown, Value, Poll,                         \* of WebClient
    Motors, Hysteresis, Timeout, Samples,       \* of Stabilizer
        OnPeriod, OffPeriod, BatteryPeriod,
    Caller, Timer, Sequence                     \* of LedSequence

VARIABLES part,
    command, m_state, m_bDoneFinalLanding, target, height, place, low, stepped,
    flying, shown, mission, drop, callback, explore, launch, estimated, raced,
    onCounter, led, active, starting, blinks,
    stateWF, prevHeading, wallAngle, aroundCornerBackTrack, waited, goLeft, heading, ahead,
        cmd, searched, outside,
    server, polls, drones, screen,
    emergencyStop, emergencyStopTimeout, feeding, testState, i, motorToTest, startPropTest,
        startBatTest, running, hysteresis, quiet,
    state, activeSeq, light, holder, armed, task

controllerVars == <<command, m_state, m_bDoneFinalLanding, target, height, place, low, stepped>>
estimateVars == <<flying, shown, mission, drop, callback, explore, launch, estimated,
                  raced>>
blinkVars == <<onCounter, led, active, starting, blinks>>
wallVars == <<stateWF, prevHeading, wallAngle, aroundCornerBackTrack, waited, goLeft, heading,
              ahead, cmd, searched, outside>>
pageVars == <<server, polls, drones, screen>>
loopVars == <<emergencyStop, emergencyStopTimeout, feeding, testState, i, motorToTest,
              startPropTest, startBatTest, running, hysteresis, quiet>>
lightVars == <<state, activeSeq, light, holder, armed, task>>
vars == <<part, controllerVars, estimateVars, blinkVars, wallVars, pageVars, loopVars, lightVars>>

Sim == INSTANCE SimController WITH Drone <- SimDrone

Est == INSTANCE BatteryEstimate WITH Drone <- Flying

Blink == INSTANCE Identification

Wall == INSTANCE WallFollower

Page == INSTANCE WebClient WITH Drone <- Shown

Stab == INSTANCE Stabilizer

Light == INSTANCE LedSequence WITH led <- light

ASSUME PartAssumption ==
    /\ Est!ScaleAssumption
    /\ Wall!RangesAssumption /\ Wall!TurnAssumption /\ Wall!BoundAssumption
    /\ Stab!PeriodAssumption
    /\ Light!SequenceAssumption
    /\ Blink!BlinkAssumption

Init ==
    /\ part \in {"controller", "estimate", "blink", "wall", "page", "loop", "light"}
    /\ Sim!Init /\ Est!Init /\ Blink!Init /\ Wall!Init /\ Page!Init
    /\ Stab!Init /\ Light!Init

InController(A) ==
    /\ part = "controller" /\ A
    /\ UNCHANGED <<part, estimateVars, blinkVars, wallVars, pageVars, loopVars, lightVars>>
InEstimate(A) ==
    /\ part = "estimate" /\ A
    /\ UNCHANGED <<part, controllerVars, blinkVars, wallVars, pageVars, loopVars, lightVars>>
InBlink(A) ==
    /\ part = "blink" /\ A
    /\ UNCHANGED <<part, controllerVars, estimateVars, wallVars, pageVars, loopVars, lightVars>>
InWall(A) ==
    /\ part = "wall" /\ A
    /\ UNCHANGED <<part, controllerVars, estimateVars, blinkVars, pageVars, loopVars, lightVars>>
InPage(A) ==
    /\ part = "page" /\ A
    /\ UNCHANGED <<part, controllerVars, estimateVars, blinkVars, wallVars, loopVars, lightVars>>
InLoop(A) ==
    /\ part = "loop" /\ A
    /\ UNCHANGED <<part, controllerVars, estimateVars, blinkVars, wallVars, pageVars, lightVars>>

InLight(A) ==
    /\ part = "light" /\ A
    /\ UNCHANGED <<part, controllerVars, estimateVars, blinkVars, wallVars, pageVars, loopVars>>

Next ==
    \/ InController(Sim!Next) \/ InEstimate(Est!Next) \/ InBlink(Blink!Next)
    \/ InWall(Wall!Next) \/ InPage(Page!Next) \/ InLoop(Stab!Next)
    \/ InLight(Light!Next)

\* Each part's own fairness.
Fairness ==
    /\ WF_vars(InController(Sim!Tick))
    /\ \A d \in SimDrone : WF_vars(InController(Sim!ControlStep(d)))
    /\ \A d \in Flying : WF_vars(InEstimate(Est!LogInFlight(d)))
    /\ \A p \in Poll : /\ WF_vars(InPage(Page!DronesUpdate(p)))
                       /\ WF_vars(InPage(Page!Answered(p)))

Spec == Init /\ [][Next]_vars /\ Fairness

----------------------------------------------------------------------------
\* The properties of the parts; a part at rest satisfies its own.
TypeOK ==
    /\ Sim!TypeOK /\ Est!TypeOK /\ Blink!TypeOK
    /\ Wall!TypeOK /\ Page!TypeOK /\ Stab!TypeOK
    /\ Light!TypeOK

ExplorersFly == Sim!ExplorersFly
EndReachesAll == Sim!EndReachesAll
BatteryEndsExploration == Sim!BatteryEndsExploration
FinalLandingLands == Sim!FinalLandingLands

OwnEstimate == Est!OwnEstimate
EstimateRunsOut == Est!EstimateRunsOut
EstimateFromTheLaunch == Est!EstimateFromTheLaunch
EstimateAlwaysRunsOut == Est!EstimateAlwaysRunsOut

BlinksToTheEnd == Blink!BlinksToTheEnd

NotIntoAWall == Wall!NotIntoAWall
SearchTurnsBack == Wall!SearchTurnsBack

PageCatchesUp == Page!PageCatchesUp

TimeoutStops == Stab!TimeoutStops
TestsLeaveMotorsOff == Stab!TestsLeaveMotorsOff
StopStopsMotors == Stab!StopStopsMotors

OnIsRunning == Light!OnIsRunning
OnlyTheFirstRuns == Light!OnlyTheFirstRuns
ActiveGoesOn == Light!ActiveGoesOn
=============================================================================
