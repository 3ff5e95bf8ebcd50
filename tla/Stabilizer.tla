----------------------------- MODULE Stabilizer -----------------------------
(* The stabilizer loop (modules/src/stabilizer.c) with what decides whether  *)
(* the motors turn: the emergency stop and its timeout, the supervisor       *)
(* (supervisor.c) and the health tests (health.c). The loop has the highest  *)
(* priority: an iteration is a step, and the tasks that serve packets and    *)
(* parameters run between two of them.                                       *)
EXTENDS Integers

CONSTANTS
    Motors,             \* NBR_OF_MOTORS
    Hysteresis,         \* SUPERVISOR_HYSTERESIS_THRESHOLD
    Timeout,            \* DEFAULT_EMERGENCY_STOP_TIMEOUT
    Samples,            \* PROPTEST_NBR_OF_VARIANCE_VALUES
    OnPeriod, OffPeriod,\* of the propeller test
    BatteryPeriod       \* iterations of the battery test

\* Parts, which instantiates the module, asserts it.
PeriodAssumption ==
    /\ {Motors, Samples, OnPeriod, OffPeriod, BatteryPeriod} \subseteq Nat \ {0}
    /\ {Hysteresis, Timeout} \subseteq Nat \ {0}
    /\ OnPeriod > 1 /\ Samples <= OnPeriod + OffPeriod
    /\ OnPeriod = BatteryPeriod     \* with brushed motors

VARIABLES
    emergencyStop, emergencyStopTimeout,
    feeding,            \* stabilizerSetEmergencyStopTimeout is between its two assignments
    testState, i, motorToTest, startPropTest, startBatTest,
    running,            \* the motors that turn: of four, enough to fly
    hysteresis,
    quiet               \* history: iterations without the packet that feeds the timeout

stopVars == <<emergencyStop, emergencyStopTimeout, feeding>>
testVars == <<testState, i, motorToTest>>
vars == <<stopVars, testVars, startPropTest, startBatTest, running, hysteresis, quiet>>

Motor == 0..(Motors - 1)
Disabled == -1

TestState == {"configureAcc", "measureNoiseFloor", "measureProp", "testBattery",
              "evaluatePropResult", "evaluateBatResult", "testDone"}

\* i goes on for ever in a battery test that missed its end: past this it is not told apart.
MaxI == OnPeriod + OffPeriod
Next1(n) == IF n < MaxI THEN n + 1 ELSE n

isFlying == running # {}
isTumbled(h) == h > Hysteresis

----------------------------------------------------------------------------
Init ==
    /\ emergencyStop = FALSE /\ emergencyStopTimeout = Disabled /\ feeding = FALSE
    /\ testState = "testDone" /\ i = 0 /\ motorToTest = 0
    /\ startPropTest = FALSE /\ startBatTest = FALSE
    /\ running = {} /\ hysteresis = 0 /\ quiet = Disabled

\* healthShallWeRunTest: a request ends the test under way, and leaves its i.
Requested ==
    IF startPropTest THEN "configureAcc" ELSE IF startBatTest THEN "testBattery" ELSE testState

TakeRequest ==
    /\ startPropTest' = FALSE
    /\ startBatTest' = (startBatTest /\ startPropTest)

----------------------------------------------------------------------------
\* healthRunTests, in each of its states.
Test(state, n, m, motors) ==
    testState' = state /\ i' = n /\ motorToTest' = m /\ running' = motors

NoiseFloor(motors) ==
    IF i + 1 >= Samples THEN Test("measureProp", 0, motorToTest, motors)
    ELSE Test("measureNoiseFloor", i + 1, motorToTest, motors)

MeasureProp ==
    LET n == i + 1 IN
    IF n = 1 THEN Test("measureProp", n, motorToTest, running \cup {motorToTest})
    ELSE IF n = OnPeriod THEN Test("measureProp", n, motorToTest, running \ {motorToTest})
    ELSE IF n < OnPeriod + OffPeriod THEN Test("measureProp", n, motorToTest, running)
    ELSE IF motorToTest + 1 < Motors THEN Test("measureProp", 0, motorToTest + 1, running)
    ELSE Test("evaluatePropResult", 0, 0, running)

TestBattery ==
    IF i = 1 THEN Test("testBattery", 2, motorToTest, Motor)
    ELSE IF i = BatteryPeriod THEN Test("evaluateBatResult", 1, motorToTest, {})
    ELSE Test("testBattery", Next1(i), motorToTest, running)

HealthRunTests_GoesOn(state) ==   \* mutant: the motors are not stopped first
    \/ state \in {"configureAcc", "measureNoiseFloor"} /\ NoiseFloor(running)
    \/ state = "measureProp" /\ MeasureProp
    \/ state = "testBattery" /\ TestBattery
    \/ state \in {"evaluatePropResult", "evaluateBatResult"}
       /\ Test("testDone", i, motorToTest, running)

HealthRunTests(state) ==
    \/ state = "configureAcc" /\ NoiseFloor({})
    \/ state = "measureNoiseFloor" /\ NoiseFloor(running)
    \/ state = "measureProp" /\ MeasureProp
    \/ state = "testBattery" /\ TestBattery
    \/ state \in {"evaluatePropResult", "evaluateBatResult"}
       /\ Test("testDone", i, motorToTest, running)

\* A test takes the whole iteration: no supervisor, no emergency stop.
Testing ==
    /\ Requested # "testDone"
    /\ TakeRequest
    /\ HealthRunTests(Requested)
    /\ UNCHANGED <<stopVars, hysteresis, quiet>>

----------------------------------------------------------------------------
\* checkEmergencyStopTimeout
TimeoutNext == IF emergencyStopTimeout >= 0 THEN emergencyStopTimeout - 1 ELSE Disabled
TimeoutEnds_Early == emergencyStopTimeout >= 0 /\ emergencyStopTimeout = 0   \* mutant: tested first
TimeoutEnds == emergencyStopTimeout >= 0 /\ TimeoutNext = 0

\* isTumbledCheck: readings in a row, of an accelerometer upside down.
Tumbling(upsideDown) ==
    IF ~upsideDown THEN 0 ELSE IF hysteresis > Hysteresis THEN hysteresis ELSE hysteresis + 1

\* supervisorUpdate, on the motors the iteration before left.
SupervisorStops(h) == isTumbled(h) /\ isFlying

\* What the controller and the parameters ask of the motors is any of two things.
Control ==
    /\ Requested = "testDone"
    /\ \E upsideDown \in BOOLEAN, armed \in BOOLEAN, thrust \in {{}, Motor} :
         /\ hysteresis' = Tumbling(upsideDown)
         /\ emergencyStop' = (emergencyStop \/ TimeoutEnds \/ SupervisorStops(hysteresis'))
         /\ running' = IF emergencyStop' \/ ~armed THEN {} ELSE thrust
    /\ emergencyStopTimeout' = TimeoutNext
    /\ quiet' = IF quiet \in 0..(Timeout - 1) THEN quiet + 1 ELSE quiet
    /\ UNCHANGED <<feeding, testVars, startPropTest, startBatTest>>

Loop == Testing \/ Control

----------------------------------------------------------------------------
\* Packets of the localization service, and parameters.
Others == <<testVars, running, hysteresis>>

EmergencyStop ==
    /\ ~feeding
    /\ emergencyStop' = TRUE
    /\ UNCHANGED <<emergencyStopTimeout, feeding, startPropTest, startBatTest, quiet, Others>>

Feed ==
    /\ ~feeding
    /\ feeding' = TRUE
    /\ emergencyStop' = FALSE
    /\ quiet' = Disabled
    /\ UNCHANGED <<emergencyStopTimeout, startPropTest, startBatTest, Others>>

EndFeed ==
    /\ feeding
    /\ feeding' = FALSE
    /\ emergencyStopTimeout' = Timeout
    /\ quiet' = 0
    /\ UNCHANGED <<emergencyStop, startPropTest, startBatTest, Others>>

\* Parameters: their task has a lower priority than the one that serves the packets.
SetStop(value) ==
    /\ ~feeding
    /\ emergencyStop' = value
    /\ quiet' = Disabled
    /\ UNCHANGED <<emergencyStopTimeout, feeding, startPropTest, startBatTest, Others>>

StartTest ==
    /\ ~feeding
    /\ \/ startPropTest' = TRUE /\ UNCHANGED startBatTest
       \/ startBatTest' = TRUE /\ UNCHANGED startPropTest
    /\ UNCHANGED <<stopVars, quiet, Others>>

Next ==
    \/ Loop
    \/ EmergencyStop \/ Feed \/ EndFeed
    \/ \E value \in BOOLEAN : SetStop(value)
    \/ StartTest

Spec == Init /\ [][Next]_vars

----------------------------------------------------------------------------
TypeOK ==
    /\ emergencyStop \in BOOLEAN /\ emergencyStopTimeout \in Disabled..Timeout /\ feeding \in BOOLEAN
    /\ testState \in TestState /\ i \in 0..MaxI /\ motorToTest \in Motor
    /\ startPropTest \in BOOLEAN /\ startBatTest \in BOOLEAN
    /\ running \subseteq Motor
    /\ hysteresis \in 0..(Hysteresis + 1) /\ quiet \in Disabled..Timeout

(* A client that fed the timeout and then goes away has the motors stopped    *)
(* after as many iterations, even when the loop ran between the two           *)
(* assignments of its last packet; until someone lifts the stop again.        *)
TimeoutStops == quiet = Timeout => emergencyStop /\ (testState = "testDone" => ~isFlying)

(* A health test leaves no motor running: not when it ends, nor when another  *)
(* test is asked for in the middle of it and it never ends.                   *)
TestsLeaveMotorsOff ==
    testState \in {"evaluatePropResult", "evaluateBatResult"}
        \/ (testState = "testBattery" /\ i > BatteryPeriod) => ~isFlying

(* stabilizer.h: the emergency stop shuts off the energy of the motors.       *)
StopStopsMotors ==
    [][Loop /\ emergencyStop /\ emergencyStop' => ~isFlying']_vars
=============================================================================
