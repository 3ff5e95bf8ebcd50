---------------------------- MODULE Identification ----------------------------
(***************************************************************************)
(* The blinking light that identifies a drone (app_api/src/del_handler.c). *)
(* The application asks for it and a callback of the FreeRTOS timer task   *)
(* toggles the light.  The timer task has the higher priority: it may run  *)
(* between the two statements of startDroneIdentificationTimer, once in    *)
(* 100 ms, and never stops in the middle of a callback.  A request to the  *)
(* timer task is refused when its queue is full, and the code does not     *)
(* look at the answer.                                                     *)
(***************************************************************************)
EXTENDS Naturals

CONSTANT BlinkTime   \* IDENTIFICATION_BLINK_TIME

\* Even, so that the last blink is one that switches the light off; Parts asserts it.
BlinkAssumption == BlinkTime \in Nat /\ BlinkTime > 1 /\ BlinkTime % 2 = 0

VARIABLES
    onCounter,
    led,        \* the green light is on
    active,     \* the timer runs
    starting,   \* whether the application is between the reset of the counter and
                \* xTimerStart, and a callback has run meanwhile
    blinks      \* history: callbacks since the timer was last (re)started, up to BlinkTime

vars == <<onCounter, led, active, starting, blinks>>

Init == onCounter = 0 /\ led = FALSE /\ active = FALSE /\ starting = "no" /\ blinks = 0

ResetCounter ==
    /\ starting = "no"
    /\ starting' = "reset"
    /\ onCounter' = 0
    /\ UNCHANGED <<led, active, blinks>>

StartTimer ==
    /\ starting # "no"
    /\ starting' = "no"
    /\ \/ active' = TRUE /\ blinks' = 0
       \/ UNCHANGED <<active, blinks>>
    /\ UNCHANGED <<onCounter, led>>

Count_Short(n) == IF n + 2 >= BlinkTime THEN 0 ELSE n + 1   \* mutant: one callback too few

Count(n) == IF n + 1 >= BlinkTime THEN 0 ELSE n + 1

\* After the last callback xTimerStop is asked for.
identifyDrone ==
    /\ active
    /\ starting # "interrupted"
    /\ starting' = IF starting = "reset" THEN "interrupted" ELSE starting
    /\ led' = (onCounter % 2 = 0)
    /\ onCounter' = Count(onCounter)
    /\ blinks' = IF blinks < BlinkTime THEN blinks + 1 ELSE blinks
    /\ active' \in IF Count(onCounter) = 0 THEN BOOLEAN ELSE {TRUE}

Next == ResetCounter \/ StartTimer \/ identifyDrone

Spec == Init /\ [][Next]_vars

----------------------------------------------------------------------------
\* Types of all the variables.
TypeOK ==
    /\ onCounter \in 0..BlinkTime - 1
    /\ led \in BOOLEAN /\ active \in BOOLEAN
    /\ starting \in {"no", "reset", "interrupted"}
    /\ blinks \in 0..BlinkTime

\* del_handler.h:4 and :18: the light blinks for ten seconds.  Whatever requests
\* overlap, although a callback may run between the two statements of a request
\* and requests to the timer may be refused, an identification that has ended
\* has blinked for all that time but for one callback, and the light is off.
BlinksToTheEnd ==
    ~active => ~led /\ (blinks = 0 \/ blinks >= BlinkTime - 1)
=============================================================================
