----------------------------- MODULE DroneMode ------------------------------
(***************************************************************************)
(* What the application promises about the one variable the ground station *)
(* sees of it: the mission state it logs (app_main.c).  An abstract        *)
(* specification: which mode may follow which, on whose initiative, and    *)
(* which modes do not last.  DroneApp implements it.                       *)
(***************************************************************************)
VARIABLE mode

Init == mode = "IDLE"

\* The drone tumbles, or is set upright again.
Crash == mode' = "CRASHED"
Recover == mode = "CRASHED" /\ mode' = "IDLE"

\* Commands of the ground station; exploration and return are obeyed in any
\* mode, a take-off only at rest and a landing only under way.
CommandTakeOff == mode = "IDLE" /\ mode' = "TAKE_OFF"
CommandExploration == mode' = "EXPLORATION"
CommandReturn == mode' = "RETURN_HOME"
CommandLanding ==
    mode \in {"TAKE_OFF", "EXPLORATION", "RETURN_HOME"} /\ mode' = "LANDING"

\* What the drone decides by itself.
TurnHome == mode = "EXPLORATION" /\ mode' = "RETURN_HOME"
Arrive == mode = "RETURN_HOME" /\ mode' = "LANDING"
Finish == mode \in {"TAKE_OFF", "LANDING"} /\ mode' = "IDLE"

Next == \/ Crash \/ Recover
        \/ CommandTakeOff \/ CommandExploration \/ CommandReturn \/ CommandLanding
        \/ TurnHome \/ Arrive \/ Finish

\* A take-off or a landing is over in one iteration, an exploration when its
\* time is up; a return may last for ever.
Spec == Init /\ [][Next]_mode /\ WF_mode(Finish) /\ WF_mode(TurnHome)
=============================================================================
