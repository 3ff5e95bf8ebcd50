---------------------------- MODULE WallFollower ----------------------------
(* The wall follower (wallfollowing_multiranger_onboard.c), as followTheWall *)
(* calls it once the hand lock is open. A step stands for the calls of about *)
(* a second: the drone has turned by Turn where its last command says so,    *)
(* and the rangers read anything. Ranges are in centimetres, headings in     *)
(* degrees; of a command only the advance and the turn are kept.             *)
EXTENDS Integers

CONSTANTS
    Ranges,         \* readings of the front and side rangers
    Turn,           \* the degrees of a step; a divisor of 45
    MaxOutside      \* bound on what happens outside the follower

\* Asserted by Parts.
RangesAssumption == Ranges \subseteq Nat
TurnAssumption == Turn \in 1..45 /\ 45 % Turn = 0
BoundAssumption == MaxOutside \in Nat

VARIABLES
    stateWF, prevHeading, wallAngle, aroundCornerBackTrack,
    waited,         \* waitForMeasurementSeconds have passed in this state
    goLeft,         \* parameter app.goLeft
    heading,        \* of the drone
    ahead,          \* something was near the front ranger at the last call
    cmd,            \* the command of the last call
    searched,       \* history: degrees turned on the first way of a search
    outside         \* counts what happens outside the follower

follower == <<stateWF, prevHeading, wallAngle, aroundCornerBackTrack, waited>>
vars == <<follower, goLeft, heading, ahead, cmd, searched, outside>>

StateWF == {"forward", "hover", "turnToFindWall", "turnToAlignToWall", "forwardAlongWall",
            "rotateAroundWall", "rotateInCorner", "findCorner"}

refDistanceFromWall == 50
rangerValueBuffer == 20
rangerThresholdLost == 30
inCornerAngle == 46             \* 0.8 rad
angleValueBuffer == 6           \* 0.1 rad
diagonal == 90                  \* 0.5 / cos(0.78) + 0.2

Near(range) == range < refDistanceFromWall + rangerValueBuffer
Lost(range) == range > refDistanceFromWall + rangerThresholdLost
logicIsCloseTo(value, checked) ==
    value > checked - angleValueBuffer /\ value < checked + angleValueBuffer

wraptopi(n) == IF n > 180 THEN n - 360 ELSE IF n < -180 THEN n + 360 ELSE n
Abs(n) == IF n < 0 THEN -n ELSE n

\* Yaw, from -180 (excluded) to 180.
Headings == {h \in -179..180 : h % Turn = 0}
After(h, turn) == LET n == wraptopi(h + turn * Turn) IN IF n = -180 THEN 180 ELSE n

direction == IF goLeft THEN 1 ELSE -1

Command(forward, turn) == [forward |-> forward, turn |-> turn]
Hover == Command(FALSE, 0)

----------------------------------------------------------------------------
\* The state a call goes to from s, with ranges f and r and heading h.
FromForwardAlongWall_SideFirst(f, r) ==   \* mutant: the front is not looked at
    IF Lost(r) THEN "findCorner" ELSE "forwardAlongWall"
FromForwardAlongWall(f, r) ==
    IF Near(f) THEN "rotateInCorner" ELSE IF Lost(r) THEN "findCorner" ELSE "forwardAlongWall"

\* Both tests are made; the later one wins.
FromTurnToFindWall(f, r) ==
    IF Near(r) /\ Lost(f) THEN "findCorner"
    ELSE IF r < diagonal /\ f < diagonal THEN "turnToAlignToWall"
    ELSE "turnToFindWall"

Transition(s, f, r, h) ==
    CASE s = "forward" -> IF Near(f) THEN "turnToFindWall" ELSE s
      [] s = "hover" -> s
      [] s = "turnToFindWall" -> FromTurnToFindWall(f, r)
      [] s = "turnToAlignToWall" ->
            IF logicIsCloseTo(wraptopi(h - prevHeading), wallAngle) THEN "forwardAlongWall" ELSE s
      [] s = "forwardAlongWall" -> FromForwardAlongWall(f, r)
      [] s = "rotateAroundWall" -> IF Near(f) THEN "turnToFindWall" ELSE s
      [] s = "rotateInCorner" ->
            IF logicIsCloseTo(Abs(wraptopi(h - prevHeading)), inCornerAngle)
              THEN "turnToFindWall" ELSE s
      [] s = "findCorner" -> IF r <= refDistanceFromWall THEN "rotateAroundWall" ELSE s

\* Transitions that remember the heading; so does each call that goes on around a corner.
Remembers(s, next, r) ==
    \/ s = "turnToFindWall" /\ next # s
    \/ s = "forwardAlongWall" /\ next = "rotateInCorner"
    \/ next = "rotateAroundWall" /\ ~Lost(r)

\* Those that forget the search before.
Forgets(s, next, r) ==
    \/ s = "turnToFindWall" /\ next = "findCorner"
    \/ next = "rotateAroundWall" /\ ~Lost(r)

\* direction * (1.57 - atan(front / side) + 0.1): from 6 to 96 degrees, to a step.
WallAngles == {direction * a : a \in {b \in 6..96 : b % Turn = 0}}

\* A search for a lost corner turns back once it has turned far enough.
Scanned_Never(h) == FALSE   \* mutant: aroundCornerBackTrack is never set
Scanned(h) == wraptopi(Abs(h - prevHeading)) > inCornerAngle

\* What the call commands in the state it went to.
Commanded(next, r, back) ==
    CASE next \in {"forward", "forwardAlongWall"} -> Command(TRUE, 0)
      [] next \in {"turnToFindWall", "rotateInCorner"} -> Command(FALSE, direction)
      [] next = "turnToAlignToWall" ->
            IF stateWF = next /\ waited THEN Command(FALSE, direction) ELSE Hover
      [] next = "rotateAroundWall" ->
            IF Lost(r) THEN Command(FALSE, IF back THEN -direction ELSE direction)
            ELSE Command(TRUE, -direction)
      [] next = "findCorner" -> Command(FALSE, IF Lost(r) THEN -direction ELSE 0)
      [] next = "hover" -> Hover

----------------------------------------------------------------------------
Init ==
    /\ stateWF = "forward" /\ wallAngle = 0 /\ aroundCornerBackTrack = FALSE /\ waited = FALSE
    /\ goLeft = FALSE
    /\ heading = 0 /\ prevHeading = 0
    /\ ahead = FALSE /\ cmd = Hover
    /\ searched = 0 /\ outside = 0

WallFollower(f, r, h) ==
    LET next == Transition(stateWF, f, r, h)
        searching == next = "rotateAroundWall" /\ Lost(r)
        back == IF searching THEN aroundCornerBackTrack \/ Scanned(h)
                ELSE aroundCornerBackTrack /\ ~Forgets(stateWF, next, r)
    IN  /\ stateWF' = next
        /\ waited' = (next = stateWF)
        /\ prevHeading' = IF Remembers(stateWF, next, r) THEN h ELSE prevHeading
        /\ wallAngle' \in IF stateWF = "turnToFindWall" /\ r < diagonal /\ f < diagonal
                            THEN WallAngles ELSE {wallAngle}
        /\ aroundCornerBackTrack' = back
        /\ cmd' = Commanded(next, r, back)
        /\ searched' = IF searching /\ ~back /\ searched < 360 THEN searched + Turn ELSE 0

Sense(f) == heading' = After(heading, cmd.turn) /\ ahead' = Near(f)

Call ==
    /\ \E f \in Ranges, r \in Ranges : Sense(f) /\ WallFollower(f, r, heading')
    /\ UNCHANGED <<goLeft, outside>>

\* followTheWall: below 20 cm the drone only climbs.
Climb ==
    /\ \E f \in Ranges : Sense(f)
    /\ cmd' = Hover /\ waited' = TRUE /\ searched' = 0
    /\ UNCHANGED <<stateWF, prevHeading, wallAngle, aroundCornerBackTrack, goLeft, outside>>

Outside == outside < MaxOutside /\ outside' = outside + 1

\* The parameter is written by the ground station.
SetGoLeft ==
    /\ Outside
    /\ goLeft' = ~goLeft
    /\ searched' = 0
    /\ UNCHANGED <<follower, heading, ahead, cmd>>

\* The drone goes elsewhere, on its way home or landed, and comes back to the wall:
\* by way of makeStateFoward, or with the state it left.
Away ==
    /\ Outside
    /\ heading' \in Headings
    /\ stateWF' \in {stateWF, "forward"}
    /\ cmd' = Hover /\ searched' = 0
    /\ UNCHANGED <<prevHeading, wallAngle, aroundCornerBackTrack, waited, goLeft, ahead>>

Next == Call \/ Climb \/ SetGoLeft \/ Away

Spec == Init /\ [][Next]_vars

----------------------------------------------------------------------------
TypeOK ==
    /\ stateWF \in StateWF
    /\ prevHeading \in Headings /\ heading \in Headings
    /\ wallAngle \in -96..96
    /\ aroundCornerBackTrack \in BOOLEAN /\ waited \in BOOLEAN /\ goLeft \in BOOLEAN
    /\ ahead \in BOOLEAN
    /\ cmd \in [forward : BOOLEAN, turn : -1..1]
    /\ searched \in 0..(360 + Turn) /\ outside \in 0..MaxOutside

(* The drone does not go on towards what is in front of it: a command to      *)
(* advance given with something near ahead (a search that ends, an alignment  *)
(* that ends) is not repeated while it is still there.                        *)
NotIntoAWall ==
    [][outside' = outside /\ ahead /\ cmd.forward /\ ahead' => ~cmd'.forward]_vars

(* A search for a corner that was lost turns back: whatever the heading and   *)
(* its wrap, and also where the drone came back to it from elsewhere with any *)
(* heading, its first way is at most half a turn and the angle of a corner.   *)
SearchTurnsBack == searched <= 180 + inCornerAngle
=============================================================================
