---------------------------- MODULE Parts_proofs ----------------------------
(* Theorems about the parts that Parts composes: those on the drone (the     *)
(* light, the wall follower, the stabilizer loop and the LED sequences),     *)
(* then the others, and all of them together.                                *)
EXTENDS Parts, TLAPS

\* A step of the whole is one of a part, and leaves the others where they are.
LEMMA PartSteps ==
    ASSUME [Next]_vars
    PROVE  /\ [Sim!Next]_(Sim!vars) /\ [Est!Next]_(Est!vars) /\ [Blink!Next]_(Blink!vars)
           /\ [Wall!Next]_(Wall!vars) /\ [Page!Next]_(Page!vars) /\ [Stab!Next]_(Stab!vars)
           /\ [Light!Next]_(Light!vars)
<1> USE DEF vars, controllerVars, estimateVars, blinkVars, wallVars, pageVars, loopVars,
            lightVars, Sim!vars, Sim!world, Est!vars, Blink!vars, Wall!vars, Wall!follower,
            Page!vars, Stab!vars, Stab!stopVars, Stab!testVars, Light!vars
<1>1. CASE InController(Sim!Next)
  BY <1>1 DEF InController
<1>2. CASE InEstimate(Est!Next)
  BY <1>2 DEF InEstimate
<1>3. CASE InBlink(Blink!Next)
  BY <1>3 DEF InBlink
<1>4. CASE InWall(Wall!Next)
  BY <1>4 DEF InWall
<1>5. CASE InPage(Page!Next)
  BY <1>5 DEF InPage
<1>6. CASE InLoop(Stab!Next)
  BY <1>6 DEF InLoop
<1>7. CASE InLight(Light!Next)
  BY <1>7 DEF InLight
<1>8. CASE UNCHANGED vars
  BY <1>8
<1> QED BY <1>1, <1>2, <1>3, <1>4, <1>5, <1>6, <1>7, <1>8 DEF Next

LEMMA PartSpecs ==
    ASSUME Spec
    PROVE  /\ Sim!Init /\ [][Sim!Next]_(Sim!vars)
           /\ Est!Init /\ [][Est!Next]_(Est!vars)
           /\ Blink!Init /\ [][Blink!Next]_(Blink!vars)
           /\ Wall!Init /\ [][Wall!Next]_(Wall!vars)
           /\ Page!Init /\ [][Page!Next]_(Page!vars)
           /\ Stab!Init /\ [][Stab!Next]_(Stab!vars)
           /\ Light!Init /\ [][Light!Next]_(Light!vars)
<1>1. Init => /\ Sim!Init /\ Est!Init /\ Blink!Init /\ Wall!Init /\ Page!Init /\ Stab!Init
              /\ Light!Init
  BY DEF Init
<1> QED BY <1>1, PartSteps, PTL DEF Spec

----------------------------------------------------------------------------
(* Identification. *)

\* A callback between the two statements of a request leaves the counter one ahead of the
\* blinks of the new timer, and no more; the timer stops only where the counter is back at 0.
CountInv ==
    /\ onCounter <= blinks + 1
    /\ starting = "reset" => onCounter = 0
    /\ starting = "interrupted" => onCounter = 1 /\ active
    /\ ~active => onCounter = 0
    /\ Blink!BlinksToTheEnd

LEMMA BlinkTypeStep ==
    ASSUME Blink!BlinkAssumption
    PROVE  /\ Blink!Init => Blink!TypeOK
           /\ Blink!TypeOK /\ [Blink!Next]_(Blink!vars) => Blink!TypeOK'
<1>1. BlinkTime \in Nat /\ BlinkTime > 1
  BY DEF Blink!BlinkAssumption
<1>2. Blink!Init => Blink!TypeOK
  <2>1. 0 \in 0..BlinkTime - 1 /\ 0 \in 0..BlinkTime
    BY <1>1
  <2> QED BY <2>1 DEF Blink!Init, Blink!TypeOK
<1>3. Blink!TypeOK /\ [Blink!Next]_(Blink!vars) => Blink!TypeOK'
  <2> SUFFICES ASSUME Blink!TypeOK, [Blink!Next]_(Blink!vars) PROVE Blink!TypeOK'
    OBVIOUS
  <2>1. CASE Blink!ResetCounter
    BY <1>1, <2>1 DEF Blink!ResetCounter, Blink!TypeOK
  <2>2. CASE Blink!StartTimer
    <3>1. 0 \in 0..BlinkTime
      BY <1>1
    <3> QED BY <2>2, <3>1 DEF Blink!StartTimer, Blink!TypeOK
  <2>3. CASE Blink!identifyDrone
    <3>1. onCounter' \in 0..BlinkTime - 1
      BY <1>1, <2>3 DEF Blink!identifyDrone, Blink!Count, Blink!TypeOK
    <3>2. blinks' \in 0..BlinkTime
      BY <1>1, <2>3 DEF Blink!identifyDrone, Blink!TypeOK
    <3>3. led' \in BOOLEAN /\ active' \in BOOLEAN
      BY <2>3 DEF Blink!identifyDrone
    <3>4. starting' \in {"no", "reset", "interrupted"}
      BY <2>3 DEF Blink!identifyDrone, Blink!TypeOK
    <3> QED BY <3>1, <3>2, <3>3, <3>4 DEF Blink!TypeOK
  <2>4. CASE UNCHANGED Blink!vars
    BY <2>4 DEF Blink!vars, Blink!TypeOK
  <2> QED BY <2>1, <2>2, <2>3, <2>4 DEF Blink!Next
<1> QED BY <1>2, <1>3

(* The counter stays below the number of blinks, the history below its bound. *)
THEOREM BlinkTypeCorrect == Spec => []Blink!TypeOK
BY BlinkTypeStep, PartSpecs, PartAssumption, PTL DEF PartAssumption

LEMMA CountInduction ==
    ASSUME Blink!BlinkAssumption
    PROVE  /\ Blink!Init => CountInv
           /\ Blink!TypeOK /\ CountInv /\ [Blink!Next]_(Blink!vars) => CountInv'
<1>1. BlinkTime \in Nat /\ BlinkTime > 1
  BY DEF Blink!BlinkAssumption
<1>2. Blink!Init => CountInv
  BY DEF Blink!Init, CountInv, Blink!BlinksToTheEnd
<1>3. Blink!TypeOK /\ CountInv /\ [Blink!Next]_(Blink!vars) => CountInv'
  <2> SUFFICES ASSUME Blink!TypeOK, CountInv, [Blink!Next]_(Blink!vars) PROVE CountInv'
    OBVIOUS
  <2>1. CASE Blink!ResetCounter
    BY <2>1 DEF Blink!ResetCounter, CountInv, Blink!BlinksToTheEnd, Blink!TypeOK
  <2>2. CASE Blink!StartTimer
    <3>1. onCounter \in {0, 1}
      BY <2>2 DEF Blink!StartTimer, CountInv, Blink!TypeOK
    <3>2. CASE active' = TRUE /\ blinks' = 0
      BY <2>2, <3>1, <3>2 DEF Blink!StartTimer, CountInv, Blink!BlinksToTheEnd
    <3>3. CASE UNCHANGED <<active, blinks>>
      BY <2>2, <3>3 DEF Blink!StartTimer, CountInv, Blink!BlinksToTheEnd
    <3> QED BY <2>2, <3>2, <3>3 DEF Blink!StartTimer
  <2>3. CASE Blink!identifyDrone
    <3>1. /\ onCounter \in 0..BlinkTime - 1 /\ blinks \in 0..BlinkTime
          /\ onCounter <= blinks + 1
      BY DEF Blink!TypeOK, CountInv
    <3>2. /\ onCounter' = Blink!Count(onCounter)
          /\ blinks' = IF blinks < BlinkTime THEN blinks + 1 ELSE blinks
      BY <2>3 DEF Blink!identifyDrone
    <3>3. onCounter' <= blinks' + 1
      BY <1>1, <3>1, <3>2 DEF Blink!Count
    <3>4. /\ starting' # "reset"
          /\ starting' = "interrupted" => onCounter' = 1 /\ active'
      <4>1. starting \in {"no", "reset"}
        BY <2>3 DEF Blink!identifyDrone, Blink!TypeOK
      <4>2. CASE starting = "no"
        BY <2>3, <4>2 DEF Blink!identifyDrone
      <4>3. CASE starting = "reset"
        <5>1. Blink!Count(onCounter) = 1
          BY <1>1, <4>3 DEF CountInv, Blink!Count
        <5> QED BY <2>3, <4>3, <5>1 DEF Blink!identifyDrone
      <4> QED BY <4>1, <4>2, <4>3
    <3>5. ASSUME ~active' PROVE onCounter' = 0 /\ onCounter = BlinkTime - 1
      <4>1. Blink!Count(onCounter) = 0
        BY <2>3, <3>5 DEF Blink!identifyDrone
      <4> QED BY <1>1, <3>1, <3>2, <4>1 DEF Blink!Count
    <3>6. ASSUME ~active' PROVE ~led' /\ blinks' >= BlinkTime - 1
      <4>1. (BlinkTime - 1) % 2 # 0
        BY DEF Blink!BlinkAssumption
      <4>2. ~led'
        BY <2>3, <3>5, <3>6, <4>1 DEF Blink!identifyDrone
      <4> QED BY <1>1, <3>1, <3>2, <3>5, <3>6, <4>2
    <3> QED BY <3>3, <3>4, <3>5, <3>6 DEF CountInv, Blink!BlinksToTheEnd
  <2>4. CASE UNCHANGED Blink!vars
    BY <2>4 DEF Blink!vars, CountInv, Blink!BlinksToTheEnd
  <2> QED BY <2>1, <2>2, <2>3, <2>4 DEF Blink!Next
<1> QED BY <1>2, <1>3

(* An identification that ends has blinked for its time but for one callback  *)
(* and leaves the light off, whatever requests overlap with the callbacks.    *)
THEOREM BlinksForItsTime == Spec => []BlinksToTheEnd
<1>1. CountInv => Blink!BlinksToTheEnd
  BY DEF CountInv
<1>2. QED
  BY <1>1, CountInduction, BlinkTypeCorrect, PartSpecs, PartAssumption, PTL
  DEF PartAssumption, BlinksToTheEnd

----------------------------------------------------------------------------
(* The wall follower. *)

\* The drone advances only in the states that look ahead at their next call.
LooksAhead == {"forward", "forwardAlongWall", "rotateAroundWall"}
AdvancesWhereItLooks == cmd.forward => stateWF \in LooksAhead

LEMMA HoverStays == ~Wall!Hover.forward
BY DEF Wall!Hover, Wall!Command

LEMMA Advances ==
    ASSUME NEW next \in Wall!StateWF, NEW r, NEW back, Wall!Commanded(next, r, back).forward
    PROVE  next \in LooksAhead
BY DEF Wall!Commanded, Wall!Command, Wall!Hover, LooksAhead, Wall!StateWF

LEMMA WallStates ==
    ASSUME NEW s \in Wall!StateWF, NEW f, NEW r, NEW h
    PROVE  Wall!Transition(s, f, r, h) \in Wall!StateWF
<1>1. /\ Wall!FromForwardAlongWall(f, r) \in Wall!StateWF
      /\ Wall!FromTurnToFindWall(f, r) \in Wall!StateWF
  BY DEF Wall!FromForwardAlongWall, Wall!FromTurnToFindWall, Wall!StateWF
<1>2. QED
  BY <1>1 DEF Wall!Transition, Wall!StateWF

\* What a call does: the state it goes to and the command it gives there.
LEMMA CallEffect ==
    ASSUME stateWF \in Wall!StateWF, NEW f, NEW r, Wall!WallFollower(f, r, heading')
    PROVE  /\ stateWF' = Wall!Transition(stateWF, f, r, heading')
           /\ stateWF' \in Wall!StateWF
           /\ \E back : cmd' = Wall!Commanded(stateWF', r, back)
BY WallStates DEF Wall!WallFollower

StateInv == stateWF \in Wall!StateWF /\ AdvancesWhereItLooks /\ outside \in Nat

LEMMA StateInduction ==
    /\ Wall!Init => StateInv
    /\ StateInv /\ [Wall!Next]_(Wall!vars) => StateInv'
<1>1. Wall!Init => StateInv
  BY HoverStays DEF Wall!Init, StateInv, AdvancesWhereItLooks, Wall!StateWF
<1>2. StateInv /\ [Wall!Next]_(Wall!vars) => StateInv'
  <2> SUFFICES ASSUME StateInv, [Wall!Next]_(Wall!vars) PROVE StateInv'
    OBVIOUS
  <2>1. ASSUME NEW f, NEW r, Wall!WallFollower(f, r, heading'), outside' = outside PROVE StateInv'
    BY <2>1, CallEffect, Advances DEF StateInv, AdvancesWhereItLooks
  <2>2. CASE Wall!Climb \/ Wall!Away
    BY <2>2, HoverStays DEF Wall!Climb, Wall!Away, Wall!Outside, StateInv, AdvancesWhereItLooks,
                            Wall!StateWF
  <2>3. CASE Wall!SetGoLeft \/ UNCHANGED Wall!vars
    BY <2>3 DEF Wall!SetGoLeft, Wall!Outside, Wall!vars, Wall!follower, StateInv,
                AdvancesWhereItLooks
  <2> QED BY <2>1, <2>2, <2>3 DEF Wall!Next, Wall!Call
<1> QED BY <1>1, <1>2

(* The state is one of the machine's, and an advance is only commanded in     *)
(* those that look ahead at their next call.                                  *)
THEOREM AdvancesOnlyWhereItLooks == Spec => []StateInv
BY StateInduction, PartSpecs, PTL

(* An advance towards something near is not repeated while it is there, for   *)
(* any readings: an alignment or a search may end in one.                     *)
THEOREM DoesNotGoOnIntoAWall == Spec => NotIntoAWall
<1>1. ASSUME StateInv, [Wall!Next]_(Wall!vars), outside' = outside, ahead, cmd.forward, ahead'
      PROVE  ~cmd'.forward \/ UNCHANGED Wall!vars
  <2>1. stateWF \in LooksAhead
    BY <1>1 DEF StateInv, AdvancesWhereItLooks
  <2>2. ASSUME NEW f, NEW r, Wall!Sense(f), Wall!WallFollower(f, r, heading') PROVE ~cmd'.forward
    <3>1. Wall!Near(f)
      BY <1>1, <2>2 DEF Wall!Sense
    <3>2. stateWF' \in {"turnToFindWall", "rotateInCorner"}
      BY <2>1, <2>2, <3>1, CallEffect, <1>1
      DEF Wall!Transition, Wall!FromForwardAlongWall, LooksAhead, StateInv
    <3>3. stateWF' \notin LooksAhead
      BY <3>2 DEF LooksAhead
    <3> QED BY <1>1, <2>2, <3>3, CallEffect, Advances DEF StateInv
  <2>3. CASE Wall!Climb
    BY <2>3, HoverStays DEF Wall!Climb
  <2>4. CASE Wall!SetGoLeft \/ Wall!Away
    BY <1>1, <2>4 DEF Wall!SetGoLeft, Wall!Away, Wall!Outside, StateInv
  <2> QED BY <1>1, <2>2, <2>3, <2>4 DEF Wall!Next, Wall!Call
<1>2. QED
  BY <1>1, StateInduction, PartSpecs, PTL DEF Wall!NotIntoAWall, NotIntoAWall

\* The steps that are possible, and what they leave of the arithmetic of the headings.
LEMMA TurnValues ==
    ASSUME Wall!TurnAssumption
    PROVE  Turn \in {1, 3, 5, 9, 15, 45}
BY DEF Wall!TurnAssumption

LEMMA Multiples ==
    ASSUME Wall!TurnAssumption, NEW h \in Wall!Headings, NEW p \in Wall!Headings
    PROVE  /\ h - p > 180 => h - p >= 180 + Turn
           /\ h - p < -180 => h - p <= -180 - Turn
<1>1. CASE Turn = 1
  BY <1>1 DEF Wall!Headings
<1>2. CASE Turn = 3
  BY <1>2 DEF Wall!Headings
<1>3. CASE Turn = 5
  BY <1>3 DEF Wall!Headings
<1>4. CASE Turn = 9
  BY <1>4 DEF Wall!Headings
<1>5. CASE Turn = 15
  BY <1>5 DEF Wall!Headings
<1>6. CASE Turn = 45
  BY <1>6 DEF Wall!Headings
<1> QED BY <1>1, <1>2, <1>3, <1>4, <1>5, <1>6, TurnValues

LEMMA AfterType ==
    ASSUME Wall!TurnAssumption, NEW h \in Wall!Headings, NEW turn \in -1..1
    PROVE  Wall!After(h, turn) \in Wall!Headings
<1>1. /\ Turn \in 1..45 /\ h \in -179..180 /\ h % Turn = 0
  BY DEF Wall!TurnAssumption, Wall!Headings
<1>2. Wall!After(h, turn) \in -179..180
  BY <1>1 DEF Wall!After, Wall!wraptopi
<1>3. Wall!After(h, turn) % Turn = 0
  <2>1. \/ Wall!After(h, turn) = h + turn * Turn \/ Wall!After(h, turn) = h + turn * Turn - 360
        \/ Wall!After(h, turn) = h + turn * Turn + 360
    BY <1>1 DEF Wall!After, Wall!wraptopi
  <2>2. turn = -1 \/ turn = 0 \/ turn = 1
    OBVIOUS
  <2>3. CASE Turn = 1
    BY <1>1, <2>1, <2>2, <2>3
  <2>4. CASE Turn = 3
    BY <1>1, <2>1, <2>2, <2>4
  <2>5. CASE Turn = 5
    BY <1>1, <2>1, <2>2, <2>5
  <2>6. CASE Turn = 9
    BY <1>1, <2>1, <2>2, <2>6
  <2>7. CASE Turn = 15
    BY <1>1, <2>1, <2>2, <2>7
  <2>8. CASE Turn = 45
    BY <1>1, <2>1, <2>2, <2>8
  <2> QED BY <2>3, <2>4, <2>5, <2>6, <2>7, <2>8, TurnValues
<1> QED BY <1>2, <1>3 DEF Wall!Headings


\* A heading, or a difference of two, seen in the direction of the search.
Seen(n) == IF goLeft THEN n ELSE 0 - n

\* How much of a search may lie behind the drone where it has turned by b from the corner,
\* and the corner is at n: where b counts as wrapped the search does not end, so that it
\* began there, or at the corner, and went through that once.
OnFirstWay(turned, b, n) ==
    /\ b > 180 => turned <= b - 180
    /\ b \in -Wall!inCornerAngle..Wall!inCornerAngle =>
         \/ turned <= b + Wall!inCornerAngle + Turn
         \/ turned <= b + 180 /\ n < -88
    /\ b < -180 => turned <= b + 360 + Wall!inCornerAngle + Turn

SearchInv ==
    searched > 0 =>
      /\ cmd.turn = Wall!direction
      /\ ~Wall!Scanned(heading)
      /\ OnFirstWay(searched, Seen(heading - prevHeading), Seen(prevHeading))

\* Where a search that has not turned far enough may be.
Unscanned(b, n) ==
    /\ \/ b >= 180 + Turn \/ b <= -180 - Turn
       \/ b \in -Wall!inCornerAngle..Wall!inCornerAngle
    /\ b \in -359..359 /\ n \in -180..180 /\ b + n \in -180..180

LEMMA NotScanned ==
    ASSUME Wall!TurnAssumption, NEW h \in Wall!Headings, NEW p \in Wall!Headings,
           ~(Wall!wraptopi(Wall!Abs(h - p)) > Wall!inCornerAngle)
    PROVE  Unscanned(Seen(h - p), Seen(p))
<1>1. h \in -179..180 /\ p \in -179..180 /\ Turn \in 1..45
  BY DEF Wall!Headings, Wall!TurnAssumption
<1>2. h - p > 180 \/ h - p \in -Wall!inCornerAngle..Wall!inCornerAngle \/ h - p < -180
  BY <1>1 DEF Wall!wraptopi, Wall!Abs, Wall!inCornerAngle
<1> QED BY <1>1, <1>2, Multiples DEF Unscanned, Seen, Wall!inCornerAngle

\* One step further, or one step and a whole turn back: at the end of the half circle.
LEMMA Steps ==
    ASSUME Wall!TurnAssumption, NEW h \in Wall!Headings, NEW p \in Wall!Headings
    PROVE  LET m == Seen(h)
               b == Seen(h - p)
               c == Seen(Wall!After(h, Wall!direction) - p)
           IN  \/ c = b + Turn /\ m + Turn <= 180
               \/ c = b + Turn - 360 /\ m + Turn >= 180
<1>1. h \in -179..180 /\ p \in -179..180 /\ Turn \in 1..45
  BY DEF Wall!Headings, Wall!TurnAssumption
<1>2. CASE goLeft
  <2>1. Wall!direction * Turn = Turn
    BY <1>1, <1>2 DEF Wall!direction
  <2>2. Wall!After(h, Wall!direction) = IF h + Turn > 180 THEN h + Turn - 360 ELSE h + Turn
    BY <1>1, <2>1 DEF Wall!After, Wall!wraptopi
  <2> QED BY <1>1, <1>2, <2>2 DEF Seen
<1>3. CASE ~goLeft
  <2>1. Wall!direction * Turn = 0 - Turn
    BY <1>1, <1>3 DEF Wall!direction
  <2>2. Wall!After(h, Wall!direction) = IF h - Turn <= -180 THEN h - Turn + 360 ELSE h - Turn
    BY <1>1, <2>1 DEF Wall!After, Wall!wraptopi
  <2> QED BY <1>1, <1>3, <2>2 DEF Seen
<1> QED BY <1>2, <1>3

LEMMA SearchBound ==
    ASSUME Wall!TurnAssumption, Wall!TypeOK, SearchInv
    PROVE  Wall!SearchTurnsBack
<1> SUFFICES ASSUME searched > 0 PROVE searched <= 180 + Wall!inCornerAngle
  BY DEF Wall!SearchTurnsBack, Wall!TypeOK, Wall!inCornerAngle
<1>1. searched \in Int /\ Turn \in 1..45
  BY DEF Wall!TypeOK, Wall!TurnAssumption
<1>2. Unscanned(Seen(heading - prevHeading), Seen(prevHeading))
  BY NotScanned DEF SearchInv, Wall!Scanned, Wall!TypeOK
<1> QED BY <1>1, <1>2, SMTT(30) DEF SearchInv, OnFirstWay, Unscanned, Wall!inCornerAngle

\* One more step on the first way.
LEMMA SearchStep ==
    ASSUME NEW b, NEW c, NEW n, NEW turned \in Nat, Wall!TurnAssumption,
           Unscanned(b, n), Unscanned(c, n),
           \/ c = b + Turn /\ b + n + Turn <= 180
           \/ c = b + Turn - 360 /\ b + n + Turn >= 180,
           OnFirstWay(turned, b, n)
    PROVE  OnFirstWay(turned + Turn, c, n)
<1>1. Turn \in 1..45
  BY DEF Wall!TurnAssumption
<1>2. CASE c = b + Turn
  BY <1>1, <1>2 DEF Unscanned, OnFirstWay, Wall!inCornerAngle
<1>3. CASE c = b + Turn - 360 /\ b + n + Turn >= 180
  BY <1>1, <1>3 DEF Unscanned, OnFirstWay, Wall!inCornerAngle
<1> QED BY <1>2, <1>3

\* The first of them.
LEMMA SearchBegins ==
    ASSUME NEW b, NEW n, Wall!TurnAssumption, Unscanned(b, n)
    PROVE  OnFirstWay(Turn, b, n)
BY DEF Unscanned, OnFirstWay, Wall!inCornerAngle, Wall!TurnAssumption

\* What a call may command, and the angle it takes for the wall's.
LEMMA WallCommands ==
    ASSUME NEW next \in Wall!StateWF, NEW r, NEW back, goLeft \in BOOLEAN
    PROVE  Wall!Commanded(next, r, back) \in [forward : BOOLEAN, turn : -1..1]
<1>1. Wall!direction \in -1..1 /\ -Wall!direction \in -1..1
  <2>1. Wall!direction = 1 \/ Wall!direction = -1
    BY DEF Wall!direction
  <2> QED BY <2>1
<1>2. \A forward \in BOOLEAN, turn \in -1..1 :
        Wall!Command(forward, turn) \in [forward : BOOLEAN, turn : -1..1]
  BY DEF Wall!Command
<1>3. PICK forward \in BOOLEAN, turn \in {0, Wall!direction, -Wall!direction} :
        Wall!Commanded(next, r, back) = Wall!Command(forward, turn)
  BY DEF Wall!Commanded, Wall!Hover, Wall!StateWF
<1> QED BY <1>1, <1>2, <1>3

LEMMA AngleTypes ==
    ASSUME goLeft \in BOOLEAN
    PROVE  Wall!WallAngles \subseteq -96..96
<1>1. CASE goLeft
  BY <1>1 DEF Wall!WallAngles, Wall!direction
<1>2. CASE ~goLeft
  BY <1>2 DEF Wall!WallAngles, Wall!direction
<1> QED BY <1>1, <1>2

LEMMA WallTypeStep ==
    ASSUME Wall!RangesAssumption, Wall!TurnAssumption, Wall!BoundAssumption
    PROVE  /\ Wall!Init => Wall!TypeOK
           /\ Wall!TypeOK /\ [Wall!Next]_(Wall!vars) => Wall!TypeOK'
<1>0. Turn \in 1..45
  BY DEF Wall!TurnAssumption
<1>b. MaxOutside \in Nat
  BY DEF Wall!BoundAssumption
<1>1. Wall!Init => Wall!TypeOK
  <2>1. 0 \in Wall!Headings /\ 0 \in -96..96 /\ 0 \in 0..(360 + Turn) /\ 0 \in 0..MaxOutside
    BY <1>0, <1>b DEF Wall!Headings
  <2>2. Wall!Hover \in [forward : BOOLEAN, turn : -1..1]
    BY DEF Wall!Hover, Wall!Command
  <2> QED BY <2>1, <2>2 DEF Wall!Init, Wall!TypeOK, Wall!StateWF
<1>2. Wall!TypeOK /\ [Wall!Next]_(Wall!vars) => Wall!TypeOK'
  <2> SUFFICES ASSUME Wall!TypeOK, [Wall!Next]_(Wall!vars) PROVE Wall!TypeOK'
    OBVIOUS
  <2>1. ASSUME NEW f, Wall!Sense(f) PROVE heading' \in Wall!Headings /\ ahead' \in BOOLEAN
    BY <2>1, AfterType DEF Wall!Sense, Wall!Near, Wall!TypeOK
  <2>2. ASSUME NEW f \in Ranges, NEW r \in Ranges, Wall!Sense(f),
               Wall!WallFollower(f, r, heading'), UNCHANGED <<goLeft, outside>>
        PROVE  Wall!TypeOK'
    <3>1. stateWF' \in Wall!StateWF /\ waited' \in BOOLEAN
      BY <2>2, WallStates DEF Wall!WallFollower, Wall!TypeOK
    <3>2. prevHeading' \in Wall!Headings
      BY <2>1, <2>2 DEF Wall!WallFollower, Wall!TypeOK
    <3>3. wallAngle' \in -96..96
      BY <2>2, AngleTypes DEF Wall!WallFollower, Wall!TypeOK
    <3>4. aroundCornerBackTrack' \in BOOLEAN
      BY <2>2 DEF Wall!WallFollower, Wall!TypeOK, Wall!Scanned
    <3>5. cmd' \in [forward : BOOLEAN, turn : -1..1]
      BY <2>2, <3>1, WallCommands DEF Wall!WallFollower, Wall!TypeOK
    <3>6. searched' \in 0..(360 + Turn)
      BY <1>0, <2>2 DEF Wall!WallFollower, Wall!TypeOK
    <3> QED BY <2>1, <2>2, <3>1, <3>2, <3>3, <3>4, <3>5, <3>6 DEF Wall!TypeOK
  <2>3. Wall!Hover \in [forward : BOOLEAN, turn : -1..1] /\ 0 \in 0..(360 + Turn)
    BY <1>0 DEF Wall!Hover, Wall!Command
  <2>4. CASE Wall!Climb
    BY <2>1, <2>3, <2>4 DEF Wall!Climb, Wall!TypeOK
  <2>5. ASSUME Wall!Outside PROVE outside' \in 0..MaxOutside
    BY <1>b, <2>5 DEF Wall!Outside, Wall!TypeOK
  <2>6. CASE Wall!SetGoLeft
    BY <2>3, <2>5, <2>6 DEF Wall!SetGoLeft, Wall!TypeOK, Wall!follower
  <2>7. CASE Wall!Away
    BY <2>3, <2>5, <2>7 DEF Wall!Away, Wall!TypeOK, Wall!StateWF
  <2>8. CASE UNCHANGED Wall!vars
    BY <2>8 DEF Wall!vars, Wall!follower, Wall!TypeOK
  <2> QED BY <2>2, <2>4, <2>6, <2>7, <2>8 DEF Wall!Next, Wall!Call
<1> QED BY <1>1, <1>2

\* A search goes on from a search: it is entered where the wall is near.
LEMMA OnlySearchesSearch ==
    ASSUME NEW s \in Wall!StateWF, NEW f, NEW r \in Nat, NEW h,
           Wall!Transition(s, f, r, h) = "rotateAroundWall", Wall!Lost(r)
    PROVE  s = "rotateAroundWall" /\ ~Wall!Remembers(s, "rotateAroundWall", r)
<1>1. s = "rotateAroundWall"
  <2>1. /\ Wall!FromForwardAlongWall(f, r) # "rotateAroundWall"
        /\ Wall!FromTurnToFindWall(f, r) # "rotateAroundWall"
    BY DEF Wall!FromForwardAlongWall, Wall!FromTurnToFindWall
  <2>2. ~(r <= Wall!refDistanceFromWall)
    BY DEF Wall!Lost, Wall!refDistanceFromWall, Wall!rangerThresholdLost
  <2> QED BY <2>1, <2>2 DEF Wall!Transition, Wall!StateWF
<1> QED BY <1>1 DEF Wall!Remembers

LEMMA SearchInduction ==
    ASSUME Wall!RangesAssumption, Wall!TurnAssumption, Wall!TypeOK, SearchInv,
           [Wall!Next]_(Wall!vars), Wall!TypeOK'
    PROVE  SearchInv'
<1>0. Turn \in 1..45
  BY DEF Wall!TurnAssumption
<1>1. CASE searched' = 0
  BY <1>1 DEF SearchInv
<1>2. CASE UNCHANGED Wall!vars
  BY <1>2 DEF Wall!vars, Wall!follower, SearchInv, Seen, Wall!Scanned, Wall!direction
<1>3. ASSUME NEW f \in Ranges, NEW r \in Ranges, Wall!Sense(f), Wall!WallFollower(f, r, heading'),
             UNCHANGED goLeft, searched' # 0
      PROVE  SearchInv'
  <2>1. /\ Wall!Transition(stateWF, f, r, heading') = "rotateAroundWall" /\ Wall!Lost(r)
        /\ ~Wall!Scanned(heading')
        /\ searched' = searched + Turn
        /\ cmd' = Wall!Commanded("rotateAroundWall", r, FALSE)
    BY <1>3 DEF Wall!WallFollower
  <2>2. r \in Nat
    BY <1>3 DEF Wall!RangesAssumption
  <2>3. prevHeading' = prevHeading
    BY <1>3, <2>1, <2>2, OnlySearchesSearch DEF Wall!WallFollower, Wall!TypeOK
  <2>4. cmd'.turn = Wall!direction
    BY <2>1 DEF Wall!Commanded, Wall!Command
  <2>5. Wall!direction' = Wall!direction
    BY <1>3, <2>3 DEF Wall!direction, Seen
  <2>6. Unscanned(Seen(heading' - prevHeading), Seen(prevHeading))
    BY <2>1, NotScanned DEF Wall!Scanned, Wall!TypeOK
  <2>7. OnFirstWay(searched', Seen(heading' - prevHeading), Seen(prevHeading))
    <3>1. CASE searched = 0
      BY <1>0, <2>1, <2>6, <3>1, SearchBegins
    <3>2. CASE searched > 0
      <4>1. heading' = Wall!After(heading, Wall!direction)
        BY <1>3, <3>2 DEF Wall!Sense, SearchInv
      <4>2. Unscanned(Seen(heading - prevHeading), Seen(prevHeading))
        BY <3>2, NotScanned DEF SearchInv, Wall!Scanned, Wall!TypeOK
      <4>3. Seen(heading - prevHeading) + Seen(prevHeading) = Seen(heading)
        BY DEF Seen, Wall!TypeOK, Wall!Headings
      <4>4. /\ searched \in Nat
            /\ OnFirstWay(searched, Seen(heading - prevHeading), Seen(prevHeading))
        BY <3>2 DEF SearchInv, Wall!TypeOK
      <4> QED BY <2>1, <2>6, <4>1, <4>2, <4>3, <4>4, Steps, SearchStep DEF Wall!TypeOK
    <3> QED BY <3>1, <3>2 DEF Wall!TypeOK
  <2>8. ~Wall!Scanned(heading)'
    BY <2>1, <2>3 DEF Wall!Scanned
  <2>9. Seen(heading - prevHeading)' = Seen(heading' - prevHeading)
    BY <1>3, <2>3 DEF Seen
  <2>10. Seen(prevHeading)' = Seen(prevHeading)
    BY <1>3, <2>3 DEF Seen
  <2>11. OnFirstWay(searched, Seen(heading - prevHeading), Seen(prevHeading))'
    BY <2>7, <2>9, <2>10 DEF OnFirstWay
  <2> QED BY <2>4, <2>5, <2>8, <2>11 DEF SearchInv
<1> QED BY <1>1, <1>2, <1>3 DEF Wall!Next, Wall!Call, Wall!Climb, Wall!SetGoLeft, Wall!Away

(* The follower keeps to its states, its headings and its commands.           *)
THEOREM WallTypeCorrect == Spec => []Wall!TypeOK
BY WallTypeStep, PartSpecs, PartAssumption, PTL DEF PartAssumption

(* A search for a lost corner turns back after half a turn and the angle of a *)
(* corner at most, for every step of the turn, every reading and every way    *)
(* the drone came back to the wall.                                           *)
THEOREM SearchesTurnBack == Spec => []SearchTurnsBack
<1>1. Wall!Init => SearchInv
  BY DEF Wall!Init, SearchInv
<1>2. Wall!RangesAssumption /\ Wall!TurnAssumption
  BY PartAssumption DEF PartAssumption
<1>3. Wall!TypeOK /\ SearchInv /\ [Wall!Next]_(Wall!vars) /\ Wall!TypeOK' => SearchInv'
  BY <1>2, SearchInduction
<1>4. Wall!TypeOK /\ SearchInv => Wall!SearchTurnsBack
  BY <1>2, SearchBound
<1> QED BY <1>1, <1>3, <1>4, WallTypeCorrect, PartSpecs, PTL DEF SearchTurnsBack

----------------------------------------------------------------------------
(* The stabilizer loop. *)

\* Which motors a test may have left running at each of its points. A test inherits the
\* i and the motors of the one it replaces: the battery test ends with the motors off
\* whatever it inherits, or has inherited them off.
TestInv ==
    /\ testState # "configureAcc"
    /\ testState = "measureNoiseFloor" => running = {}
    /\ testState = "measureProp" =>
         /\ running \subseteq {motorToTest}
         /\ i = 0 \/ i >= OnPeriod => running = {}
    /\ testState = "testBattery" /\ i > BatteryPeriod => running = {}
    /\ testState \in {"evaluatePropResult", "evaluateBatResult"} => running = {} /\ i < OnPeriod
    /\ testState = "testDone" => i < OnPeriod

\* The timeout counts down as the history counts up, until the stop it leads to.
TimeoutInv ==
    /\ quiet \in 0..(Timeout - 1) => emergencyStopTimeout = Timeout - quiet
    /\ Stab!TimeoutStops

\* What the proofs use of the constants.
LEMMA StabConstants ==
    ASSUME Stab!PeriodAssumption
    PROVE  /\ Motors \in Nat \ {0} /\ Samples \in Nat \ {0} /\ OnPeriod \in Nat \ {0}
           /\ OffPeriod \in Nat \ {0} /\ BatteryPeriod \in Nat \ {0}
           /\ Hysteresis \in Nat \ {0} /\ Timeout \in Nat \ {0}
           /\ OnPeriod > 1 /\ OnPeriod = BatteryPeriod
           /\ Stab!MaxI \in Nat /\ Samples <= Stab!MaxI /\ OnPeriod < Stab!MaxI
           /\ Stab!MaxI = OnPeriod + OffPeriod
BY DEF Stab!PeriodAssumption, Stab!MaxI

----------------------------------------------------------------------------
\* The states of the tests, and their counter, after an iteration of a test.
LEMMA HealthTestTypes ==
    ASSUME Stab!PeriodAssumption, Stab!TypeOK, Stab!HealthRunTests(Stab!Requested)
    PROVE  /\ testState' \in Stab!TestState /\ i' \in 0..Stab!MaxI
           /\ motorToTest' \in Stab!Motor /\ running' \subseteq Stab!Motor
<1>1. i \in 0..Stab!MaxI /\ motorToTest \in Stab!Motor /\ running \subseteq Stab!Motor
  BY DEF Stab!TypeOK
<1>2. /\ Stab!MaxI \in Nat /\ Samples \in Nat /\ Samples <= Stab!MaxI /\ OnPeriod \in Nat
      /\ OffPeriod \in Nat /\ OnPeriod > 1 /\ Stab!MaxI = OnPeriod + OffPeriod
  BY StabConstants
<1>3. 0 \in Stab!Motor /\ (motorToTest + 1 < Motors => motorToTest + 1 \in Stab!Motor)
  BY <1>1, StabConstants DEF Stab!Motor
<1>4. ASSUME NEW motors \in SUBSET Stab!Motor, Stab!NoiseFloor(motors)
      PROVE  /\ testState' \in Stab!TestState /\ i' \in 0..Stab!MaxI
             /\ motorToTest' \in Stab!Motor /\ running' \subseteq Stab!Motor
  <2>1. CASE i + 1 >= Samples
    BY <1>1, <1>2, <1>4, <2>1 DEF Stab!NoiseFloor, Stab!Test, Stab!TestState
  <2>2. CASE ~(i + 1 >= Samples)
    <3>1. i + 1 \in 0..Stab!MaxI
      BY <1>1, <1>2, <2>2
    <3> QED BY <1>1, <1>4, <2>2, <3>1 DEF Stab!NoiseFloor, Stab!Test, Stab!TestState
  <2> QED BY <2>1, <2>2
<1>5. CASE Stab!Requested = "configureAcc" /\ Stab!NoiseFloor({})
  BY <1>4, <1>5
<1>6. CASE Stab!Requested = "measureNoiseFloor" /\ Stab!NoiseFloor(running)
  BY <1>1, <1>4, <1>6
<1>7. CASE Stab!Requested = "measureProp" /\ Stab!MeasureProp
  <2>1. i + 1 < OnPeriod + OffPeriod \/ i + 1 = OnPeriod \/ i + 1 = 1 => i + 1 \in 0..Stab!MaxI
    BY <1>1, <1>2
  <2>2. CASE i + 1 = 1
    BY <1>1, <1>7, <2>1, <2>2 DEF Stab!MeasureProp, Stab!Test, Stab!TestState
  <2>3. CASE i + 1 # 1 /\ i + 1 = OnPeriod
    BY <1>1, <1>7, <2>1, <2>3 DEF Stab!MeasureProp, Stab!Test, Stab!TestState
  <2>4. CASE i + 1 # 1 /\ i + 1 # OnPeriod /\ i + 1 < OnPeriod + OffPeriod
    BY <1>1, <1>7, <2>1, <2>4 DEF Stab!MeasureProp, Stab!Test, Stab!TestState
  <2>5. CASE i + 1 # 1 /\ i + 1 # OnPeriod /\ ~(i + 1 < OnPeriod + OffPeriod)
    BY <1>1, <1>2, <1>3, <1>7, <2>5 DEF Stab!MeasureProp, Stab!Test, Stab!TestState
  <2> QED BY <2>2, <2>3, <2>4, <2>5
<1>8. CASE Stab!Requested = "testBattery" /\ Stab!TestBattery
  <2>1. Stab!Next1(i) \in 0..Stab!MaxI /\ 1 \in 0..Stab!MaxI /\ 2 \in 0..Stab!MaxI
    BY <1>1, <1>2, StabConstants DEF Stab!Next1
  <2> QED BY <1>1, <1>8, <2>1 DEF Stab!TestBattery, Stab!Test, Stab!TestState
<1>9. CASE Stab!Test("testDone", i, motorToTest, running)
  BY <1>1, <1>9 DEF Stab!Test, Stab!TestState
<1>10. QED
  BY <1>5, <1>6, <1>7, <1>8, <1>9 DEF Stab!HealthRunTests

\* Every action keeps the types.
LEMMA StabTypeStep ==
    ASSUME Stab!PeriodAssumption
    PROVE  /\ Stab!Init => Stab!TypeOK
           /\ Stab!TypeOK /\ [Stab!Next]_(Stab!vars) => Stab!TypeOK'
<1>1. Stab!Init => Stab!TypeOK
  <2>1. /\ 0 \in Stab!Motor /\ 0 \in 0..Stab!MaxI /\ 0 \in 0..(Hysteresis + 1)
        /\ Stab!Disabled \in Stab!Disabled..Timeout
    BY StabConstants DEF Stab!Motor, Stab!Disabled
  <2> QED BY <2>1 DEF Stab!Init, Stab!TypeOK, Stab!TestState
<1>2. Stab!TypeOK /\ [Stab!Next]_(Stab!vars) => Stab!TypeOK'
  <2> SUFFICES ASSUME Stab!TypeOK, [Stab!Next]_(Stab!vars) PROVE Stab!TypeOK'
    OBVIOUS
  <2>1. CASE Stab!Testing
    BY <2>1, HealthTestTypes DEF Stab!Testing, Stab!TakeRequest, Stab!TypeOK, Stab!stopVars
  <2>2. CASE Stab!Control
    <3>1. hysteresis' \in 0..(Hysteresis + 1)
      BY <2>2, StabConstants DEF Stab!Control, Stab!Tumbling, Stab!TypeOK
    <3>2. emergencyStop' \in BOOLEAN
      BY <2>2 DEF Stab!Control, Stab!TypeOK, Stab!TimeoutEnds, Stab!SupervisorStops,
                  Stab!isTumbled, Stab!isFlying
    <3>3. running' \subseteq Stab!Motor
      BY <2>2 DEF Stab!Control
    <3>4. emergencyStopTimeout' \in Stab!Disabled..Timeout /\ quiet' \in Stab!Disabled..Timeout
      BY <2>2, StabConstants DEF Stab!Control, Stab!TypeOK, Stab!TimeoutNext, Stab!Disabled
    <3> QED BY <2>2, <3>1, <3>2, <3>3, <3>4 DEF Stab!Control, Stab!TypeOK, Stab!testVars
  <2>3. CASE Stab!EmergencyStop \/ Stab!StartTest
    BY <2>3 DEF Stab!EmergencyStop, Stab!StartTest, Stab!TypeOK, Stab!Others, Stab!testVars,
                Stab!stopVars
  <2>4. CASE Stab!Feed \/ Stab!EndFeed
    <3>1. /\ 0 \in Stab!Disabled..Timeout /\ Stab!Disabled \in Stab!Disabled..Timeout
          /\ Timeout \in Stab!Disabled..Timeout
      BY StabConstants DEF Stab!Disabled
    <3> QED BY <2>4, <3>1 DEF Stab!Feed, Stab!EndFeed, Stab!TypeOK, Stab!Others, Stab!testVars
  <2>5. CASE \E value \in BOOLEAN : Stab!SetStop(value)
    <3>1. Stab!Disabled \in Stab!Disabled..Timeout
      BY StabConstants DEF Stab!Disabled
    <3> QED BY <2>5, <3>1 DEF Stab!SetStop, Stab!TypeOK, Stab!Others, Stab!testVars
  <2>6. CASE UNCHANGED Stab!vars
    BY <2>6 DEF Stab!vars, Stab!TypeOK, Stab!stopVars, Stab!testVars
  <2> QED BY <2>1, <2>2, <2>3, <2>4, <2>5, <2>6 DEF Stab!Next, Stab!Loop
<1> QED BY <1>1, <1>2

(* Types, the counter of the tests among them: it stays within the periods    *)
(* though a test starts from the counter of the one it replaces.              *)
THEOREM StabTypeCorrect == Spec => []Stab!TypeOK
BY StabTypeStep, PartSpecs, PartAssumption, PTL DEF PartAssumption

----------------------------------------------------------------------------
\* The tests keep TestInv, whichever test they replace and wherever it was.
LEMMA TestPreserved ==
    ASSUME Stab!PeriodAssumption, Stab!TypeOK, TestInv, Stab!Testing
    PROVE  TestInv'
<1>1. /\ testState \in Stab!TestState /\ i \in Nat /\ i <= Stab!MaxI
      /\ running \subseteq Stab!Motor /\ motorToTest \in Stab!Motor
  BY StabConstants DEF Stab!TypeOK
<1>2. /\ Stab!MaxI \in Nat /\ Samples \in Nat /\ OnPeriod \in Nat /\ OffPeriod \in Nat
      /\ OnPeriod > 1 /\ OnPeriod < Stab!MaxI
      /\ Stab!MaxI = OnPeriod + OffPeriod /\ BatteryPeriod = OnPeriod
  BY StabConstants
<1>3. Stab!HealthRunTests(Stab!Requested)
  BY DEF Stab!Testing
<1>4. CASE Stab!Requested = "configureAcc" /\ Stab!NoiseFloor({})
  BY <1>2, <1>4 DEF Stab!NoiseFloor, Stab!Test, TestInv
<1>5. CASE Stab!Requested = "measureNoiseFloor" /\ Stab!NoiseFloor(running)
  <2>1. running = {}
    BY <1>5 DEF Stab!Requested, TestInv
  <2> QED BY <1>2, <1>5, <2>1 DEF Stab!NoiseFloor, Stab!Test, TestInv
<1>6. CASE Stab!Requested = "measureProp" /\ Stab!MeasureProp
  <2>1. testState = "measureProp"
    BY <1>6 DEF Stab!Requested
  <2>2. running \subseteq {motorToTest} /\ (i = 0 \/ i >= OnPeriod => running = {})
    BY <2>1 DEF TestInv
  <2>3. CASE i + 1 = 1
    BY <1>1, <1>2, <1>6, <2>2, <2>3 DEF Stab!MeasureProp, Stab!Test, TestInv
  <2>4. CASE i + 1 # 1 /\ i + 1 = OnPeriod
    BY <1>1, <1>2, <1>6, <2>2, <2>4 DEF Stab!MeasureProp, Stab!Test, TestInv
  <2>5. CASE i + 1 # 1 /\ i + 1 # OnPeriod /\ i + 1 < OnPeriod + OffPeriod
    BY <1>1, <1>2, <1>6, <2>2, <2>5 DEF Stab!MeasureProp, Stab!Test, TestInv
  <2>6. CASE i + 1 # 1 /\ i + 1 # OnPeriod /\ ~(i + 1 < OnPeriod + OffPeriod)
    <3>1. running = {}
      BY <1>1, <1>2, <2>2, <2>6
    <3> QED BY <1>1, <1>2, <1>6, <2>6, <3>1 DEF Stab!MeasureProp, Stab!Test, TestInv
  <2> QED BY <2>3, <2>4, <2>5, <2>6
<1>7. CASE Stab!Requested = "testBattery" /\ Stab!TestBattery
  <2>1. i > BatteryPeriod => running = {}
    BY <1>1, <1>2 DEF TestInv, Stab!TestState
  <2>2. CASE i = 1
    BY <1>1, <1>2, <1>7, <2>2 DEF Stab!TestBattery, Stab!Test, TestInv
  <2>3. CASE i = BatteryPeriod
    BY <1>1, <1>2, <1>7, <2>3 DEF Stab!TestBattery, Stab!Test, TestInv
  <2>4. CASE i # 1 /\ i # BatteryPeriod
    <3>1. testState' = "testBattery" /\ i' = Stab!Next1(i) /\ running' = running
      BY <1>7, <2>4 DEF Stab!TestBattery, Stab!Test
    <3>2. i' > BatteryPeriod => i > BatteryPeriod
      BY <1>1, <1>2, <2>4, <3>1 DEF Stab!Next1
    <3> QED BY <2>1, <3>1, <3>2 DEF TestInv
  <2> QED BY <2>2, <2>3, <2>4
<1>8. CASE Stab!Requested \in {"evaluatePropResult", "evaluateBatResult"}
           /\ Stab!Test("testDone", i, motorToTest, running)
  <2>1. testState = Stab!Requested
    BY <1>8 DEF Stab!Requested
  <2>2. i < OnPeriod
    BY <1>8, <2>1 DEF TestInv
  <2> QED BY <1>8, <2>2 DEF Stab!Test, TestInv
<1>9. QED
  BY <1>3, <1>4, <1>5, <1>6, <1>7, <1>8 DEF Stab!HealthRunTests

\* So do the other actions, which leave the test where it is.
LEMMA TestInduction ==
    ASSUME Stab!PeriodAssumption
    PROVE  /\ Stab!Init => TestInv
           /\ Stab!TypeOK /\ TestInv /\ [Stab!Next]_(Stab!vars) => TestInv'
<1>1. Stab!Init => TestInv
  BY StabConstants DEF Stab!Init, TestInv
<1>2. Stab!TypeOK /\ TestInv /\ [Stab!Next]_(Stab!vars) => TestInv'
  <2> SUFFICES ASSUME Stab!TypeOK, TestInv, [Stab!Next]_(Stab!vars) PROVE TestInv'
    OBVIOUS
  <2>1. CASE Stab!Testing
    BY <2>1, TestPreserved
  <2>2. CASE Stab!Control
    <3>1. testState = "testDone" /\ UNCHANGED <<testState, i>>
      BY <2>2 DEF Stab!Control, Stab!Requested, Stab!testVars
    <3> QED BY <3>1 DEF TestInv
  <2>3. CASE UNCHANGED <<Stab!testVars, running>>
    BY <2>3 DEF TestInv, Stab!testVars
  <2> QED BY <2>1, <2>2, <2>3 DEF Stab!Next, Stab!Loop, Stab!EmergencyStop, Stab!Feed,
                                  Stab!EndFeed, Stab!SetStop, Stab!StartTest, Stab!Others,
                                  Stab!vars
<1> QED BY <1>1, <1>2

(* A health test leaves no motor running, for any number of motors and of     *)
(* samples: the one restriction is that a propeller turns for as long as the  *)
(* battery test lasts, as it does with brushed motors.                        *)
THEOREM TestsEndWithMotorsOff == Spec => []TestsLeaveMotorsOff
<1>1. TestInv => Stab!TestsLeaveMotorsOff
  BY DEF TestInv, Stab!TestsLeaveMotorsOff, Stab!isFlying
<1>2. QED
  BY <1>1, TestInduction, StabTypeCorrect, PartSpecs, PartAssumption, PTL
  DEF PartAssumption, TestsLeaveMotorsOff

----------------------------------------------------------------------------
\* The countdown, and the stop that it ends with.
LEMMA TimeoutInduction ==
    ASSUME Stab!PeriodAssumption
    PROVE  /\ Stab!Init => TimeoutInv
           /\ Stab!TypeOK /\ TestInv /\ TimeoutInv /\ [Stab!Next]_(Stab!vars) => TimeoutInv'
<1>1. Timeout \in Nat \ {0}
  BY StabConstants
<1>2. Stab!Init => TimeoutInv
  BY <1>1 DEF Stab!Init, TimeoutInv, Stab!TimeoutStops, Stab!Disabled
<1>3. Stab!TypeOK /\ TestInv /\ TimeoutInv /\ [Stab!Next]_(Stab!vars) => TimeoutInv'
  <2> SUFFICES ASSUME Stab!TypeOK, TestInv, TimeoutInv, [Stab!Next]_(Stab!vars) PROVE TimeoutInv'
    OBVIOUS
  <2>1. CASE Stab!Testing
    <3>1. UNCHANGED <<emergencyStop, emergencyStopTimeout, quiet>>
      BY <2>1 DEF Stab!Testing, Stab!stopVars
    <3>2. testState' = "testDone" => ~Stab!isFlying'
      <4>1. TestInv' /\ Stab!HealthRunTests(Stab!Requested)
        BY <2>1, TestPreserved DEF Stab!Testing
      <4>2. ASSUME testState' = "testDone" PROVE running' = {}
        <5>1. Stab!Requested \in {"evaluatePropResult", "evaluateBatResult"} /\ running' = running
          BY <4>1, <4>2 DEF Stab!HealthRunTests, Stab!NoiseFloor, Stab!MeasureProp,
                            Stab!TestBattery, Stab!Test
        <5>2. testState = Stab!Requested
          BY <5>1 DEF Stab!Requested
        <5> QED BY <5>1, <5>2 DEF TestInv
      <4> QED BY <4>2 DEF Stab!isFlying
    <3> QED BY <3>1, <3>2 DEF TimeoutInv, Stab!TimeoutStops
  <2>2. CASE Stab!Control
    <3> DEFINE stops == emergencyStop' /\ running' = {}
    <3>1. /\ quiet' = IF quiet \in 0..(Timeout - 1) THEN quiet + 1 ELSE quiet
          /\ emergencyStopTimeout' = Stab!TimeoutNext
      BY <2>2 DEF Stab!Control
    <3>2. emergencyStop \/ Stab!TimeoutEnds => stops
      BY <2>2 DEF Stab!Control
    <3>3. CASE quiet = Timeout
      <4>1. quiet' = Timeout
        BY <1>1, <3>1, <3>3
      <4>2. stops
        BY <3>2, <3>3 DEF TimeoutInv, Stab!TimeoutStops
      <4> QED BY <1>1, <4>1, <4>2 DEF TimeoutInv, Stab!TimeoutStops, Stab!isFlying
    <3>4. CASE quiet \in 0..(Timeout - 1)
      <4>1. quiet' = quiet + 1 /\ emergencyStopTimeout = Timeout - quiet
        BY <3>1, <3>4 DEF TimeoutInv
      <4>2. emergencyStopTimeout' = Timeout - quiet'
        <5>1. quiet \in Int /\ Timeout \in Int /\ Timeout - quiet >= 0
          BY <1>1, <3>4
        <5>2. emergencyStopTimeout' = (Timeout - quiet) - 1
          BY <3>1, <4>1, <5>1 DEF Stab!TimeoutNext
        <5> QED BY <4>1, <5>1, <5>2
      <4>3. quiet' = Timeout => Stab!TimeoutEnds
        BY <1>1, <3>4, <4>1 DEF Stab!TimeoutEnds, Stab!TimeoutNext
      <4> QED BY <3>2, <4>2, <4>3 DEF TimeoutInv, Stab!TimeoutStops, Stab!isFlying
    <3>5. CASE quiet = Stab!Disabled
      <4>1. quiet' = Stab!Disabled
        BY <1>1, <3>1, <3>5 DEF Stab!Disabled
      <4> QED BY <1>1, <4>1 DEF TimeoutInv, Stab!TimeoutStops, Stab!Disabled
    <3> QED BY <1>1, <3>3, <3>4, <3>5 DEF Stab!TypeOK, Stab!Disabled
  <2>3. CASE Stab!EmergencyStop
    BY <2>3 DEF Stab!EmergencyStop, TimeoutInv, Stab!TimeoutStops, Stab!Others, Stab!testVars,
                Stab!isFlying
  <2>4. CASE Stab!EndFeed
    BY <1>1, <2>4 DEF Stab!EndFeed, TimeoutInv, Stab!TimeoutStops
  <2>5. CASE Stab!Feed \/ \E value \in BOOLEAN : Stab!SetStop(value)
    <3>1. quiet' = Stab!Disabled
      BY <2>5 DEF Stab!Feed, Stab!SetStop
    <3> QED BY <1>1, <3>1 DEF TimeoutInv, Stab!TimeoutStops, Stab!Disabled
  <2>6. CASE Stab!StartTest \/ UNCHANGED Stab!vars
    BY <2>6 DEF Stab!StartTest, Stab!vars, Stab!stopVars, Stab!testVars, Stab!Others, TimeoutInv,
                Stab!TimeoutStops, Stab!isFlying
  <2> QED BY <2>1, <2>2, <2>3, <2>4, <2>5, <2>6 DEF Stab!Next, Stab!Loop
<1> QED BY <1>2, <1>3

(* The stop of a client that went away comes after its time, whatever came    *)
(* between: other packets, parameters, health tests, an iteration in the      *)
(* middle of its last packet.                                                 *)
THEOREM TimeoutHonoured == Spec => []TimeoutStops
<1>1. TimeoutInv => Stab!TimeoutStops
  BY DEF TimeoutInv
<1>2. QED
  BY <1>1, TimeoutInduction, TestInduction, StabTypeCorrect, PartSpecs, PartAssumption, PTL
  DEF PartAssumption, TimeoutStops

----------------------------------------------------------------------------
(* The sequences of one LED. *)

\* A sequence after a step counts as running.
LEMMA FollowingRuns ==
    ASSUME Light!SequenceAssumption, Light!TypeOK, NEW c \in Light!Context
    PROVE  /\ Light!Following(c) \in Nat /\ 0 < Light!Following(c)
           /\ Light!Following(c) <= Light!PastEnd(c)
           /\ 1 <= Light!PastEnd(c) /\ 0 <= Light!PastEnd(c)
<1>1. Len(Sequence[c]) \in Nat
  BY DEF Light!SequenceAssumption, Light!Context
<1> QED BY <1>1 DEF Light!TypeOK, Light!StateOK, Light!Following, Light!PastEnd

\* A step that is read is one of a table, or any of the same kind.
LEMMA StepTypes ==
    ASSUME Light!SequenceAssumption, NEW c \in Light!Context, NEW k \in Nat \ {0},
           NEW s \in Light!StepOf(c, k)
    PROVE  s.value \in BOOLEAN
<1>1. CASE k < Light!PastEnd(c)
  <2>1. k \in 1..Len(Sequence[c]) /\ s = Sequence[c][k]
    BY <1>1 DEF Light!SequenceAssumption, Light!Context, Light!PastEnd, Light!StepOf
  <2> QED BY <2>1 DEF Light!SequenceAssumption, Light!Context
<1>2. CASE ~(k < Light!PastEnd(c))
  BY <1>2 DEF Light!StepOf
<1> QED BY <1>1, <1>2

\* What a step does to the tasks, and to the sequence it moves.
LEMMA Moves ==
    ASSUME Light!TaskOK, NEW p \in Light!Task, NEW c \in Light!Context \cup {Light!NoContext},
           NEW spot \in {"idle", "run", "stop", "started", "enter", "test", "end"},
           spot \notin {"idle", "enter"} => c \in Light!Context,
           Light!Goto(p, spot, c) \/ Light!Return(p)
    PROVE  Light!TaskOK'
<1>1. Light!Stopped \in Nat
  BY DEF Light!Stopped
<1>2. CASE Light!Goto(p, spot, c)
  BY <1>1, <1>2 DEF Light!TaskOK, Light!Goto
<1>3. CASE Light!Return(p)
  BY <1>1, <1>3 DEF Light!TaskOK, Light!Return, Light!Idle
<1> QED BY <1>2, <1>3

LEMMA LightStates ==
    ASSUME Light!StateOK, NEW c \in Light!Context, NEW n \in Nat, n <= Light!PastEnd(c),
           state' = [state EXCEPT ![c] = n]
    PROVE  Light!StateOK'
BY DEF Light!StateOK

LEMMA LightTypeStep ==
    ASSUME Light!SequenceAssumption
    PROVE  /\ Light!Init => Light!TypeOK
           /\ Light!TypeOK /\ [Light!Next]_(Light!vars) => Light!TypeOK'
<1>1. Light!Init => Light!TypeOK
  <2> SUFFICES ASSUME Light!Init PROVE Light!TypeOK
    OBVIOUS
  <2>1. \A c \in Light!Context : Light!Stopped \in Nat /\ Light!Stopped <= Light!PastEnd(c)
    BY DEF Light!SequenceAssumption, Light!Context, Light!PastEnd, Light!Stopped
  <2>2. Light!StateOK
    BY <2>1 DEF Light!Init, Light!StateOK
  <2>3. Light!TaskOK
    BY DEF Light!Init, Light!TaskOK, Light!Idle, Light!Stopped
  <2> QED BY <2>2, <2>3 DEF Light!Init, Light!TypeOK
<1>2. Light!TypeOK /\ [Light!Next]_(Light!vars) => Light!TypeOK'
  <2> SUFFICES ASSUME Light!TypeOK, [Light!Next]_(Light!vars) PROVE Light!TypeOK'
    OBVIOUS
  <2>1. ASSUME NEW p \in Caller, NEW c \in Light!Context, NEW n \in {Light!Stopped, 1},
               NEW spot \in {"run", "stop"}, Light!Mark(p, c, n, spot)
        PROVE  Light!TypeOK'
    <3>1. n \in Nat /\ n <= Light!PastEnd(c)
      BY FollowingRuns DEF Light!Stopped
    <3>2. Light!StateOK'
      BY <2>1, <3>1, LightStates DEF Light!Mark, Light!TypeOK
    <3>3. p \in Light!Task /\ Light!Goto(p, spot, c)
      BY <2>1 DEF Light!Mark, Light!Task
    <3>4. Light!TaskOK'
      BY <3>3, Moves DEF Light!TypeOK
    <3> QED BY <2>1, <3>2, <3>3, <3>4 DEF Light!Mark, Light!Deactivate, Light!TypeOK
  <2>2. ASSUME NEW p \in Light!Task, NEW spot \in {"run", "stop", "end"},
               NEW next \in {"started", "enter", "test"}, Light!UpdateActive(p, spot, next)
        PROVE  Light!TypeOK'
    <3>1. task[p].context \in Light!Context /\ Light!Goto(p, next, task[p].context)
      BY <2>2 DEF Light!UpdateActive, Light!TypeOK, Light!StateOK, Light!TaskOK
    <3> QED BY <2>2, <3>1, Moves DEF Light!UpdateActive, Light!TypeOK, Light!StateOK, Light!TaskOK
  <2>3. ASSUME NEW p \in Caller, Light!RunFirst(p) PROVE Light!TypeOK'
    <3>1. p \in Light!Task /\ (Light!Goto(p, "enter", Light!NoContext) \/ Light!Return(p))
      BY <2>3 DEF Light!RunFirst, Light!Task
    <3> QED BY <2>3, <3>1, Moves DEF Light!RunFirst, Light!TypeOK, Light!StateOK, Light!TaskOK
  <2>4. CASE Light!Fire
    <3>1. Timer \in Light!Task /\ Light!Goto(Timer, "enter", Light!NoContext)
      BY <2>4 DEF Light!Fire, Light!Task
    <3> QED BY <2>4, <3>1, Moves DEF Light!Fire, Light!TypeOK, Light!StateOK, Light!TaskOK
  <2>5. ASSUME NEW p \in Light!Task, Light!Enter(p) PROVE Light!TypeOK'
    <3>1. Light!Return(p) \/ (activeSeq \in Light!Context /\ Light!Goto(p, "test", activeSeq))
      BY <2>5 DEF Light!Enter, Light!TypeOK, Light!StateOK, Light!TaskOK
    <3>2. CASE Light!Return(p)
      BY <2>5, <3>2, Moves DEF Light!Enter, Light!TypeOK, Light!StateOK, Light!TaskOK
    <3>3. CASE activeSeq \in Light!Context /\ Light!Goto(p, "test", activeSeq)
      BY <2>5, <3>3, Moves DEF Light!Enter, Light!TypeOK, Light!StateOK, Light!TaskOK
    <3> QED BY <3>1, <3>2, <3>3
  <2>6. ASSUME NEW p \in Light!Task, Light!Test(p) PROVE Light!TypeOK'
    <3> DEFINE c == task[p].context
    <3>1. c \in Light!Context /\ state[c] \in Nat
      BY <2>6 DEF Light!Test, Light!TypeOK, Light!StateOK, Light!TaskOK
    <3>2. task' = [task EXCEPT ![p] = IF state[c] = Light!Stopped THEN Light!Idle
                                      ELSE [at |-> "step", context |-> c, step |-> state[c]]]
      BY <2>6 DEF Light!Test
    <3>3. CASE state[c] = Light!Stopped
      <4>1. Light!Return(p)
        BY <3>2, <3>3 DEF Light!Return
      <4> QED BY <2>6, <4>1, Moves DEF Light!Test, Light!TypeOK, Light!StateOK, Light!TaskOK
    <3>4. CASE state[c] # Light!Stopped
      <4>1. task' = [task EXCEPT ![p] = [at |-> "step", context |-> c, step |-> state[c]]]
        BY <3>2, <3>4
      <4>2. UNCHANGED <<state, activeSeq, light, holder, armed>>
        BY <2>6 DEF Light!Test
      <4> HIDE DEF c
      <4> QED BY <3>1, <3>4, <4>1, <4>2 DEF Light!TypeOK, Light!StateOK, Light!TaskOK
    <3> QED BY <3>3, <3>4
  <2>7. ASSUME NEW p \in Light!Task, Light!Step(p) PROVE Light!TypeOK'
    <3> DEFINE c == task[p].context
    <3>1. c \in Light!Context /\ task[p].step \in Nat \ {0}
      BY <2>7 DEF Light!Step, Light!TypeOK, Light!StateOK, Light!TaskOK, Light!Stopped
    <3>2. PICK s \in Light!StepOf(c, task[p].step) :
            \/ s.action \in {"wait", "now"} /\ Light!Set(p, c, s.value, s.action)
            \/ s.action = "LOOP" /\ Light!Loop(p, c)
            \/ s.action = "STOP" /\ Light!End(p, c)
      BY <2>7 DEF Light!Step
    <3> HIDE DEF c
    <3>3. CASE Light!Set(p, c, s.value, s.action)
      <4>1. Light!StateOK'
        BY <3>1, <3>3, FollowingRuns, LightStates DEF Light!Set, Light!TypeOK
      <4>2. s.value \in BOOLEAN
        BY <3>1, StepTypes
      <4>3. Light!Goto(p, "test", c) \/ Light!Return(p)
        BY <3>3 DEF Light!Set
      <4> QED BY <3>1, <3>3, <4>1, <4>2, <4>3, Moves DEF Light!Set, Light!TypeOK, Light!StateOK,
                                                         Light!TaskOK
    <3>4. CASE Light!Loop(p, c)
      <4>1. Light!StateOK'
        BY <3>1, <3>4, FollowingRuns, LightStates DEF Light!Loop, Light!TypeOK
      <4> QED BY <3>1, <3>4, <4>1, Moves DEF Light!Loop, Light!TypeOK, Light!StateOK, Light!TaskOK
    <3>5. CASE Light!End(p, c)
      <4>1. Light!StateOK'
        BY <3>1, <3>5, FollowingRuns, LightStates DEF Light!End, Light!Stopped, Light!TypeOK
      <4> QED BY <3>1, <3>5, <4>1, Moves DEF Light!End, Light!Deactivate, Light!TypeOK,
                                             Light!StateOK, Light!TaskOK
    <3> QED BY <3>2, <3>3, <3>4, <3>5
  <2>8. CASE UNCHANGED Light!vars
    BY <2>8 DEF Light!vars, Light!TypeOK, Light!StateOK, Light!TaskOK
  <2>9. Caller \subseteq Light!Task
    BY DEF Light!Task
  <2> QED BY <2>1, <2>2, <2>3, <2>4, <2>5, <2>6, <2>7, <2>8, <2>9 DEF Light!Next, Light!Run,
                                                                      Light!Stop
<1> QED BY <1>1, <1>2

(* Types: however often two tasks step a sequence at once, its position stays *)
(* within one of the end of its table.                                        *)
THEOREM LightTypeCorrect == Spec => []Light!TypeOK
BY LightTypeStep, PartSpecs, PartAssumption, PTL DEF PartAssumption

(* The LED is on only while one of its sequences counts as running: what puts *)
(* it on also advances a sequence, and what stops a sequence puts it out.     *)
THEOREM OnlyRunningIsOn == Spec => []OnIsRunning
<1>0. Light!SequenceAssumption
  BY PartAssumption DEF PartAssumption
<1>1. Light!Init => Light!OnIsRunning
  BY DEF Light!Init, Light!OnIsRunning
<1>2. Light!TypeOK /\ Light!OnIsRunning /\ [Light!Next]_(Light!vars) => Light!OnIsRunning'
  <2> SUFFICES ASSUME Light!TypeOK, Light!OnIsRunning, [Light!Next]_(Light!vars)
               PROVE  Light!OnIsRunning'
    OBVIOUS
  <2>1. CASE light' = FALSE \/ UNCHANGED <<light, state>>
    BY <2>1 DEF Light!OnIsRunning, Light!Runnable
  <2>2. ASSUME NEW p \in Light!Task, Light!Step(p) PROVE Light!OnIsRunning'
    <3> DEFINE c == task[p].context
    <3>1. c \in Light!Context
      BY <2>2 DEF Light!Step, Light!TypeOK, Light!StateOK, Light!TaskOK
    <3>2. \/ light' = FALSE
          \/ state' = [state EXCEPT ![c] = Light!Following(c)]
          \/ state' = [state EXCEPT ![c] = 1]
      BY <2>2 DEF Light!Step, Light!Set, Light!Loop, Light!End, Light!Deactivate
    <3> HIDE DEF c
    <3>3. CASE light' = FALSE
      BY <3>3 DEF Light!OnIsRunning
    <3>4. CASE ~(light' = FALSE)
      <4>1. state'[c] # Light!Stopped
        BY <1>0, <3>1, <3>2, <3>4, FollowingRuns
        DEF Light!TypeOK, Light!StateOK, Light!TaskOK, Light!Stopped
      <4> QED BY <3>1, <4>1 DEF Light!OnIsRunning, Light!Runnable
    <3> QED BY <3>3, <3>4
  <2>3. ASSUME NEW p \in Caller, NEW c \in Light!Context, Light!Run(p, c) \/ Light!Stop(p, c)
        PROVE  light' = FALSE
    BY <2>3 DEF Light!Run, Light!Stop, Light!Mark, Light!Deactivate
  <2> QED BY <2>1, <2>2, <2>3 DEF Light!Next, Light!UpdateActive, Light!RunFirst, Light!Fire,
                                  Light!Enter, Light!Test, Light!vars
<1> QED BY <1>1, <1>2, LightTypeCorrect, PartSpecs, PTL DEF OnIsRunning

----------------------------------------------------------------------------
(* The parts off the drone, and all of them together. *)

\* What a command does to the state and the target of one drone.
LEMMA CommandTypes ==
    ASSUME Sim!TypeOK, NEW d \in SimDrone, NEW c, Sim!Obey(d, c) \/ Sim!FinalLanding(d)
    PROVE  /\ m_state' \in [SimDrone -> {"WAITING", "EXPLORE"}]
           /\ target' \in [SimDrone -> {"none", "hover", "explore", "ground", "base"}]
<1>1. CASE Sim!Obey(d, c)
  BY <1>1 DEF Sim!TypeOK, Sim!Obey, Sim!TakeOffAndExplore, Sim!Land, Sim!BackToBase,
              Sim!RandomExplore, Sim!SetState, Sim!SetAbsolutePosition
<1>2. CASE Sim!FinalLanding(d)
  BY <1>2 DEF Sim!TypeOK, Sim!FinalLanding, Sim!Land, Sim!BackToBase, Sim!SetState,
              Sim!SetAbsolutePosition
<1> QED BY <1>1, <1>2

LEMMA SimTypeStep ==
    /\ Sim!Init => Sim!TypeOK
    /\ Sim!TypeOK /\ [Sim!Next]_(Sim!vars) => Sim!TypeOK'
<1>1. Sim!Init => Sim!TypeOK
  BY DEF Sim!Init, Sim!TypeOK, Sim!Heights, Sim!Places
<1>2. Sim!TypeOK /\ [Sim!Next]_(Sim!vars) => Sim!TypeOK'
  <2> SUFFICES ASSUME Sim!TypeOK, [Sim!Next]_(Sim!vars) PROVE Sim!TypeOK'
    OBVIOUS
  <2>1. ASSUME NEW d \in SimDrone, Sim!ControlStep(d) PROVE Sim!TypeOK'
    <3>1. command' \in {"none", "TAKEOFF", "LAND", "BACKTOBASE"}
      BY <2>1 DEF Sim!ControlStep, Sim!Received, Sim!TypeOK
    <3>2. /\ m_state' \in [SimDrone -> {"WAITING", "EXPLORE"}]
          /\ target' \in [SimDrone -> {"none", "hover", "explore", "ground", "base"}]
      BY <2>1, CommandTypes DEF Sim!ControlStep, Sim!TypeOK
    <3>3. m_bDoneFinalLanding' \in [SimDrone -> BOOLEAN]
      BY <2>1 DEF Sim!ControlStep, Sim!FinalLanding, Sim!TypeOK
    <3> QED BY <2>1, <3>1, <3>2, <3>3 DEF Sim!ControlStep, Sim!TypeOK, Sim!world
  <2>2. CASE Sim!Tick
    BY <2>2 DEF Sim!Tick, Sim!TypeOK
  <2>3. CASE Sim!Reset
    BY <2>3 DEF Sim!Reset, Sim!TypeOK, Sim!Heights, Sim!Places
  <2>4. CASE UNCHANGED Sim!vars
    BY <2>4 DEF Sim!vars, Sim!world, Sim!TypeOK
  <2> QED BY <2>1, <2>2, <2>3, <2>4 DEF Sim!Next
<1> QED BY <1>1, <1>2

(* The types, under commands of the server in any order.                      *)
THEOREM SimTypeCorrect == Spec => []Sim!TypeOK
BY SimTypeStep, PartSpecs, PTL

(* However many drones share the one command: a drone explores only at its    *)
(* hover height, and is not sent down while it does.                          *)
THEOREM ExplorationFlies == Spec => []ExplorersFly
<1>1. Sim!Init => Sim!ExplorersFly
  BY DEF Sim!Init, Sim!ExplorersFly
<1>2. Sim!TypeOK /\ Sim!ExplorersFly /\ [Sim!Next]_(Sim!vars) => Sim!ExplorersFly'
  <2> SUFFICES ASSUME Sim!TypeOK, Sim!ExplorersFly, [Sim!Next]_(Sim!vars),
                      NEW e \in SimDrone, m_state'[e] = "EXPLORE"
               PROVE  height'[e] = "hover" /\ target'[e] \in {"hover", "explore"}
    BY DEF Sim!ExplorersFly
  <2>1. ASSUME NEW d \in SimDrone, Sim!ControlStep(d)
        PROVE  height'[e] = "hover" /\ target'[e] \in {"hover", "explore"}
    <3>1. height' = height
      BY <2>1 DEF Sim!ControlStep, Sim!world
    <3>2. CASE e # d
      <4>1. m_state'[e] = m_state[e] /\ target'[e] = target[e]
        BY <2>1, <3>2 DEF Sim!ControlStep, Sim!TypeOK, Sim!Obey, Sim!TakeOffAndExplore, Sim!Land,
                          Sim!BackToBase, Sim!RandomExplore, Sim!SetState,
                          Sim!SetAbsolutePosition, Sim!FinalLanding
      <4> QED BY <3>1, <4>1 DEF Sim!ExplorersFly
    <3>3. CASE e = d
      <4>1. PICK c : \/ Sim!Obey(d, c) \/ Sim!FinalLanding(d)
                     \/ UNCHANGED <<m_state, target, m_bDoneFinalLanding>>
        BY <2>1 DEF Sim!ControlStep
      <4>2. CASE Sim!FinalLanding(d)
        BY <3>3, <4>2 DEF Sim!FinalLanding, Sim!Land, Sim!BackToBase, Sim!SetState, Sim!TypeOK
      <4>3. CASE Sim!Obey(d, c)
        <5>1. CASE Sim!TakeOffAndExplore(d)
          BY <3>1, <3>3, <5>1 DEF Sim!TakeOffAndExplore, Sim!RandomExplore, Sim!SetState,
                                  Sim!SetAbsolutePosition, Sim!TypeOK, Sim!ExplorersFly
        <5>2. CASE Sim!Land(d) \/ Sim!BackToBase(d)
          BY <3>3, <5>2 DEF Sim!Land, Sim!BackToBase, Sim!SetState, Sim!TypeOK
        <5>3. CASE Sim!RandomExplore(d) /\ UNCHANGED m_state
          BY <3>1, <3>3, <5>3 DEF Sim!RandomExplore, Sim!SetAbsolutePosition, Sim!TypeOK,
                                  Sim!ExplorersFly
        <5> QED BY <4>3, <5>1, <5>2, <5>3 DEF Sim!Obey
      <4>4. CASE UNCHANGED <<m_state, target, m_bDoneFinalLanding>>
        BY <3>1, <4>4 DEF Sim!ExplorersFly
      <4> QED BY <4>1, <4>2, <4>3, <4>4
    <3> QED BY <3>2, <3>3
  <2>2. CASE Sim!Tick
    <3>1. m_state[e] = "EXPLORE" /\ target'[e] = target[e] /\ height'[e] \in Sim!NextHeights(e)
      BY <2>2 DEF Sim!Tick
    <3>2. height[e] = "hover" /\ target[e] \in {"hover", "explore"}
      BY <3>1 DEF Sim!ExplorersFly
    <3> QED BY <3>1, <3>2 DEF Sim!NextHeights, Sim!Climbs
  <2>3. CASE Sim!Reset
    BY <2>3 DEF Sim!Reset
  <2>4. CASE UNCHANGED Sim!vars
    BY <2>4 DEF Sim!vars, Sim!world, Sim!ExplorersFly
  <2> QED BY <2>1, <2>2, <2>3, <2>4 DEF Sim!Next
<1> QED BY <1>1, <1>2, SimTypeCorrect, PartSpecs, PTL DEF ExplorersFly

----------------------------------------------------------------------------
(* The page. *)

\* An answer tells of the drones that are wholly known.
LEMMA AnswerType ==
    ASSUME Page!TypeOK
    PROVE  [d \in Page!Known |-> server[d]] \in UNION {[S -> Value] : S \in SUBSET Shown}
<1>1. Page!Known \in SUBSET Shown /\ [d \in Page!Known |-> server[d]] \in [Page!Known -> Value]
  BY DEF Page!Known
<1> QED BY <1>1

LEMMA IdleType == Page!Idle.drones \in UNION {[S -> Value] : S \in SUBSET Shown}
<1>1. Page!Idle.drones \in [{} -> Value] /\ {} \in SUBSET Shown
  BY DEF Page!Idle
<1> QED BY <1>1

LEMMA PageTypeStep ==
    /\ Page!Init => Page!TypeOK
    /\ Page!TypeOK /\ [Page!Next]_(Page!vars) => Page!TypeOK'
<1> DEFINE Answers == UNION {[S -> Value] : S \in SUBSET Shown}
           Polls == [step : {"idle", "asked", "failed", "answered"}, drones : Answers]
<1>1. Page!Idle \in Polls
  BY IdleType DEF Page!Idle
<1>2. Page!Init => Page!TypeOK
  BY <1>1 DEF Page!Init, Page!TypeOK, Page!Status
<1>3. Page!TypeOK /\ [Page!Next]_(Page!vars) => Page!TypeOK'
  <2> SUFFICES ASSUME Page!TypeOK, [Page!Next]_(Page!vars) PROVE Page!TypeOK'
    OBVIOUS
  <2>1. polls \in [Poll -> Polls]
    BY DEF Page!TypeOK
  <2>2. ASSUME NEW d \in Shown, Page!Change(d) PROVE Page!TypeOK'
    BY <2>2 DEF Page!Change, Page!TypeOK, Page!Status
  <2>3. ASSUME NEW p \in Poll, Page!DronesUpdate(p) PROVE Page!TypeOK'
    <3>1. polls' \in [Poll -> Polls]
      BY <2>1, <2>3 DEF Page!DronesUpdate
    <3> QED BY <2>3, <3>1 DEF Page!DronesUpdate, Page!TypeOK
  <2>4. ASSUME NEW p \in Poll, Page!Answer(p) PROVE Page!TypeOK'
    <3>1. [step |-> "answered", drones |-> [d \in Page!Known |-> server[d]]] \in Polls
      BY AnswerType
    <3>2. [polls[p] EXCEPT !.step = "failed"] \in Polls
      BY <2>1
    <3>3. polls' \in [Poll -> Polls]
      BY <2>1, <2>4, <3>1, <3>2 DEF Page!Answer
    <3> QED BY <2>4, <3>3 DEF Page!Answer, Page!TypeOK
  <2>5. ASSUME NEW p \in Poll, Page!Fail(p) PROVE Page!TypeOK'
    <3>1. polls' \in [Poll -> Polls]
      BY <1>1, <2>1, <2>5 DEF Page!Fail
    <3> QED BY <2>5, <3>1 DEF Page!Fail, Page!TypeOK
  <2>6. ASSUME NEW p \in Poll, Page!Update(p) PROVE Page!TypeOK'
    <3>1. polls' \in [Poll -> Polls]
      BY <1>1, <2>1, <2>6 DEF Page!Update
    <3>2. polls[p].drones \in Answers
      BY <2>1
    <3>3. \A d \in DOMAIN polls[p].drones : polls[p].drones[d] \in Value
      BY <3>2
    <3>4. drones' \in [Shown -> Value \cup {Page!None}]
      BY <2>6, <3>3 DEF Page!Update, Page!Merged, Page!TypeOK
    <3>5. screen' \in [Shown -> Value \cup {Page!None, Page!New}]
      BY <2>6, <3>4 DEF Page!Update
    <3> QED BY <2>6, <3>1, <3>4, <3>5 DEF Page!Update, Page!TypeOK
  <2>7. CASE UNCHANGED Page!vars
    BY <2>7 DEF Page!vars, Page!TypeOK
  <2> QED BY <2>2, <2>3, <2>4, <2>5, <2>6, <2>7 DEF Page!Next, Page!Answered
<1> QED BY <1>2, <1>3

----------------------------------------------------------------------------
(* The battery estimate. *)

LEMMA EstimateTypeStep ==
    ASSUME Est!ScaleAssumption
    PROVE  /\ Est!Init => Est!TypeOK
           /\ Est!TypeOK /\ [Est!Next]_(Est!vars) => Est!TypeOK'
<1>0. Full \in Nat /\ Unit \in Nat \ {0} /\ Drop \in Nat /\ NoLevel \notin Int
  BY DEF Est!ScaleAssumption
<1>1. Est!Init => Est!TypeOK
  BY <1>0 DEF Est!Init, Est!TypeOK, Est!NoPacket, Est!NoRequest
<1>2. Est!TypeOK /\ [Est!Next]_(Est!vars) => Est!TypeOK'
  <2> SUFFICES ASSUME Est!TypeOK, [Est!Next]_(Est!vars) PROVE Est!TypeOK'
    OBVIOUS
  <2>0. ASSUME Est!Meet PROVE raced' \in SUBSET Flying
    BY <2>0 DEF Est!Meet, Est!TypeOK
  <2>1. ASSUME NEW d \in Flying, Est!LogOnGround(d) PROVE Est!TypeOK'
    BY <1>0, <2>1 DEF Est!LogOnGround, Est!TypeOK
  <2>2. ASSUME NEW d \in Flying, Est!LogInFlight(d) PROVE Est!TypeOK'
    <3>1. CASE Est!ReadMission(d)
      BY <2>0, <3>1 DEF Est!ReadMission, Est!TypeOK
    <3>2. CASE Est!ReadDrop(d)
      BY <3>2 DEF Est!ReadDrop, Est!TypeOK
    <3>3. CASE Est!StoreMission(d)
      BY <3>3 DEF Est!StoreMission, Est!TypeOK
    <3>4. CASE Est!TestMission(d) \/ Est!ResetMission(d)
      BY <3>4 DEF Est!TestMission, Est!ResetMission, Est!TypeOK
    <3>5. CASE Est!ReadShown(d)
      <4>1. Est!Truncated(mission) \in Int
        BY <1>0 DEF Est!Truncated, Est!TypeOK
      <4> QED BY <3>5, <4>1 DEF Est!ReadShown, Est!TypeOK
    <3>6. CASE Est!Show(d)
      BY <3>6 DEF Est!Show, Est!TypeOK, Est!NoPacket
    <3> QED BY <2>2, <3>1, <3>2, <3>3, <3>4, <3>5, <3>6 DEF Est!LogInFlight
  <2>3. ASSUME NEW r \in Request, Est!SetEstimate(r) PROVE Est!TypeOK'
    <3>1. ASSUME NEW d \in Flying, Est!ReadLevel(r, d) PROVE Est!TypeOK'
      BY <2>0, <3>1 DEF Est!ReadLevel, Est!TypeOK
    <3> SUFFICES ASSUME explore[r].pc # "idle",
                        \/ Est!SetMission(r) \/ Est!ReadForTime(r)
                        \/ Est!ReadForDrop(r) \/ Est!SetDrop(r)
                 PROVE  Est!TypeOK'
      BY <2>3, <3>1 DEF Est!SetEstimate, Est!SetMission, Est!ReadForTime, Est!ReadForDrop,
                        Est!SetDrop
    <3>2. explore[r] \in [pc : {"mission", "time", "second", "store"}, drone : Flying,
                          level : Int, first : Int, second : Int]
      BY DEF Est!TypeOK, Est!NoRequest
    <3>3. CASE Est!SetMission(r)
      BY <1>0, <3>2, <3>3 DEF Est!SetMission, Est!TypeOK
    <3>4. CASE Est!ReadForTime(r)
      BY <3>2, <3>4 DEF Est!ReadForTime, Est!TypeOK
    <3>5. CASE Est!ReadForDrop(r)
      BY <3>2, <3>5 DEF Est!ReadForDrop, Est!TypeOK, Est!NoRequest
    <3>6. CASE Est!SetDrop(r)
      <4>1. Est!SentOffWith(explore[r].drone, explore[r].level) \in Int \cup {NoLevel}
        BY <3>2 DEF Est!SentOffWith, Est!TypeOK
      <4>2. Est!NewDrop(explore[r].first, explore[r].second) \in Int
        <5>1. explore[r].first \in Int \ {0} /\ Drop * explore[r].second \in Int
          BY <1>0, <3>2, <3>6 DEF Est!SetDrop, Est!TypeOK
        <5>2. ASSUME NEW a \in Int, NEW b \in Int \ {0} PROVE Est!Quotient(a, b) \in Int
          BY DEF Est!Quotient, Est!Size
        <5> QED BY <1>0, <5>1, <5>2 DEF Est!NewDrop
      <4>3. NoLevel \notin Int /\ explore'[r] = Est!NoRequest
        BY <1>0, <3>2, <3>6 DEF Est!SetDrop, Est!TypeOK
      <4> QED BY <3>2, <3>6, <4>1, <4>2, <4>3 DEF Est!SetDrop, Est!TypeOK, Est!NoRequest
    <3> QED BY <3>3, <3>4, <3>5, <3>6
  <2>4. ASSUME NEW d \in Flying, Est!TakeOff(d) PROVE Est!TypeOK'
    BY <2>4 DEF Est!TakeOff, Est!TypeOK
  <2>5. ASSUME NEW d \in Flying, Est!Land(d) PROVE Est!TypeOK'
    BY <2>5 DEF Est!Land, Est!TypeOK
  <2>6. CASE UNCHANGED Est!vars
    BY <2>6 DEF Est!vars, Est!TypeOK
  <2> QED BY <2>1, <2>2, <2>3, <2>4, <2>5, <2>6 DEF Est!Next
<1> QED BY <1>1, <1>2

\* What the callback of a drone that nobody has met is about to store or to show.
CallbackBounded(d) ==
    /\ callback[d].pc \in {"drop", "store"} => callback[d].value <= launch[d] * Unit
    /\ callback[d].pc = "show" => callback[d].value <= launch[d]

\* What an explore that nobody has met has read and stored.
ExploreAgrees(r) ==
    /\ explore[r].pc \in {"time", "second", "store"} => mission = explore[r].level * Unit
    /\ explore[r].pc \in {"second", "store"} => explore[r].first = mission
    /\ explore[r].pc = "store" => explore[r].second = mission

\* The globals are those of the level the drone was sent off with, but while an explore sets them.
Bounded(d) ==
    /\ CallbackBounded(d)
    /\ \A r \in Request : explore[r].pc # "idle" =>
         /\ callback[d].pc = "idle"
         /\ \A q \in Request : explore[q].pc # "idle" => q = r
         /\ ExploreAgrees(r)
         /\ estimated[d] => explore[r].level <= launch[d]
    /\ launch[d] # NoLevel =>
         /\ drop >= 0
         /\ (\A r \in Request : explore[r].pc \in {"idle", "mission"}) => mission <= launch[d] * Unit
    /\ estimated[d] => shown[d] <= launch[d]

\* No level is negative, met or not: the global is, between a callback's store and its reset.
LevelsInv(d) ==
    /\ shown[d] # NoLevel => shown[d] >= 0
    /\ launch[d] # NoLevel => launch[d] >= 0
    /\ \A r \in Request : explore[r].pc # "idle" => explore[r].level >= 0
    /\ mission >= 0 \/ callback[d].pc \in {"test", "reset"}
    /\ callback[d].pc = "show" => callback[d].value >= 0
    /\ estimated[d] => flying[d] /\ shown[d] # NoLevel
    /\ flying[d] => launch[d] # NoLevel
    /\ callback[d].pc # "idle" => flying[d]

LEMMA LevelInWholeParts ==
    ASSUME NEW n \in Nat, NEW u \in Nat \ {0}, NEW l \in Int
    PROVE  /\ n \div u \in Nat
           /\ n <= l * u => n \div u <= l
           /\ l >= 0 => l * u >= 0
<1>1. n \div u \in Int /\ (n \div u) * u <= n /\ n < (n \div u) * u + u
  OBVIOUS
<1>2. ASSUME NEW a \in Int, NEW b \in Int, a < b PROVE a * u + u <= b * u
  <2>1. b - a - 1 \in Nat
    BY <1>2
  <2>2. (b - a - 1) * u >= 0
    BY <2>1
  <2> QED BY <2>2
<1>3. n \div u \in Nat
  <2>1. n \div u < 0 => (n \div u) * u + u <= 0 * u
    BY <1>1, <1>2
  <2> QED BY <1>1, <2>1
<1>4. n <= l * u => n \div u <= l
  <2>1. l < n \div u => l * u + u <= (n \div u) * u
    BY <1>1, <1>2
  <2>2. l * u \in Int
    OBVIOUS
  <2> QED BY <1>1, <2>1, <2>2
<1> QED BY <1>3, <1>4

\* A step of the one drone's callback, or of its flight, and one of an explore.
LEMMA EstimateSteps ==
    ASSUME NEW d \in Flying, \A e \in Flying : e = d, Est!TypeOK, Est!Next
    PROVE  \/ Est!LogOnGround(d) \/ Est!LogInFlight(d) \/ Est!TakeOff(d) \/ Est!Land(d)
           \/ \E r \in Request : Est!ReadLevel(r, d)
           \/ \E r \in Request :
                /\ explore[r] \in [pc : {"mission", "time", "second", "store"}, drone : {d},
                                   level : Int, first : Int, second : Int]
                /\ \/ Est!SetMission(r) \/ Est!ReadForTime(r)
                   \/ Est!ReadForDrop(r) \/ Est!SetDrop(r)
<1>1. ASSUME NEW r \in Request, explore[r].pc # "idle"
      PROVE  explore[r] \in [pc : {"mission", "time", "second", "store"}, drone : {d},
                             level : Int, first : Int, second : Int]
  BY <1>1 DEF Est!TypeOK, Est!NoRequest
<1>2. ASSUME NEW r \in Request,
             Est!SetMission(r) \/ Est!ReadForTime(r) \/ Est!ReadForDrop(r) \/ Est!SetDrop(r)
      PROVE  explore[r].pc # "idle"
  BY <1>2 DEF Est!SetMission, Est!ReadForTime, Est!ReadForDrop, Est!SetDrop
<1> QED BY <1>1, <1>2 DEF Est!Next, Est!SetEstimate

LEMMA LevelsStep ==
    ASSUME NEW d \in Flying, \A e \in Flying : e = d, Est!ScaleAssumption,
           Est!TypeOK, LevelsInv(d), [Est!Next]_(Est!vars)
    PROVE  LevelsInv(d)'
<1>0. Full \in Nat /\ Unit \in Nat \ {0} /\ Drop \in Nat \ {0} /\ NoLevel \notin Int
  BY DEF Est!ScaleAssumption
<1>1. CASE Est!LogOnGround(d)
  BY <1>0, <1>1 DEF Est!LogOnGround, Est!TypeOK, LevelsInv
<1>2. CASE Est!LogInFlight(d)
  <2>1. CASE Est!ReadMission(d)
    BY <2>1 DEF Est!ReadMission, Est!TypeOK, LevelsInv
  <2>2. CASE Est!ReadDrop(d)
    BY <2>2 DEF Est!ReadDrop, Est!TypeOK, LevelsInv
  <2>3. CASE Est!StoreMission(d)
    BY <2>3 DEF Est!StoreMission, Est!TypeOK, LevelsInv
  <2>4. CASE Est!TestMission(d) \/ Est!ResetMission(d)
    BY <2>4 DEF Est!TestMission, Est!ResetMission, Est!TypeOK, LevelsInv
  <2>5. CASE Est!ReadShown(d)
    <3>1. mission \in Nat
      BY <2>5 DEF Est!ReadShown, Est!TypeOK, LevelsInv
    <3>2. Est!Truncated(mission) \in Nat
      BY <1>0, <3>1, LevelInWholeParts DEF Est!Truncated
    <3> QED BY <2>5, <3>1, <3>2 DEF Est!ReadShown, Est!TypeOK, LevelsInv
  <2>6. CASE Est!Show(d)
    BY <1>0, <2>6 DEF Est!Show, Est!TypeOK, LevelsInv, Est!NoPacket
  <2> QED BY <1>2, <2>1, <2>2, <2>3, <2>4, <2>5, <2>6 DEF Est!LogInFlight
<1>3. CASE Est!TakeOff(d)
  BY <1>3 DEF Est!TakeOff, Est!TypeOK, LevelsInv
<1>4. CASE Est!Land(d)
  BY <1>0, <1>4 DEF Est!Land, Est!TypeOK, LevelsInv
<1>5. ASSUME NEW r \in Request, Est!ReadLevel(r, d) PROVE LevelsInv(d)'
  BY <1>0, <1>5 DEF Est!ReadLevel, Est!TypeOK, LevelsInv
<1>6. ASSUME NEW r \in Request,
             explore[r] \in [pc : {"mission", "time", "second", "store"}, drone : {d},
                             level : Int, first : Int, second : Int],
             \/ Est!SetMission(r) \/ Est!ReadForTime(r) \/ Est!ReadForDrop(r) \/ Est!SetDrop(r)
      PROVE  LevelsInv(d)'
  <2>1. explore[r].level \in Nat
    BY <1>6 DEF LevelsInv
  <2>2. CASE Est!SetMission(r)
    <3>1. explore[r].level * Unit \in Nat
      BY <1>0, <2>1
    <3> QED BY <1>6, <2>2, <3>1 DEF Est!SetMission, Est!TypeOK, LevelsInv
  <2>3. CASE Est!ReadForTime(r)
    BY <1>6, <2>3 DEF Est!ReadForTime, Est!TypeOK, LevelsInv
  <2>4. CASE Est!ReadForDrop(r)
    BY <1>6, <2>4 DEF Est!ReadForDrop, Est!TypeOK, LevelsInv, Est!NoRequest
  <2>5. CASE Est!SetDrop(r)
    <3>1. Est!SentOffWith(d, explore[r].level) \in Nat
      BY <2>1 DEF Est!SentOffWith, Est!TypeOK, LevelsInv
    <3>2. /\ launch' = [launch EXCEPT ![d] = Est!SentOffWith(d, explore[r].level)]
          /\ explore' = [explore EXCEPT ![r] = Est!NoRequest]
          /\ UNCHANGED <<flying, shown, mission, callback, estimated, raced>>
      BY <1>6, <2>5 DEF Est!SetDrop
    <3> QED BY <1>0, <3>1, <3>2 DEF Est!TypeOK, LevelsInv, Est!NoRequest
  <2> QED BY <1>6, <2>2, <2>3, <2>4, <2>5
<1>7. CASE UNCHANGED Est!vars
  BY <1>7 DEF Est!vars, LevelsInv
<1> QED BY <1>1, <1>2, <1>3, <1>4, <1>5, <1>6, <1>7, EstimateSteps

LEMMA BoundedStep ==
    ASSUME NEW d \in Flying, \A e \in Flying : e = d, Est!ScaleAssumption,
           Est!TypeOK, LevelsInv(d), d \notin raced => Bounded(d), [Est!Next]_(Est!vars),
           d \notin raced'
    PROVE  Bounded(d)'
<1> USE DEF Bounded, CallbackBounded, ExploreAgrees
<1>0. Full \in Nat /\ Unit \in Nat \ {0} /\ Drop \in Nat \ {0} /\ NoLevel \notin Int
  BY DEF Est!ScaleAssumption
<1>a. launch[d] # NoLevel => launch[d] \in Nat /\ launch[d] * Unit \in Nat
  BY <1>0, LevelInWholeParts DEF Est!TypeOK, LevelsInv
<1>1. CASE Est!LogOnGround(d)
  BY <1>0, <1>1 DEF Est!LogOnGround, Est!TypeOK, LevelsInv
<1>2. CASE Est!LogInFlight(d)
  <2> SUFFICES ASSUME d \notin raced, Bounded(d), \A r \in Request : explore[r].pc = "idle",
                      flying[d], launch[d] \in Nat, launch[d] * Unit \in Nat
               PROVE  Bounded(d)'
    <3>1. CASE Est!ReadMission(d)
      <4>1. raced' = raced /\ \A r \in Request : explore[r].pc = "idle"
        BY <3>1 DEF Est!ReadMission, Est!Meet, Est!Exploring
      <4> QED BY <1>a, <3>1, <4>1 DEF Est!ReadMission, LevelsInv
    <3>2. CASE callback[d].pc # "idle" /\ raced' = raced
      BY <1>a, <3>2 DEF LevelsInv
    <3> QED BY <1>2, <3>1, <3>2 DEF Est!LogInFlight, Est!ReadDrop, Est!StoreMission,
               Est!TestMission, Est!ResetMission, Est!ReadShown, Est!Show
  <2>0. drop \in Nat /\ mission \in Int /\ mission <= launch[d] * Unit
    BY <1>0 DEF Est!TypeOK
  <2>1. CASE Est!ReadMission(d)
    BY <2>0, <2>1 DEF Est!ReadMission, Est!TypeOK
  <2>2. CASE Est!ReadDrop(d)
    <3>1. callback[d].value \in Int /\ callback[d].value - drop <= launch[d] * Unit
      BY <2>0, <2>2 DEF Est!ReadDrop, Est!TypeOK
    <3> QED BY <2>0, <2>2, <3>1 DEF Est!ReadDrop, Est!TypeOK
  <2>3. CASE Est!StoreMission(d)
    BY <2>0, <2>3 DEF Est!StoreMission, Est!TypeOK
  <2>4. CASE Est!TestMission(d) \/ Est!ResetMission(d)
    BY <2>0, <2>4 DEF Est!TestMission, Est!ResetMission, Est!TypeOK
  <2>5. CASE Est!ReadShown(d)
    <3>1. mission \in Nat
      BY <2>0, <2>5 DEF Est!ReadShown, LevelsInv
    <3>2. Est!Truncated(mission) <= launch[d]
      BY <1>0, <2>0, <3>1, LevelInWholeParts DEF Est!Truncated
    <3> QED BY <2>0, <2>5, <3>2 DEF Est!ReadShown, Est!TypeOK
  <2>6. CASE Est!Show(d)
    BY <2>0, <2>6 DEF Est!Show, Est!TypeOK, Est!NoPacket
  <2> QED BY <1>2, <2>1, <2>2, <2>3, <2>4, <2>5, <2>6 DEF Est!LogInFlight
<1>3. CASE Est!TakeOff(d)
  BY <1>3 DEF Est!TakeOff, Est!TypeOK
<1>4. CASE Est!Land(d)
  <2>1. CASE d \notin raced
    BY <1>0, <1>4, <2>1 DEF Est!Land, Est!TypeOK
  <2>2. CASE d \in raced
    <3>1. \A r \in Request : explore[r].pc = "idle"
      BY <1>4, <2>2 DEF Est!Land, Est!Exploring
    <3> QED BY <1>0, <1>4, <3>1 DEF Est!Land, Est!TypeOK
  <2> QED BY <2>1, <2>2
<1>5. ASSUME NEW r \in Request, Est!ReadLevel(r, d) PROVE Bounded(d)'
  <2>1. /\ d \notin raced
        /\ \A q \in Request : explore[q].pc = "idle"
        /\ callback[d].pc = "idle"
    BY <1>5 DEF Est!ReadLevel, Est!Meet, Est!Exploring, Est!Logging
  <2> QED BY <1>5, <2>1 DEF Est!ReadLevel, Est!TypeOK
<1>6. ASSUME NEW r \in Request,
             explore[r] \in [pc : {"mission", "time", "second", "store"}, drone : {d},
                             level : Int, first : Int, second : Int],
             \/ Est!SetMission(r) \/ Est!ReadForTime(r) \/ Est!ReadForDrop(r) \/ Est!SetDrop(r)
      PROVE  Bounded(d)'
  <2>1. d \notin raced
    BY <1>6 DEF Est!SetMission, Est!ReadForTime, Est!ReadForDrop, Est!SetDrop
  <2>2. /\ callback[d].pc = "idle" /\ \A q \in Request : explore[q].pc # "idle" => q = r
        /\ explore[r].level \in Nat
    BY <1>6, <2>1 DEF LevelsInv
  <2>3. CASE Est!SetMission(r)
    BY <1>6, <2>1, <2>2, <2>3 DEF Est!SetMission, Est!TypeOK
  <2>4. CASE Est!ReadForTime(r)
    BY <1>6, <2>1, <2>2, <2>4 DEF Est!ReadForTime, Est!TypeOK
  <2>5. CASE Est!ReadForDrop(r)
    <3>1. CASE explore[r].first = 0
      <4>1. mission = 0 /\ explore' = [explore EXCEPT ![r] = Est!NoRequest]
            /\ UNCHANGED <<flying, shown, mission, drop, callback, launch, estimated, raced>>
        BY <1>6, <2>1, <2>5, <3>1 DEF Est!ReadForDrop
      <4> QED BY <1>a, <2>1, <2>2, <4>1 DEF Est!TypeOK, Est!NoRequest
    <3>2. CASE explore[r].first # 0
      BY <1>6, <2>1, <2>2, <2>5, <3>2 DEF Est!ReadForDrop, Est!TypeOK
    <3> QED BY <3>1, <3>2
  <2>6. CASE Est!SetDrop(r)
    <3>1. mission = explore[r].level * Unit
          /\ Est!NewDrop(explore[r].first, explore[r].second) = Drop
      BY <1>6, <2>1, <2>6 DEF Est!SetDrop, Est!NewDrop
    <3>2. /\ launch' = [launch EXCEPT ![d] = Est!SentOffWith(d, explore[r].level)]
          /\ explore' = [explore EXCEPT ![r] = Est!NoRequest]
          /\ drop' = Drop
          /\ UNCHANGED <<flying, shown, mission, callback, estimated, raced>>
      BY <1>6, <2>6, <3>1 DEF Est!SetDrop
    <3>3. /\ Est!SentOffWith(d, explore[r].level) \in Nat
          /\ explore[r].level <= Est!SentOffWith(d, explore[r].level)
          /\ launch[d] # NoLevel => launch[d] <= Est!SentOffWith(d, explore[r].level)
      BY <1>6, <1>a, <2>1, <2>2 DEF Est!SentOffWith, Est!TypeOK
    <3>4. explore[r].level * Unit <= Est!SentOffWith(d, explore[r].level) * Unit
      <4>1. ASSUME NEW k \in Nat, NEW l \in Nat, k <= l PROVE k * Unit <= l * Unit
        <5>1. (l - k) * Unit >= 0
          BY <1>0, <4>1, LevelInWholeParts
        <5> QED BY <1>0, <5>1
      <4> QED BY <2>2, <3>3, <4>1
    <3>5. estimated[d] => launch[d] # NoLevel /\ shown[d] \in Int
      BY DEF LevelsInv, Est!TypeOK
    <3> QED BY <1>0, <1>a, <2>1, <2>2, <3>1, <3>2, <3>3, <3>4, <3>5 DEF Est!TypeOK, Est!NoRequest
  <2> QED BY <1>6, <2>3, <2>4, <2>5, <2>6
<1>7. CASE UNCHANGED Est!vars
  BY <1>7 DEF Est!vars
<1> QED BY <1>1, <1>2, <1>3, <1>4, <1>5, <1>6, <1>7, EstimateSteps

EstimateInv == \A d \in Flying : LevelsInv(d) /\ (d \notin raced => Bounded(d))

LEMMA EstimateInduction ==
    ASSUME Est!ScaleAssumption, \A d, e \in Flying : d = e
    PROVE  /\ Est!Init => EstimateInv
           /\ Est!TypeOK /\ EstimateInv /\ [Est!Next]_(Est!vars) => EstimateInv'
<1>1. Est!Init => EstimateInv
  BY DEF Est!ScaleAssumption, Est!Init, EstimateInv, LevelsInv, Bounded, CallbackBounded,
         Est!NoPacket, Est!NoRequest
<1>2. Est!TypeOK /\ EstimateInv /\ [Est!Next]_(Est!vars) => EstimateInv'
  BY LevelsStep, BoundedStep DEF EstimateInv
<1> QED BY <1>1, <1>2

(* With a single drone, whose explore requests are as many as one likes and   *)
(* repeated at any time, the level estimated in flight never exceeds the      *)
(* highest with which the drone was sent off, as long as no explore has met   *)
(* one of its log callbacks, or another explore, on the globals.              *)
THEOREM SingleDroneEstimate ==
    ASSUME \A d, e \in Flying : d = e
    PROVE  Spec => []OwnEstimate
<1>1. Est!ScaleAssumption
  BY PartAssumption DEF PartAssumption
<1>2. EstimateInv => Est!OwnEstimate
  BY DEF EstimateInv, Bounded, Est!OwnEstimate
<1>3. Est!Init => Est!TypeOK /\ EstimateInv
  BY <1>1, EstimateTypeStep, EstimateInduction
<1>4. Est!TypeOK /\ EstimateInv /\ [Est!Next]_(Est!vars) => (Est!TypeOK /\ EstimateInv)'
  BY <1>1, EstimateTypeStep, EstimateInduction
<1> QED BY <1>2, <1>3, <1>4, PartSpecs, PTL DEF OwnEstimate

----------------------------------------------------------------------------
(* The types of every part, in each behaviour of one of them.                 *)
THEOREM TypeCorrect == Spec => []TypeOK
<1>1. Spec => []Est!TypeOK
  BY EstimateTypeStep, PartSpecs, PartAssumption, PTL DEF PartAssumption
<1>2. Spec => []Page!TypeOK
  BY PageTypeStep, PartSpecs, PTL
<1> QED BY <1>1, <1>2, SimTypeCorrect, BlinkTypeCorrect, WallTypeCorrect, StabTypeCorrect,
           LightTypeCorrect, PTL DEF TypeOK
=============================================================================
