--------------------------- MODULE DroneApp_proofs ---------------------------
(* Theorems about DroneApp, for every battery scale and every ranger.      *)
EXTENDS DroneApp, TLAPS

\* What the two invariants about the return to base need about the value the
\* application holds between its read and its store.
ReturnInv ==
    /\ WallFollowerHasTimer
    /\ pending = "WALL_FOLLOWER" => angleTimer = "armed"
    /\ returnCause = "command" =>
         /\ stateForReturnToBase = "GO_STRAIGHT_TO_BASE" => looked
         /\ pending = "GO_STRAIGHT_TO_BASE" => looked

\* MissionIsUnlocked, wherever the application is except inside prepareExploration.
LockInv ==
    pc # "prepare" /\ state \in {"EXPLORATION", "RETURN_HOME"}
      => stateOuterLoop = "unlocked" \/ handStopped

\* The three tests of the locked branch lead from a state of the lock to one.
LEMMA LockedNextType ==
    ASSUME NEW outer \in OuterLoop, NEW up \in UpRanges
    PROVE  LockedNext(outer, up) \in OuterLoop
BY DEF LockedNext, Released, Covered, Uncovered, OuterLoop

\* Typing is inductive on its own (app_main.c, main_commands.c, information.c,
\* wall_following_projet3.c: every assignment stays within its enumeration).
LEMMA TypeInduction ==
    /\ Init => TypeOK
    /\ TypeOK /\ [Next]_vars => TypeOK'
<1> USE ChargeAssumption, RangeAssumption, DecksAssumption
<1>1. Init => TypeOK
  <2>1. FullCharge \in Nat /\ ReserveCharge \in 0..FullCharge
    BY DEF ChargeAssumption
  <2>2. /\ 0 \in 0..MaxElapsed
        /\ 0 \in Voltages
        /\ 0 \in (0 - ReserveCharge)..(FullCharge - ReserveCharge)
    BY <2>1 DEF MaxElapsed, Voltages
  <2> QED
    BY <2>2 DEF Init, TypeOK, State, ReturnState, OuterLoop, Setpoint
<1>2. TypeOK /\ [Next]_vars => TypeOK'
  <2> SUFFICES ASSUME TypeOK, [Next]_vars PROVE TypeOK'
    OBVIOUS
  <2> USE DEF TypeOK, returnVars, commanderVars, missionVars, history
  <2>1. CASE VerifyCrash
    BY <2>1 DEF VerifyCrash, State
  <2>2. CASE NoCommand \/ OnTakeOff \/ OnLanding
    BY <2>2 DEF NoCommand, OnTakeOff, OnLanding, State
  <2>3. CASE OnExploration
    BY <2>3 DEF OnExploration, setTimeForLowBattery, getBatteryLevel, Voltages, MaxElapsed,
                EnterPrepareExploration, State, OuterLoop
  <2>4. CASE OnReturnToBase
    BY <2>4 DEF OnReturnToBase, EnterPrepareExploration, State, OuterLoop, ReturnState
  <2>5. CASE PrepareExploration
    BY <2>5 DEF PrepareExploration, commanderSetSetpoint, OuterLoop, Setpoint
  <2>6. CASE NothingToLaunch \/ TakeOff \/ Landing \/ Exploration
    BY <2>6 DEF NothingToLaunch, TakeOff, Landing, Exploration, commanderSetSetpoint,
                State, Setpoint
  <2>7. CASE ReturnToBase
    <3> USE DEF Returning, Store, State, ReturnState, Setpoint, commanderSetSetpoint
    <3>1. CASE VerifyDistanceToBase \/ FindAngleState
      BY <3>1 DEF VerifyDistanceToBase, FindAngleState
    <3>2. CASE TurnToAngleState \/ GoStraightToBaseState
      BY <3>2 DEF TurnToAngleState, GoStraightToBaseState
    <3>3. CASE VerifyWayAheadState
      BY <3>3 DEF VerifyWayAheadState
    <3>4. CASE ReInitWallFollowerState \/ ReturnByWall
      BY <3>4 DEF ReInitWallFollowerState, ReturnByWall
    <3> QED BY <2>7, <3>1, <3>2, <3>3, <3>4 DEF ReturnToBase
  <2>8. CASE FollowUnlocked
    BY <2>8 DEF FollowUnlocked, commanderSetSetpoint, OuterLoop, Setpoint
  <2>9. CASE FollowLocked
    <3>1. PICK up \in UpRanges :
            /\ stateOuterLoop' = LockedNext(stateOuterLoop, up)
            /\ IF stateOuterLoop' \in {"idle", "stopping"}
                 THEN commanderSetSetpoint("null")
                 ELSE UNCHANGED commanderVars
      BY <2>9 DEF FollowLocked
    <3>2. stateOuterLoop' \in OuterLoop
      BY <3>1, LockedNextType
    <3>3. /\ setpoint' \in Setpoint
          /\ enHighLevel' \in BOOLEAN
          /\ planFlying' \in BOOLEAN
      BY <3>1 DEF commanderSetSetpoint, Setpoint
    <3> QED BY <2>9, <3>2, <3>3 DEF FollowLocked
  <2>10. CASE StoreReturnState
    BY <2>10 DEF StoreReturnState
  <2>11. CASE TimerTask
    BY <2>11 DEF TimerTask, AnglePeriodElapses, findingAngle, ReturnState
  <2>12. CASE Tick
    BY <2>12 DEF Tick, MaxElapsed
  <2>13. CASE UNCHANGED vars
    BY <2>13 DEF vars
  <2> QED
    BY <2>1, <2>2, <2>3, <2>4, <2>5, <2>6, <2>7, <2>8, <2>9, <2>10, <2>11, <2>12, <2>13
    DEF Next, AppTask, ReceivePacket, LaunchCommand, FollowTheWall
<1> QED BY <1>1, <1>2

\* The variables of DroneApp keep their types.
THEOREM TypeCorrect == Spec => []TypeOK
BY TypeInduction, PTL DEF Spec

\* The angle timer and the look ahead, step by step: the only stores of
\* WALL_FOLLOWER and GO_STRAIGHT_TO_BASE follow the start of the timer and a
\* clean look; the callback and every command store something else.
LEMMA ReturnInduction ==
    /\ Init => ReturnInv
    /\ TypeOK /\ ReturnInv /\ [Next]_vars => ReturnInv'
<1>1. Init => ReturnInv
  BY DEF Init, ReturnInv, WallFollowerHasTimer
<1>2. TypeOK /\ ReturnInv /\ [Next]_vars => ReturnInv'
  <2> SUFFICES ASSUME TypeOK, ReturnInv, [Next]_vars PROVE ReturnInv'
    OBVIOUS
  <2> USE DEF ReturnInv, WallFollowerHasTimer, returnVars, history
  <2>1. CASE VerifyCrash \/ NoCommand \/ OnTakeOff \/ OnLanding \/ OnExploration
    BY <2>1 DEF VerifyCrash, NoCommand, OnTakeOff, OnLanding, OnExploration
  <2>2. CASE OnReturnToBase
    BY <2>2 DEF OnReturnToBase, TypeOK
  <2>3. CASE PrepareExploration
    BY <2>3 DEF PrepareExploration
  <2>4. CASE NothingToLaunch \/ TakeOff \/ Landing
    BY <2>4 DEF NothingToLaunch, TakeOff, Landing
  <2>5. CASE Exploration
    BY <2>5 DEF Exploration
  <2>6. CASE ReturnToBase
    <3> USE DEF Returning, Store
    <3>1. CASE VerifyDistanceToBase \/ FindAngleState
      BY <3>1 DEF VerifyDistanceToBase, FindAngleState
    <3>2. CASE TurnToAngleState \/ GoStraightToBaseState
      BY <3>2 DEF TurnToAngleState, GoStraightToBaseState
    <3>3. CASE VerifyWayAheadState
      BY <3>3 DEF VerifyWayAheadState
    <3>4. CASE ReInitWallFollowerState \/ ReturnByWall
      BY <3>4 DEF ReInitWallFollowerState, ReturnByWall
    <3> QED BY <2>6, <3>1, <3>2, <3>3, <3>4 DEF ReturnToBase
  <2>7. CASE FollowUnlocked \/ FollowLocked
    BY <2>7 DEF FollowUnlocked, FollowLocked
  <2>8. CASE StoreReturnState
    BY <2>8 DEF StoreReturnState, TypeOK
  <2>9. CASE TimerTask
    BY <2>9 DEF TimerTask, AnglePeriodElapses, findingAngle, TypeOK
  <2>10. CASE Tick \/ UNCHANGED vars
    BY <2>10 DEF Tick, vars
  <2> QED
    BY <2>1, <2>2, <2>3, <2>4, <2>5, <2>6, <2>7, <2>8, <2>9, <2>10
    DEF Next, AppTask, ReceivePacket, LaunchCommand, FollowTheWall
<1> QED BY <1>1, <1>2

\* No interleaving of the application, the callback and the commands leaves the
\* return's wall follower without the timer that ends it.
THEOREM AngleTimerNeverLost == Spec => []WallFollowerHasTimer
<1>1. ReturnInv => WallFollowerHasTimer
  BY DEF ReturnInv
<1> QED BY <1>1, TypeInduction, ReturnInduction, PTL DEF Spec

\* A return on command flies straight only after it has looked ahead.
THEOREM CommandedReturnIsChecked == Spec => []CommandedReturnLooksFirst
<1>1. ReturnInv => CommandedReturnLooksFirst
  BY DEF ReturnInv, CommandedReturnLooksFirst, Returning
<1> QED BY <1>1, TypeInduction, ReturnInduction, PTL DEF Spec

\* Every way into an exploration or a return opens the hand lock, and only a
\* hand closes it.
LEMMA LockInduction ==
    /\ Init => LockInv
    /\ TypeOK /\ LockInv /\ [Next]_vars => LockInv'
<1>1. Init => LockInv
  BY DEF Init, LockInv
<1>2. TypeOK /\ LockInv /\ [Next]_vars => LockInv'
  <2> SUFFICES ASSUME TypeOK, LockInv, [Next]_vars PROVE LockInv'
    OBVIOUS
  <2> USE DEF LockInv, history
  <2>1. CASE VerifyCrash \/ NoCommand \/ OnTakeOff \/ OnLanding
    BY <2>1 DEF VerifyCrash, NoCommand, OnTakeOff, OnLanding
  <2>2. CASE OnExploration \/ OnReturnToBase
    BY <2>2 DEF OnExploration, OnReturnToBase, EnterPrepareExploration
  <2>3. CASE PrepareExploration
    BY <2>3 DEF PrepareExploration
  <2>4. CASE NothingToLaunch \/ TakeOff \/ Landing \/ Exploration
    BY <2>4 DEF NothingToLaunch, TakeOff, Landing, Exploration
  <2>5. CASE ReturnToBase
    BY <2>5 DEF ReturnToBase, VerifyDistanceToBase, FindAngleState, TurnToAngleState,
                VerifyWayAheadState, GoStraightToBaseState, ReInitWallFollowerState,
                ReturnByWall, Returning, Store
  <2>6. CASE FollowUnlocked
    BY <2>6 DEF FollowUnlocked, TypeOK
  <2>7. CASE FollowLocked
    BY <2>7 DEF FollowLocked, TypeOK
  <2>8. CASE StoreReturnState
    BY <2>8 DEF StoreReturnState
  <2>9. CASE TimerTask \/ Tick \/ UNCHANGED vars
    BY <2>9 DEF TimerTask, AnglePeriodElapses, findingAngle, Tick, vars
  <2> QED
    BY <2>1, <2>2, <2>3, <2>4, <2>5, <2>6, <2>7, <2>8, <2>9
    DEF Next, AppTask, ReceivePacket, LaunchCommand, FollowTheWall
<1> QED BY <1>1, <1>2

\* A mission under way never waits to be unlocked by hand.
THEOREM MissionAlwaysUnlocked == Spec => []MissionIsUnlocked
<1>1. LockInv => MissionIsUnlocked
  BY DEF LockInv, MissionIsUnlocked
<1> QED BY <1>1, TypeInduction, LockInduction, PTL DEF Spec

\* No step lengthens an exploration under way.
THEOREM MissionLengthIsFixed == Spec => MissionNotExtended
<1>1. TypeOK /\ [Next]_vars =>
        [state = "EXPLORATION" /\ state' = "EXPLORATION"
           => elapsed' >= elapsed /\ UNCHANGED estimatedTimeForMission]_vars
  <2> SUFFICES ASSUME TypeOK, [Next]_vars, state = "EXPLORATION", state' = "EXPLORATION"
               PROVE  elapsed' >= elapsed /\ UNCHANGED estimatedTimeForMission
    OBVIOUS
  <2>0. elapsed \in Int
    BY ChargeAssumption DEF TypeOK, MaxElapsed
  <2>1. CASE UNCHANGED missionVars
    BY <2>0, <2>1 DEF missionVars
  <2>2. CASE Tick
    BY <2>0, <2>2 DEF Tick
  <2>3. AppTask => UNCHANGED missionVars
    BY DEF AppTask, VerifyCrash, ReceivePacket, NoCommand, OnTakeOff, OnLanding,
           OnExploration, setTimeForLowBattery, OnReturnToBase, PrepareExploration,
           LaunchCommand, NothingToLaunch, TakeOff, Landing, Exploration, ReturnToBase,
           VerifyDistanceToBase, FindAngleState, TurnToAngleState, VerifyWayAheadState,
           GoStraightToBaseState, ReInitWallFollowerState, ReturnByWall, FollowTheWall,
           FollowUnlocked, FollowLocked, StoreReturnState
  <2>4. TimerTask \/ UNCHANGED vars => UNCHANGED missionVars
    BY DEF TimerTask, AnglePeriodElapses, findingAngle, vars
  <2> QED BY <2>1, <2>2, <2>3, <2>4 DEF Next
<1> QED BY <1>1, TypeInduction, PTL DEF Spec, MissionNotExtended

\* The safety part of ImplementsMode: the mission state starts at rest, and
\* every step is one of the mode changes the protocol allows, or none.
THEOREM ModeChangesAllowed == Init /\ [][Next]_vars => Mode!Init /\ [][Mode!Next]_state
<1>1. Init => Mode!Init
  BY DEF Init, Mode!Init
<1>2. TypeOK /\ [Next]_vars => [Mode!Next]_state
  <2> SUFFICES ASSUME TypeOK, [Next]_vars PROVE Mode!Next \/ UNCHANGED state
    OBVIOUS
  <2> USE DEF Mode!Next
  <2>1. CASE VerifyCrash
    BY <2>1 DEF VerifyCrash, Mode!Crash, Mode!Recover
  <2>2. CASE OnTakeOff
    BY <2>2 DEF OnTakeOff, Mode!CommandTakeOff
  <2>3. CASE OnLanding
    BY <2>3 DEF OnLanding, Mode!CommandLanding, Mode!Finish
  <2>4. CASE OnExploration \/ OnReturnToBase
    BY <2>4 DEF OnExploration, OnReturnToBase, Mode!CommandExploration, Mode!CommandReturn
  <2>5. CASE TakeOff \/ Landing
    BY <2>5 DEF TakeOff, Landing, Mode!Finish
  <2>6. CASE Exploration
    BY <2>6 DEF Exploration, Mode!TurnHome
  <2>7. CASE VerifyDistanceToBase \/ GoStraightToBaseState
    BY <2>7 DEF VerifyDistanceToBase, GoStraightToBaseState, Returning, Mode!Arrive
  <2>8. CASE NoCommand \/ PrepareExploration \/ NothingToLaunch \/ FollowTheWall \/ StoreReturnState
    BY <2>8 DEF NoCommand, PrepareExploration, NothingToLaunch, FollowTheWall,
                FollowUnlocked, FollowLocked, StoreReturnState
  <2>9. CASE FindAngleState \/ TurnToAngleState \/ VerifyWayAheadState
               \/ ReInitWallFollowerState \/ ReturnByWall
    BY <2>9 DEF FindAngleState, TurnToAngleState, VerifyWayAheadState,
                ReInitWallFollowerState, ReturnByWall
  <2>10. CASE TimerTask \/ Tick \/ UNCHANGED vars
    BY <2>10 DEF TimerTask, AnglePeriodElapses, findingAngle, Tick, vars
  <2> QED
    BY <2>1, <2>2, <2>3, <2>4, <2>5, <2>6, <2>7, <2>8, <2>9, <2>10
    DEF Next, AppTask, ReceivePacket, LaunchCommand, ReturnToBase
<1> QED BY <1>1, <1>2, TypeInduction, PTL
=============================================================================
