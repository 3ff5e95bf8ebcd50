-------------------------- MODULE Commander_proofs --------------------------
(* Theorems about Commander, for any set of sources and any timeouts.       *)
EXTENDS Commander, TLAPS

USE SourceAssumption, PriorityAssumption, TimeAssumption, HealthAssumption

LEMMA LaterType == ASSUME NEW t \in 0..MaxAge PROVE Later(t) \in 0..MaxAge
BY DEF MaxAge, Later

LEMMA TimeSetbackType ==
    ASSUME NEW r \in Nat, now \in 0..MaxAge PROVE TimeSetback(r) \in 0..MaxAge
BY DEF TimeSetback, MaxAge

LEMMA InitTypes == Init => TypeOK
<1> SUFFICES ASSUME Init PROVE TypeOK
  OBVIOUS
<1>1. /\ age \in 0..MaxAge /\ now \in 0..MaxAge /\ promise \in Nat
      /\ setback \in 0..MaxAge /\ remain \in Nat
  BY DEF Init, MaxAge
<1>2. /\ pc \in [Source -> {"idle", "overwrite", "claim", "stop", "peek", "restore", "tell"}]
      /\ held \in [Source -> 0..MaxAge]
  BY DEF Init, MaxAge
<1>3. QED
  BY <1>1, <1>2 DEF Init, TypeOK

LEMMA SetSetpointTypes ==
    ASSUME TypeOK, NEW s \in Source, SetSetpoint(s) PROVE TypeOK'
<1>1. 0 \in 0..MaxAge
  BY DEF MaxAge
<1>2. CASE PeekPriority(s)
  BY <1>2 DEF TypeOK, PeekPriority, Goto, queueVars, stopVars, planVars
<1>3. CASE OverwriteSetpoint(s)
  <2>1. held[s] \in 0..MaxAge /\ 0 \in 0..MaxAge
    BY <1>1 DEF TypeOK
  <2>2. age' \in 0..MaxAge
    BY <1>3, <2>1 DEF OverwriteSetpoint, MaxAge
  <2>3. QED
    BY <1>3, <2>1, <2>2 DEF TypeOK, OverwriteSetpoint, Goto, stopVars
<1>4. CASE OverwritePriority(s)
  BY <1>4 DEF TypeOK, OverwritePriority, Goto, stopVars, planVars
<1>5. CASE StopHighLevel(s)
  BY <1>5 DEF TypeOK, StopHighLevel, StopPlan, Goto, queueVars, stopVars
<1>6. QED
  BY <1>2, <1>3, <1>4, <1>5 DEF SetSetpoint

LEMMA NotifyTypes == ASSUME TypeOK, NotifySetpointsStop PROVE TypeOK'
<1>1. CASE PeekSetpoint
  BY <1>1 DEF TypeOK, PeekSetpoint, Goto, queueVars, planVars
<1>2. CASE RestoreSetpoint
  <2>1. 0 \in 0..MaxAge
    BY DEF MaxAge
  <2>2. QED
    BY <1>2, <2>1 DEF TypeOK, RestoreSetpoint, Goto, planVars
<1>3. CASE TellState
  BY <1>3 DEF TypeOK, TellState, Goto, queueVars, stopVars
<1>4. CASE ReadTime
  <2>1. PICK t \in Remains : remain' = t /\ setback' = TimeSetback(t)
    BY <1>4 DEF ReadTime
  <2>2. remain' \in Nat /\ setback' \in 0..MaxAge
    BY <2>1, TimeSetbackType DEF TypeOK
  <2>3. QED
    BY <1>4, <2>2 DEF TypeOK, ReadTime, Goto, queueVars, planVars
<1>5. QED
  BY <1>1, <1>2, <1>3, <1>4 DEF NotifySetpointsStop

LEMMA StabilizerTypes == ASSUME TypeOK, Stabilizer PROVE TypeOK'
<1>1. CASE commanderGetSetpoint
  <2>1. output' \in Source \cup {"null", "level", "hl"}
    BY <1>1 DEF TypeOK, commanderGetSetpoint, GetSetpoint, HighLevelGetSetpoint
  <2>2. priority' \in {priorityDisable} \cup {Priority[s] : s \in Source}
    BY <1>1 DEF TypeOK, commanderGetSetpoint, GetSetpoint
  <2>3. /\ plan' \in {"IDLE", "FLYING", "LANDING"} /\ posCurrent' \in BOOLEAN
        /\ planStart' \in {"none", "current", "stale"} /\ planOld' \in BOOLEAN
    BY <1>1 DEF TypeOK, commanderGetSetpoint, GetSetpoint, HighLevelGetSetpoint, PlanNow,
                planVars
  <2>4. QED
    BY <1>1, <2>1, <2>2, <2>3 DEF TypeOK, commanderGetSetpoint, GetSetpoint, callVars,
        stopVars
<1>2. CASE HealthTest
  BY <1>2 DEF TypeOK, HealthTest, queueVars, callVars, stopVars, planVars
<1>3. QED
  BY <1>1, <1>2 DEF Stabilizer

LEMMA HighLevelTypes == ASSUME TypeOK, HighLevel PROVE TypeOK'
BY ZenonT(30)
   DEF TypeOK, HighLevel, takeoff, land, go_to, start_trajectory, stop, SetEnableHighLevel,
       StartPlan, StopPlan, PlanFrom, queueVars, callVars, stopVars, planVars

LEMMA TickTypes == ASSUME TypeOK, Tick PROVE TypeOK'
<1>1. age' \in 0..MaxAge /\ now' \in 0..MaxAge
  BY LaterType DEF TypeOK, Tick
<1>2. promise' \in Nat /\ remain' \in Nat
  BY DEF TypeOK, Tick, Less
<1>3. polled' \in {"no", "commander", "health"}
  BY DEF Tick
<1>4. UNCHANGED <<owner, priority, pc, tempOwner, output, plan, enableHighLevel,
                  posCurrent, planStart, planOld>>
  BY DEF Tick, planVars
<1>5. 0 \in 0..MaxAge
  BY DEF MaxAge
<1>6. held' \in [Source -> 0..MaxAge] /\ setback' \in 0..MaxAge
  BY <1>5, LaterType DEF TypeOK, Tick
<1>7. QED
  BY <1>1, <1>2, <1>3, <1>4, <1>6 DEF TypeOK

LEMMA TypesPreserved == TypeOK /\ [Next]_vars => TypeOK'
<1>1. ASSUME TypeOK, UNCHANGED vars PROVE TypeOK'
  BY <1>1 DEF TypeOK, vars, queueVars, callVars, stopVars, planVars
<1>2. QED
  BY <1>1, SetSetpointTypes, NotifyTypes, StabilizerTypes, HighLevelTypes, TickTypes DEF Next

(* The variables of the commander keep their types.                          *)
THEOREM TypeCorrect == Spec => []TypeOK
<1>1. Init => TypeOK
  BY InitTypes
<1>2. TypeOK /\ [Next]_vars => TypeOK'
  BY TypesPreserved
<1>3. QED
  BY <1>1, <1>2, PTL DEF Spec

----------------------------------------------------------------------------

(* Only a source between its two queue writes and the end of its call leaves *)
(* a plan older than the setpoint: whoever moves on keeps some witness, or   *)
(* stops the plan.                                                           *)
LEMMA StalePreserved == TypeOK /\ NoStalePlan /\ [Next]_vars => NoStalePlan'
<1> SUFFICES ASSUME TypeOK, NoStalePlan, [Next]_vars, planOld' PROVE NoStalePlan'
  BY DEF NoStalePlan
<1>1. ASSUME NEW s \in Source, SetSetpoint(s) PROVE NoStalePlan'
  <2>1. CASE PeekPriority(s)
    BY <2>1 DEF PeekPriority, Goto, planVars, NoStalePlan, TypeOK
  <2>2. CASE OverwriteSetpoint(s)
    BY <2>2 DEF OverwriteSetpoint, Goto, NoStalePlan, TypeOK
  <2>3. CASE OverwritePriority(s)
    BY <2>3 DEF OverwritePriority, Goto, planVars, NoStalePlan, TypeOK
  <2>4. CASE StopHighLevel(s)
    BY <2>4 DEF StopHighLevel, StopPlan, NoStalePlan
  <2>5. QED
    BY <1>1, <2>1, <2>2, <2>3, <2>4 DEF SetSetpoint
<1>2. ASSUME NotifySetpointsStop PROVE NoStalePlan'
  <2>1. planOld /\ pc[Radio] \in {"idle", "peek", "restore", "tell"}
    BY <1>2 DEF NotifySetpointsStop, ReadTime, PeekSetpoint, RestoreSetpoint, TellState, planVars
  <2>2. PICK t \in Source : pc[t] \in {"claim", "stop"}
    BY <2>1 DEF NoStalePlan
  <2>3. pc'[t] = pc[t]
    BY <1>2, <2>1, <2>2 DEF NotifySetpointsStop, ReadTime, PeekSetpoint, RestoreSetpoint, TellState,
                            Goto, TypeOK
  <2>4. QED
    BY <2>2, <2>3 DEF NoStalePlan
<1>3. ASSUME HighLevel PROVE NoStalePlan'
  BY <1>3 DEF HighLevel, takeoff, land, go_to, start_trajectory, stop, SetEnableHighLevel,
              StartPlan, StopPlan, callVars, stopVars, planVars, NoStalePlan
<1>4. ASSUME Stabilizer PROVE NoStalePlan'
  BY <1>4 DEF Stabilizer, commanderGetSetpoint, GetSetpoint, HighLevelGetSetpoint, HealthTest,
              callVars, stopVars, planVars, NoStalePlan
<1>5. ASSUME Tick PROVE NoStalePlan'
  BY <1>5 DEF Tick, callVars, stopVars, planVars, NoStalePlan
<1>6. ASSUME UNCHANGED vars PROVE NoStalePlan'
  BY <1>6 DEF vars, callVars, stopVars, planVars, NoStalePlan
<1>7. QED
  BY <1>1, <1>2, <1>3, <1>4, <1>5, <1>6 DEF Next

(* A plan that a setpoint has superseded is never left running once the      *)
(* calls that accepted setpoints are over.                                   *)
THEOREM SupersededPlanIsStopped == Spec => []NoStalePlan
<1>1. Init => NoStalePlan
  BY DEF Init, NoStalePlan
<1>2. QED
  BY <1>1, TypeCorrect, StalePreserved, PTL DEF Spec

----------------------------------------------------------------------------

(* What a call that has read the time is about to promise can be kept, too.  *)
PromiseInv == NotifyKeepsSetpoint /\ (remain > 0 => setback + remain <= Shutdown)

LEMMA PromisePreserved ==
    ASSUME Remains \subseteq 0..Shutdown
    PROVE  TypeOK /\ PromiseInv /\ [Next]_vars => PromiseInv'
<1> SUFFICES ASSUME TypeOK, PromiseInv, [Next]_vars PROVE PromiseInv'
  OBVIOUS
<1>1. age \in Nat /\ now \in Nat /\ promise \in Nat /\ remain \in Nat /\ setback \in Nat
  BY DEF TypeOK, MaxAge
<1>2. ASSUME RestoreSetpoint PROVE PromiseInv'
  BY <1>1, <1>2 DEF RestoreSetpoint, NotifyKeepsSetpoint, PromiseInv
<1>3. ASSUME Tick PROVE PromiseInv'
  <2>1. NotifyKeepsSetpoint'
    BY <1>1, <1>3 DEF Tick, Later, Less, MaxAge, NotifyKeepsSetpoint, PromiseInv
  <2>2. setback' <= setback + 1 /\ remain' = Less(remain)
    BY <1>1, <1>3 DEF Tick, Later
  <2>3. remain' > 0 => setback' + remain' <= Shutdown
    BY <1>1, <1>3, <2>2 DEF Tick, Later, Less, PromiseInv
  <2>4. QED
    BY <2>1, <2>3 DEF PromiseInv
<1>4. ASSUME NEW s \in Source, OverwriteSetpoint(s) PROVE PromiseInv'
  BY <1>1, <1>4 DEF OverwriteSetpoint, stopVars, NotifyKeepsSetpoint, PromiseInv
<1>5. ASSUME ReadTime PROVE PromiseInv'
  <2>1. PICK t \in Remains : remain' = t /\ setback' = TimeSetback(t)
    BY <1>5 DEF ReadTime
  <2>2. t \in 0..Shutdown /\ TimeSetback(t) <= Shutdown - t
    BY <1>1, <2>1 DEF TimeSetback
  <2>3. setback' + remain' <= Shutdown
    BY <1>1, <2>1, <2>2 DEF TimeSetback
  <2>4. QED
    BY <1>5, <2>3 DEF ReadTime, queueVars, NotifyKeepsSetpoint, PromiseInv
<1>6. ASSUME UNCHANGED <<age, promise, setback, remain>> PROVE PromiseInv'
  BY <1>6 DEF NotifyKeepsSetpoint, PromiseInv
<1>7. ASSUME NEW s \in Source, SetSetpoint(s) PROVE PromiseInv'
  BY <1>4, <1>6, <1>7 DEF SetSetpoint, PeekPriority, OverwritePriority, StopHighLevel, queueVars,
                         stopVars
<1>8. ASSUME NotifySetpointsStop PROVE PromiseInv'
  BY <1>2, <1>5, <1>6, <1>8 DEF NotifySetpointsStop, PeekSetpoint, TellState, queueVars, stopVars
<1>9. ASSUME HighLevel PROVE PromiseInv'
  BY <1>6, <1>9 DEF HighLevel, takeoff, land, go_to, start_trajectory, stop,
                    SetEnableHighLevel, StartPlan, queueVars, callVars, stopVars
<1>10. ASSUME Stabilizer PROVE PromiseInv'
  BY <1>6, <1>10 DEF Stabilizer, commanderGetSetpoint, GetSetpoint, HealthTest, queueVars,
                     callVars, stopVars
<1>11. QED
  BY <1>3, <1>6, <1>7, <1>8, <1>9, <1>10 DEF Next, vars, queueVars, callVars, stopVars

(* As long as clients ask for no more than the shutdown time, a setpoint is  *)
(* valid for as long as they were promised, wherever the call is held up.    *)
THEOREM PromisedValidity ==
    ASSUME Remains \subseteq 0..Shutdown PROVE Spec => []NotifyKeepsSetpoint
<1>1. Init => PromiseInv
  BY DEF Init, PromiseInv, NotifyKeepsSetpoint
<1>2. TypeOK /\ PromiseInv /\ [Next]_vars => PromiseInv'
  BY PromisePreserved
<1>3. PromiseInv => NotifyKeepsSetpoint
  BY DEF PromiseInv
<1>4. QED
  BY <1>1, <1>2, <1>3, TypeCorrect, PTL DEF Spec
=============================================================================
