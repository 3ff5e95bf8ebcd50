------------------------------ MODULE Commander ------------------------------
(***************************************************************************)
(* The commander of the firmware (src/modules/src/commander.c) with the    *)
(* high-level commander and its planner (crtp_commander_high_level.c,      *)
(* planner.c): several tasks hand it setpoints of different priorities and *)
(* the stabilizer asks it, once per tick, what to fly.                     *)
(*                                                                         *)
(* The setpoint and its priority are two queues of length one, so a call   *)
(* of commanderSetSetpoint is four steps that other tasks may interleave   *)
(* with, and the time stamp of its setpoint is read somewhere between the  *)
(* first two.  FreeRTOS schedules by fixed priorities: a task moves only while  *)
(* no task of a higher priority is inside a call.  The stabilizer has the  *)
(* highest priority of all, and what the high-level commander does happens *)
(* under lockTraj: each of their operations is one step.                   *)
(*                                                                         *)
(* Times are ages, saturated where no comparison can tell them apart.      *)
(***************************************************************************)
EXTENDS Integers

CONSTANTS
    Source,         \* tasks that call commanderSetSetpoint
    Priority,       \* COMMANDER_PRIORITY_* of each
    TaskPriority,   \* FreeRTOS priority of each
    Radio,          \* the source whose task also handles NotifySetpointsStop
    Stabilize,      \* COMMANDER_WDT_TIMEOUT_STABILIZE, in ticks
    Shutdown,       \* COMMANDER_WDT_TIMEOUT_SHUTDOWN, in ticks
    Remains,        \* values of remainValidMillisecs the client sends
    HealthTests     \* whether the client may start a propeller test

ASSUME SourceAssumption == /\ Radio \in Source
                           /\ "null" \notin Source /\ "level" \notin Source /\ "hl" \notin Source
ASSUME PriorityAssumption == /\ Priority \in [Source -> Nat \ {0}]
                             /\ TaskPriority \in [Source -> Nat]
ASSUME TimeAssumption == /\ Stabilize \in Nat /\ Shutdown \in Nat /\ Stabilize < Shutdown
                         /\ Remains \subseteq Nat
ASSUME HealthAssumption == HealthTests \in BOOLEAN

priorityDisable == 0

VARIABLES
    age,              \* age of the setpoint in setpointQueue
    owner,            \* who put it there, "null" for nullSetpoint
    priority,         \* priorityQueue
    pc,               \* where each source is in a call
    held,             \* ticks for which each source's call has not yet written its setpoint
    tempOwner,        \* tempSetpoint of commanderNotifySetpointsStop
    setback,          \* age of the setpoint that the call in progress will put back
    remain,           \* what is left of the time that this call asks for
    now,              \* ticks since boot
    polled,           \* whether the stabilizer has run in this tick, and what for
    output,           \* what commanderGetSetpoint gave it last
    plan,             \* planner.state
    enableHighLevel,  \* parameter commander.enHighLevel
    posCurrent,       \* the planner's last known position is the drone's
    planStart,        \* history: the position the plan in force was started from
    planOld,          \* history: a setpoint was accepted after the plan was started
    promise           \* history: ticks for which NotifySetpointsStop promised validity

queueVars == <<age, owner, priority>>
stopVars == <<tempOwner, setback, remain>>
callVars == <<pc, held, stopVars>>
planVars == <<plan, posCurrent, planStart, planOld>>
vars == <<queueVars, callVars, now, polled, output, planVars, enableHighLevel, promise>>

MaxAge == Shutdown + 1
Later(t) == IF t < MaxAge THEN t + 1 ELSE t
Less(t) == IF t > 0 THEN t - 1 ELSE 0

MayRun(s) == \A t \in Source : TaskPriority[t] > TaskPriority[s] => pc[t] = "idle"

Goto(s, label) == pc' = [pc EXCEPT ![s] = label]

Init ==
    /\ age = 0
    /\ owner = "null"
    /\ priority = priorityDisable
    /\ pc = [s \in Source |-> "idle"]
    /\ held = [s \in Source |-> 0]
    /\ tempOwner = "null"
    /\ setback = 0
    /\ remain = 0
    /\ now = 0
    /\ polled = "no"
    /\ output = "null"
    /\ plan = "IDLE"
    /\ enableHighLevel = FALSE
    /\ posCurrent = TRUE
    /\ planStart = "none"
    /\ planOld = FALSE
    /\ promise = 0

----------------------------------------------------------------------------
(* commanderSetSetpoint. *)

Admits(s) == Priority[s] >= priority

PeekPriority(s) ==
    /\ pc[s] = "idle"
    /\ MayRun(s)
    /\ Admits(s)
    /\ Goto(s, "overwrite")
    /\ UNCHANGED <<queueVars, held, stopVars, now, polled, output, planVars,
                   enableHighLevel, promise>>

\* Its time stamp is of some moment since the priority was read.
OverwriteSetpoint(s) ==
    /\ pc[s] = "overwrite"
    /\ MayRun(s)
    /\ Goto(s, "claim")
    /\ age' \in 0..held[s]
    /\ held' = [held EXCEPT ![s] = 0]
    /\ owner' = s
    /\ planOld' = (plan # "IDLE")
    /\ promise' = 0
    /\ UNCHANGED <<priority, stopVars, now, polled, output, plan, posCurrent,
                   planStart, enableHighLevel>>

OverwritePriority_NoStop(s) ==   \* mutant: crtpCommanderHighLevelStop is not called
    /\ pc[s] = "claim"
    /\ MayRun(s)
    /\ Goto(s, "idle")
    /\ priority' = Priority[s]
    /\ UNCHANGED <<age, owner, held, stopVars, now, polled, output, planVars,
                   enableHighLevel, promise>>

OverwritePriority(s) ==
    /\ pc[s] = "claim"
    /\ MayRun(s)
    /\ Goto(s, "stop")
    /\ priority' = Priority[s]
    /\ UNCHANGED <<age, owner, held, stopVars, now, polled, output, planVars,
                   enableHighLevel, promise>>

\* plan_stop
StopPlan ==
    /\ plan' = "IDLE"
    /\ planStart' = "none"
    /\ planOld' = FALSE

StopHighLevel(s) ==
    /\ pc[s] = "stop"
    /\ MayRun(s)
    /\ Goto(s, "idle")
    /\ StopPlan
    /\ UNCHANGED <<queueVars, held, stopVars, now, polled, output, posCurrent,
                   enableHighLevel, promise>>

----------------------------------------------------------------------------
(* commanderNotifySetpointsStop, in the task that receives from the radio. *)

TimeSetback_Off(r) ==   \* mutant: one tick too old
    IF r <= Shutdown /\ Shutdown - r + 1 <= now THEN Shutdown - r + 1 ELSE now

TimeSetback_Adds(r) == Shutdown + r   \* mutant: added, and not bounded by the time since boot

\* MIN(Shutdown - remain, currentTime) in unsigned arithmetic: a remain above
\* Shutdown wraps round to a huge number and the time since boot is the minimum.
TimeSetback(r) ==
    IF r <= Shutdown /\ Shutdown - r <= now THEN Shutdown - r ELSE now

ReadTime ==
    /\ pc[Radio] = "idle"
    /\ MayRun(Radio)
    /\ Goto(Radio, "peek")
    /\ \E r \in Remains : remain' = r /\ setback' = TimeSetback(r)
    /\ UNCHANGED <<queueVars, held, tempOwner, now, polled, output, planVars,
                   enableHighLevel, promise>>

PeekSetpoint ==
    /\ pc[Radio] = "peek"
    /\ MayRun(Radio)
    /\ Goto(Radio, "restore")
    /\ tempOwner' = owner
    /\ UNCHANGED <<queueVars, held, setback, remain, now, polled, output, planVars,
                   enableHighLevel, promise>>

RestoreSetpoint ==
    /\ pc[Radio] = "restore"
    /\ MayRun(Radio)
    /\ Goto(Radio, "tell")
    /\ owner' = tempOwner
    /\ age' = setback
    /\ promise' = remain
    /\ tempOwner' = "null"
    /\ setback' = 0
    /\ remain' = 0
    /\ UNCHANGED <<priority, held, now, polled, output, planVars, enableHighLevel>>

\* crtpCommanderHighLevelTellState(&lastState)
TellState ==
    /\ pc[Radio] = "tell"
    /\ MayRun(Radio)
    /\ Goto(Radio, "idle")
    /\ posCurrent' = TRUE
    /\ UNCHANGED <<queueVars, held, stopVars, now, polled, output, plan, planStart,
                   planOld, enableHighLevel, promise>>

----------------------------------------------------------------------------
(* The stabilizer. *)

\* A landing that is over stops the planner when it is next evaluated.
PlanNow(p) == IF p = "LANDING" THEN {"LANDING", "IDLE"} ELSE {p}

HighLevelGetSetpoint ==
    /\ plan' \in PlanNow(plan)
    /\ posCurrent' = TRUE
    /\ planStart' = IF plan' = "IDLE" THEN "none" ELSE planStart
    /\ planOld' = (planOld /\ plan' # "IDLE")
    /\ output' = IF plan' = "IDLE" THEN "null" ELSE "hl"

GetSetpoint_KeepsPriority ==   \* mutant: the priority is not given back
    /\ output' = IF age > Shutdown THEN "null" ELSE IF age > Stabilize THEN "level" ELSE owner
    /\ polled' = "commander"
    /\ UNCHANGED <<queueVars, callVars, now, planVars, enableHighLevel, promise>>

GetSetpoint ==
    /\ \/ /\ age > Shutdown
          /\ IF enableHighLevel
               THEN HighLevelGetSetpoint
               ELSE output' = "null" /\ UNCHANGED planVars
          /\ UNCHANGED priority
       \/ /\ age > Stabilize /\ age <= Shutdown
          /\ priority' = priorityDisable
          /\ output' = "level"
          /\ posCurrent' = (posCurrent /\ owner = "null")
          /\ UNCHANGED <<plan, planStart, planOld>>
       \/ /\ age <= Stabilize
          /\ output' = owner
          /\ posCurrent' = (posCurrent /\ owner = "null")
          /\ UNCHANGED <<priority, plan, planStart, planOld>>
    /\ polled' = "commander"
    /\ UNCHANGED <<age, owner, callVars, now, enableHighLevel, promise>>

commanderGetSetpoint ==
    /\ polled = "no"
    /\ GetSetpoint

\* healthShallWeRunTest(): this iteration does not ask the commander.
HealthTest ==
    /\ HealthTests
    /\ polled = "no"
    /\ polled' = "health"
    /\ UNCHANGED <<queueVars, callVars, now, output, planVars, enableHighLevel, promise>>

\* The stabilizer loop runs once per tick.
Tick ==
    /\ polled # "no"
    /\ polled' = "no"
    /\ age' = Later(age)
    /\ now' = Later(now)
    /\ held' = [s \in Source |-> IF pc[s] = "overwrite" THEN Later(held[s]) ELSE 0]
    /\ setback' = IF pc[Radio] \in {"peek", "restore"} THEN Later(setback) ELSE 0
    /\ remain' = Less(remain)
    /\ promise' = Less(promise)
    /\ UNCHANGED <<owner, priority, pc, tempOwner, output, planVars, enableHighLevel>>

----------------------------------------------------------------------------
(* Commands to the high-level commander, from its CRTP task or the app.    *)
(* One that is not for this drone's group, or that names an undefined      *)
(* trajectory, changes nothing.                                            *)

StartPlan(p) ==
    /\ plan' = p
    /\ planOld' = FALSE
    /\ UNCHANGED <<queueVars, callVars, now, polled, output, posCurrent, enableHighLevel, promise>>

PlanFrom == IF posCurrent THEN "current" ELSE "stale"

takeoff ==
    /\ plan = "IDLE"
    /\ planStart' = PlanFrom
    /\ StartPlan("FLYING")

land ==
    /\ plan # "LANDING"
    /\ planStart' = PlanFrom
    /\ StartPlan("LANDING")

\* From the last known position when stopped, else from the current goal.
go_to ==
    /\ planStart' = IF plan = "IDLE" THEN PlanFrom ELSE planStart
    /\ StartPlan("FLYING")

start_trajectory ==
    /\ planStart' = PlanFrom
    /\ StartPlan("FLYING")

stop ==
    /\ StopPlan
    /\ UNCHANGED <<queueVars, callVars, now, polled, output, posCurrent, enableHighLevel, promise>>

SetEnableHighLevel ==
    /\ enableHighLevel' \in BOOLEAN
    /\ UNCHANGED <<queueVars, callVars, now, polled, output, planVars, promise>>

----------------------------------------------------------------------------
SetSetpoint(s) ==
    PeekPriority(s) \/ OverwriteSetpoint(s) \/ OverwritePriority(s) \/ StopHighLevel(s)

NotifySetpointsStop == ReadTime \/ PeekSetpoint \/ RestoreSetpoint \/ TellState

HighLevel == takeoff \/ land \/ go_to \/ start_trajectory \/ stop \/ SetEnableHighLevel

Stabilizer == commanderGetSetpoint \/ HealthTest

Next == (\E s \in Source : SetSetpoint(s)) \/ NotifySetpointsStop \/ HighLevel
          \/ Stabilizer \/ Tick

\* The stabilizer and the tick never stop; a task inside a call goes on.
Fairness ==
    /\ WF_vars(Stabilizer) /\ WF_vars(Tick)
    /\ \A s \in Source :
         WF_vars(OverwriteSetpoint(s) \/ OverwritePriority(s) \/ StopHighLevel(s))
    /\ WF_vars(PeekSetpoint \/ RestoreSetpoint \/ TellState)

Spec == Init /\ [][Next]_vars /\ Fairness

----------------------------------------------------------------------------
(* Properties. *)

\* Types of all the variables.
TypeOK ==
    /\ age \in 0..MaxAge
    /\ owner \in Source \cup {"null"}
    /\ priority \in {priorityDisable} \cup {Priority[s] : s \in Source}
    /\ pc \in [Source -> {"idle", "overwrite", "claim", "stop", "peek", "restore", "tell"}]
    /\ held \in [Source -> 0..MaxAge]
    /\ tempOwner \in Source \cup {"null"}
    /\ setback \in 0..MaxAge
    /\ remain \in Nat
    /\ now \in 0..MaxAge
    /\ polled \in {"no", "commander", "health"}
    /\ output \in Source \cup {"null", "level", "hl"}
    /\ plan \in {"IDLE", "FLYING", "LANDING"}
    /\ enableHighLevel \in BOOLEAN
    /\ posCurrent \in BOOLEAN
    /\ planStart \in {"none", "current", "stale"}
    /\ planOld \in BOOLEAN
    /\ promise \in Nat

\* commander.c:84-86: the planner forgets its state when a setpoint is accepted.
\* A plan older than the setpoint in the queue is on its way out: some source
\* is still inside the call that stops it, whatever the interleaving.
NoStalePlan ==
    planOld => \E s \in Source : pc[s] \in {"claim", "stop"}

\* commander.h:47-50 and commander.c:93-99: the setpoint that
\* NotifySetpointsStop put back stays valid for all the time the client asked
\* for, however long the call is held up before it does, until another setpoint
\* takes its place.
NotifyKeepsSetpoint == promise > 0 => age + promise <= Shutdown

CallsArePrompt == \A s \in Source : pc[s] = "claim" => age <= Stabilize

\* No iteration between the two timeouts is given to a propeller test, and no
\* client ends its setpoints at once, or by a call that is held up for all the
\* time it asks for: the stabilizer sees them run out.
RunsOutInSight ==
    /\ polled = "health" => age <= Stabilize \/ age > Shutdown
    /\ pc[Radio] = "restore" => remain > 0

\* commander.c:116-117: when setpoints stop coming their source gives up its
\* priority, so that a source of a lower one can take over; provided no call is
\* held up for half a second between the time stamp and the second queue.
PriorityReleased ==
    [](CallsArePrompt /\ RunsOutInSight) => []<>(age <= Stabilize \/ priority = priorityDisable)

----------------------------------------------------------------------------
(* What the comments of the code say and the code does not do. *)

\* commander.h:48: the parameter controls the time the last setpoint remains
\* valid, that is, the watchdog does not shut down before it.
RemainsValid == promise > 0 => age <= Shutdown

\* commander.c:81: the race of the two queues has no effect, that is, once the
\* calls are over the priority is that of the setpoint that is flown.
RaceHasNoEffect ==
    (\A s \in Source : pc[s] = "idle") /\ owner # "null" /\ age <= Stabilize
      => priority = Priority[owner]

\* crtp_commander_high_level.c:300: on the ground the last setpoint is updated
\* with the current state estimate, so a plan starts where the drone is.
PlansStartAtTheDrone == planStart # "stale"
=============================================================================
