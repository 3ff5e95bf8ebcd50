---------------------------- MODULE LedSequence ----------------------------
(* The sequences of one LED (hal/src/ledseq.c), run by the callback of a      *)
(* software timer and by the tasks that start and stop them: the task that    *)
(* serves the queue of commands, of the timer's own priority, and the power   *)
(* management, of a lower one. ledseqMutex covers the writes, but not what    *)
(* runLedseq reads before it takes it. What waits in the queue is arbitrary.  *)
EXTENDS Integers, Sequences

CONSTANTS
    Caller,     \* the tasks that call ledseqRunBlocking and ledseqStopBlocking
    Timer,      \* the task of the timers
    Sequence    \* the LED's sequences by priority, each a list of steps [value, action]

\* Parts, which instantiates the module, asserts it.
SequenceAssumption ==
    /\ Timer \notin Caller
    /\ \A c \in DOMAIN Sequence :
         /\ Len(Sequence[c]) \in Nat
         /\ \A k \in 1..Len(Sequence[c]) :
              /\ Sequence[c][k].value \in BOOLEAN
              /\ Sequence[c][k].action \in {"wait", "now", "LOOP", "STOP"}
              /\ Sequence[c][k].action \in {"LOOP", "STOP"} <=> k = Len(Sequence[c])

VARIABLES
    state,      \* of each sequence: its next step, or Stopped
    activeSeq, led,
    holder,     \* of ledseqMutex
    armed,      \* the LED's timer
    task        \* where each task is in its call, with the context and step it has read

vars == <<state, activeSeq, led, holder, armed, task>>

Task == Caller \cup {Timer}
Context == DOMAIN Sequence
Stopped == 0
NoContext == 0
Free == "nobody"

Runnable == {c \in Context : state[c] # Stopped}
First(c) ==
    \/ c = NoContext /\ Runnable = {}
    \/ c \in Runnable /\ \A d \in Runnable : c <= d

\* A task that counts a sequence past the end of its table reads whatever lies there.
PastEnd(c) == Len(Sequence[c]) + 1
Following(c) == IF state[c] < PastEnd(c) THEN state[c] + 1 ELSE PastEnd(c)

StepOf(c, k) ==
    IF k < PastEnd(c) THEN {Sequence[c][k]}
    ELSE [value : BOOLEAN, action : {"wait", "now", "LOOP", "STOP"}]

Idle == [at |-> "idle", context |-> NoContext, step |-> Stopped]
Goto(p, place, c) == task' = [task EXCEPT ![p] = [at |-> place, context |-> c, step |-> Stopped]]
Return(p) == task' = [task EXCEPT ![p] = Idle]

----------------------------------------------------------------------------
Init ==
    /\ state = [c \in Context |-> Stopped] /\ activeSeq = NoContext /\ led = FALSE
    /\ holder = Free /\ armed = FALSE
    /\ task = [p \in Task |-> Idle]

\* updateActive, whose first assignment everyone may see. The LED is off until a step sets it.
Deactivate_KeepsLed(p) == activeSeq' = NoContext /\ led' = led /\ holder' = p   \* mutant: left as it is
Deactivate(p) == activeSeq' = NoContext /\ led' = FALSE /\ holder' = p

UpdateActive(p, place, next) ==
    /\ holder = p /\ task[p].at = place
    /\ activeSeq' \in {c \in Context \cup {NoContext} : First(c)}
    /\ holder' = Free
    /\ Goto(p, next, task[p].context)
    /\ UNCHANGED <<state, led, armed>>

\* ledseqRunBlocking and ledseqStopBlocking.
Mark(p, c, first, place) ==
    /\ task[p] = Idle /\ holder = Free
    /\ state' = [state EXCEPT ![c] = first]
    /\ Deactivate(p)
    /\ Goto(p, place, c)
    /\ UNCHANGED armed

Run(p, c) == Mark(p, c, 1, "run")
Stop(p, c) == Mark(p, c, Stopped, "stop")

RunFirst(p) ==
    /\ task[p].at = "started"
    /\ IF activeSeq = task[p].context THEN Goto(p, "enter", NoContext) ELSE Return(p)
    /\ UNCHANGED <<state, activeSeq, led, holder, armed>>

Fire ==
    /\ armed /\ task[Timer] = Idle
    /\ armed' = FALSE
    /\ Goto(Timer, "enter", NoContext)
    /\ UNCHANGED <<state, activeSeq, led, holder>>

----------------------------------------------------------------------------
\* runLedseq: which sequence, which step, both without the lock; then the step under it.
Enter(p) ==
    /\ task[p].at = "enter"
    /\ IF activeSeq = NoContext THEN Return(p) ELSE Goto(p, "test", activeSeq)
    /\ UNCHANGED <<state, activeSeq, led, holder, armed>>

Test(p) ==
    LET c == task[p].context IN
    /\ task[p].at = "test"
    /\ task' = [task EXCEPT ![p] = IF state[c] = Stopped THEN Idle
                                   ELSE [at |-> "step", context |-> c, step |-> state[c]]]
    /\ UNCHANGED <<state, activeSeq, led, holder, armed>>

Set(p, c, value, action) ==
    /\ state' = [state EXCEPT ![c] = Following(c)]
    /\ led' = value
    /\ armed' = (armed \/ action = "wait")
    /\ IF action = "wait" THEN Return(p) ELSE Goto(p, "test", c)
    /\ UNCHANGED <<activeSeq, holder>>

Loop(p, c) ==
    /\ state' = [state EXCEPT ![c] = 1]
    /\ Goto(p, "test", c)
    /\ UNCHANGED <<activeSeq, led, holder, armed>>

End(p, c) ==
    /\ state' = [state EXCEPT ![c] = Stopped]
    /\ Deactivate(p)
    /\ Goto(p, "end", c)
    /\ UNCHANGED armed

Step(p) ==
    LET c == task[p].context IN
    /\ task[p].at = "step" /\ holder = Free
    /\ \E s \in StepOf(c, task[p].step) :
         \/ s.action \in {"wait", "now"} /\ Set(p, c, s.value, s.action)
         \/ s.action = "LOOP" /\ Loop(p, c)
         \/ s.action = "STOP" /\ End(p, c)

Next ==
    \/ \E p \in Caller, c \in Context : Run(p, c) \/ Stop(p, c)
    \/ \E p \in Caller : RunFirst(p) \/ UpdateActive(p, "run", "started") \/ UpdateActive(p, "stop", "enter")
    \/ Fire
    \/ \E p \in Task : Enter(p) \/ Test(p) \/ Step(p) \/ UpdateActive(p, "end", "test")

Spec == Init /\ [][Next]_vars

----------------------------------------------------------------------------
TaskOK ==
    /\ task \in [Task -> [at : {"idle", "run", "stop", "started", "enter", "test", "step", "end"},
                          context : Context \cup {NoContext}, step : Nat]]
    /\ \A p \in Task : task[p].at \notin {"idle", "enter"} => task[p].context \in Context
    /\ \A p \in Task : task[p].at = "step" => task[p].step # Stopped

StateOK == state \in [Context -> Nat] /\ \A c \in Context : state[c] <= PastEnd(c)

TypeOK ==
    /\ StateOK /\ TaskOK
    /\ activeSeq \in Context \cup {NoContext} /\ led \in BOOLEAN
    /\ holder \in Task \cup {Free} /\ armed \in BOOLEAN

(* The LED is on only while one of its sequences counts as running, so that   *)
(* whoever stops what counts as running puts it out: also after a step that   *)
(* was read before its sequence was stopped and is done afterwards.           *)
OnIsRunning == led => Runnable # {}

(* ledseq.h: for each LED only the runnable sequence with the highest         *)
(* priority is run.                                                           *)
OnlyTheFirstRuns == [][\A p \in Task : Step(p) => First(task[p].context)]_vars

(* ledseq.h: an action is followed by the next one after its time. Once every *)
(* call has returned, the active sequence has its timer running.              *)
ActiveGoesOn == (\A p \in Task : task[p] = Idle) /\ activeSeq # NoContext => armed
=============================================================================
