------------------------------ MODULE WebClient ------------------------------
(* The page of the ground station (client/src/app): every second it asks the *)
(* server for the drones' state, without waiting for the answers it has not  *)
(* had yet, and merges each of them, in the order they come, into the list   *)
(* its components show. An entry is found by its address and never removed.  *)
EXTENDS Naturals

CONSTANTS
    Drone, Value,
    Poll            \* the requests under way: a bound

VARIABLES
    server,         \* drone -> what the manager knows of it
    polls,          \* request -> its step, and the answer: drone -> value
    drones,         \* DroneService.drones: drone -> value
    screen          \* drone -> what its component shows

vars == <<server, polls, drones, screen>>

None == "none"
New == "new"        \* the component's own initial values

\* Not connected, or no data yet; a part of the data; or all of it.
Status == {"absent", "half"} \cup Value
Known == {d \in Drone : server[d] \in Value}

Idle == [step |-> "idle", drones |-> [d \in {} |-> None]]

----------------------------------------------------------------------------
Init ==
    /\ server = [d \in Drone |-> "absent"]
    /\ polls = [p \in Poll |-> Idle]
    /\ drones = [d \in Drone |-> None] /\ screen = [d \in Drone |-> None]

\* The manager's side, which GroundStation has in detail.
Change(d) ==
    /\ \E s \in Status : server' = [server EXCEPT ![d] = s]
    /\ UNCHANGED <<polls, drones, screen>>

\* The timer of ngOnInit.
DronesUpdate(p) ==
    /\ polls[p] = Idle
    /\ polls' = [polls EXCEPT ![p].step = "asked"]
    /\ UNCHANGED <<server, drones, screen>>

\* A drone of which a part is known makes the whole request fail.
Answer(p) ==
    /\ polls[p].step = "asked"
    /\ polls' = [polls EXCEPT ![p] =
            IF \E d \in Drone : server[d] = "half" THEN [@ EXCEPT !.step = "failed"]
            ELSE [step |-> "answered", drones |-> [d \in Known |-> server[d]]]]
    /\ UNCHANGED <<server, drones, screen>>

\* Nothing subscribes to an error.
Fail(p) ==
    /\ polls[p].step = "failed"
    /\ polls' = [polls EXCEPT ![p] = Idle]
    /\ UNCHANGED <<server, drones, screen>>

\* DroneService.dronesUpdate.
Merged_KeepsFirst(answer) ==   \* mutant: an address already in the list is left as it is
    [d \in Drone |-> IF d \in DOMAIN answer /\ drones[d] = None THEN answer[d] ELSE drones[d]]
Merged(answer) == [d \in Drone |-> IF d \in DOMAIN answer THEN answer[d] ELSE drones[d]]

\* The event comes before the components of new entries are made: they miss it.
Update(p) ==
    /\ polls[p].step = "answered"
    /\ drones' = Merged(polls[p].drones)
    /\ screen' = [d \in Drone |-> IF screen[d] # None THEN drones'[d]
                                  ELSE IF drones'[d] # None THEN New ELSE None]
    /\ polls' = [polls EXCEPT ![p] = Idle]
    /\ UNCHANGED server

Answered(p) == Answer(p) \/ Fail(p) \/ Update(p)

Next ==
    \/ \E d \in Drone : Change(d)
    \/ \E p \in Poll : DronesUpdate(p) \/ Answered(p)

\* The browser's timer goes off, and every request is answered.
Fairness ==
    \A p \in Poll : WF_vars(DronesUpdate(p)) /\ WF_vars(Answered(p))

Spec == Init /\ [][Next]_vars /\ Fairness

----------------------------------------------------------------------------
TypeOK ==
    /\ server \in [Drone -> Status]
    /\ polls \in [Poll -> [step : {"idle", "asked", "failed", "answered"},
                           drones : UNION {[S -> Value] : S \in SUBSET Drone}]]
    /\ drones \in [Drone -> Value \cup {None}]
    /\ screen \in [Drone -> Value \cup {None, New}]

(* The page ends up with what the server knows: when the state of a drone     *)
(* stays the same, and no drone stays half known, it is shown for good,       *)
(* however many older answers were still under way and in whatever order they *)
(* come. (What is shown of a drone that is gone is its last state, for ever.) *)
PageCatchesUp ==
    \A d \in Drone, v \in Value :
        <>[](server[d] = v /\ \A e \in Drone : server[e] # "half") => <>[](screen[d] = v)
=============================================================================
