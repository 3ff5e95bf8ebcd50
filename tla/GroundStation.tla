---------------------------- MODULE GroundStation ----------------------------
(***************************************************************************)
(* The ground station of the real drones: the Flask application (app.py)   *)
(* and the manager it drives (PhysicalDroneManager.py, PhysicalDrone.py).  *)
(*                                                                         *)
(* Flask serves each request in a thread of its own, and cflib calls back  *)
(* in threads of its own when a link opens, fails or is lost and when log  *)
(* data arrives.  They all share, without any lock, the dictionary         *)
(* _connected_drones, the attributes of its PhysicalDrone objects and the  *)
(* global currentLogPath.  A step here is what such a thread does between  *)
(* two accesses to them.  An exception ends the request with an error.     *)
(***************************************************************************)
EXTENDS Naturals, Sequences, FiniteSets

CONSTANTS
    WHITELIST,    \* the addresses the manager knows, in order
    Objects,      \* the PhysicalDrone objects of each address: a bound on live ones
    Thread,       \* Flask threads: a bound on requests in progress
    Requests,     \* the routes asked for in each thread
    NoObject      \* the address is not in the dictionary

Drone == {WHITELIST[i] : i \in DOMAIN WHITELIST}

Object == UNION {Objects[d] : d \in Drone}

Commands == {"identify", "takeoff", "explore", "land", "returntobase"}
Routes == Commands \cup {"scan", "dronesupdate"}

ASSUME WhitelistAssumption == DOMAIN WHITELIST = 1..Len(WHITELIST) /\ Len(WHITELIST) \in Nat \ {0}
ASSUME ObjectAssumption == NoObject \notin Object
ASSUME RequestAssumption == Requests \in [Thread -> SUBSET Routes]

VARIABLES
    registry,   \* _connected_drones: address -> object
    object,     \* address -> object -> its link and which attributes it has
    logPath,    \* currentLogPath: "undefined" until the first explore
    request,    \* thread -> the request it serves
    watched     \* history: drones a request has found reachable all along

vars == <<registry, object, logPath, request, watched>>

NewObject == [link |-> "closed", info |-> "none", ranger |-> FALSE, empty |-> FALSE]

Idle == [route |-> "none", pc |-> "idle", at |-> 1, drone |-> WHITELIST[1],
         object |-> NoObject, size |-> 0, seen |-> {}, served |-> {}]

Init ==
    /\ registry = [d \in Drone |-> NoObject]
    /\ object = [d \in Drone |-> [o \in Object |-> NewObject]]
    /\ logPath = "undefined"
    /\ request = [t \in Thread |-> Idle]
    /\ watched = [t \in Thread |-> {}]

Registered == {d \in Drone : registry[d] # NoObject}

\* Drones whose registered object has its link up.
Reachable == {d \in Registered : object[d][registry[d]].link = "up"}

\* Reachable drones of which everything a status report reads has arrived.
Reportable ==
    {d \in Reachable : LET o == object[d][registry[d]] IN o.info = "full" /\ o.ranger}

At(t, pc) == request[t].pc = pc

\* The drones a request should reach when it begins, less those that have
\* been out of reach since.
Watch ==
    watched' = [t \in Thread |->
        IF At(t, "idle")
          THEN IF At(t, "idle")' THEN {}
               ELSE IF request'[t].route = "dronesupdate" THEN Reportable ELSE Reachable
          ELSE watched[t] \cap Reachable']

Goto(t, pc) == request' = [request EXCEPT ![t].pc = pc]

\* An exception leaves the handler: Flask answers 500.
Raise(t) == Goto(t, "error")

----------------------------------------------------------------------------
(* The routes of app.py: first the log file, then the manager.             *)

Body(route) == CASE route = "scan" -> "count"
                 [] route = "dronesupdate" -> "answer"
                 [] OTHER -> "check"

Receive(t, route) ==
    /\ At(t, "idle")
    /\ request' = [request EXCEPT ![t].route = route,
                     ![t].pc = CASE route \in {"identify", "takeoff", "explore"} -> "check"
                                 [] route = "dronesupdate" -> "begin"
                                 [] OTHER -> "test"]
    /\ logPath' = IF route = "explore" THEN "open" ELSE logPath
    /\ UNCHANGED <<registry, object>>
    /\ Watch

\* if currentLogPath != "": a name that no explore has bound yet raises.
TestLogPath(t) ==
    /\ At(t, "test")
    /\ \/ logPath = "undefined" /\ Raise(t)
       \/ logPath = "closed" /\ Goto(t, Body(request[t].route))
       \/ logPath = "open" /\ Goto(t, "append")
    /\ UNCHANGED <<registry, object, logPath>>
    /\ Watch

\* open(currentLogPath, 'a') reads the global again.
AppendLog(t) ==
    /\ At(t, "append")
    /\ IF logPath = "closed" THEN Raise(t) ELSE Goto(t, Body(request[t].route))
    /\ logPath' = IF request[t].route = "land" THEN "closed" ELSE logPath
    /\ UNCHANGED <<registry, object>>
    /\ Watch

----------------------------------------------------------------------------
(* Commands: the loop over WHITELIST.                                      *)

Current(t) == WHITELIST[request[t].at]

CheckAddress(t) ==
    /\ At(t, "check")
    /\ \/ request[t].at > Len(WHITELIST) /\ Goto(t, "ok")
       \/ /\ request[t].at <= Len(WHITELIST)
          /\ IF Current(t) \in Registered
               THEN Goto(t, "get")
               ELSE request' = [request EXCEPT ![t].at = @ + 1]
    /\ UNCHANGED <<registry, object, logPath>>
    /\ Watch

GetDrone(t) ==
    /\ At(t, "get")
    /\ IF registry[Current(t)] = NoObject
         THEN Raise(t)
         ELSE request' = [request EXCEPT ![t].pc = "send", ![t].object = registry[Current(t)]]
    /\ UNCHANGED <<registry, object, logPath>>
    /\ Watch

\* setBatteryLevelEstimateForInFlight: no battery level yet, or a division by
\* the flight time of an empty battery.
EstimateFails(o) == o.info = "half" \/ (o.info = "full" /\ o.empty)

SendPacket_SkipsNext(t) ==   \* mutant: the loop advances twice
    /\ At(t, "send")
    /\ LET d == Current(t)
           o == object[d][request[t].object]
       IN  request' = [request EXCEPT ![t].pc = "check", ![t].at = @ + 2, ![t].object = NoObject,
                         ![t].served = IF o.link = "up" THEN @ \cup {d} ELSE @]
    /\ UNCHANGED <<registry, object, logPath>>
    /\ Watch

SendPacket(t) ==
    /\ At(t, "send")
    /\ LET d == Current(t)
           o == object[d][request[t].object]
       IN  IF request[t].route = "explore" /\ EstimateFails(o)
             THEN Raise(t)
             ELSE request' = [request EXCEPT ![t].pc = "check", ![t].at = @ + 1,
                                ![t].object = NoObject,
                                ![t].served = IF o.link = "up" THEN @ \cup {d} ELSE @]
    /\ UNCHANGED <<registry, object, logPath>>
    /\ Watch

----------------------------------------------------------------------------
(* scan.                                                                   *)

CountConnected(t) ==
    /\ At(t, "count")
    /\ IF Registered = Drone THEN Goto(t, "ok") ELSE Goto(t, "look")
    /\ UNCHANGED <<registry, object, logPath>>
    /\ Watch

LookForAddress_Again(t) ==   \* mutant: an address already in the dictionary is scanned for
    /\ At(t, "look")
    /\ IF request[t].at > Len(WHITELIST) THEN Goto(t, "ok") ELSE Goto(t, "interfaces")
    /\ UNCHANGED <<registry, object, logPath>>
    /\ Watch

LookForAddress(t) ==
    /\ At(t, "look")
    /\ \/ request[t].at > Len(WHITELIST) /\ Goto(t, "ok")
       \/ /\ request[t].at <= Len(WHITELIST)
          /\ IF Current(t) \in Registered
               THEN request' = [request EXCEPT ![t].at = @ + 1]
               ELSE Goto(t, "interfaces")
    /\ UNCHANGED <<registry, object, logPath>>
    /\ Watch

\* An object that nothing refers to any more stands for the next one created.
Unused(d, o) ==
    /\ object[d][o].link = "closed"
    /\ registry[d] # o
    /\ \A t \in Thread : request[t].object # o

\* crtp.scan_interfaces finds the drone or does not; connect() returns at once.
ScanInterfaces(t) ==
    /\ At(t, "interfaces")
    /\ \/ /\ request' = [request EXCEPT ![t].pc = "look", ![t].at = @ + 1]
          /\ UNCHANGED object
       \/ \E o \in Objects[Current(t)] :
            /\ Unused(Current(t), o)
            /\ object' = [object EXCEPT ![Current(t)][o] = [NewObject EXCEPT !.link = "opening"]]
            /\ request' = [request EXCEPT ![t].pc = "store", ![t].object = o]
    /\ UNCHANGED <<registry, logPath>>
    /\ Watch

StoreDrone(t) ==
    /\ At(t, "store")
    /\ registry' = [registry EXCEPT ![Current(t)] = request[t].object]
    /\ request' = [request EXCEPT ![t].pc = "look", ![t].at = @ + 1, ![t].object = NoObject]
    /\ UNCHANGED <<object, logPath>>
    /\ Watch

----------------------------------------------------------------------------
(* drones_information.                                                     *)

BeginReport(t) ==
    /\ At(t, "begin")
    /\ request' = [request EXCEPT ![t].pc = "next", ![t].size = Cardinality(Registered)]
    /\ UNCHANGED <<registry, object, logPath>>
    /\ Watch

NextKey_Once(t) ==   \* mutant: the report is returned inside the loop
    /\ At(t, "next")
    /\ IF Registered \subseteq request[t].seen \/ request[t].seen # {} THEN Goto(t, "test")
       ELSE \E d \in Registered :
              request' = [request EXCEPT ![t].pc = "read", ![t].drone = d, ![t].seen = {d}]
    /\ UNCHANGED <<registry, object, logPath>>
    /\ Watch

\* The dictionary's iterator raises when the number of keys has changed.
NextKey(t) ==
    /\ At(t, "next")
    /\ \/ Cardinality(Registered) # request[t].size /\ Raise(t)
       \/ /\ Cardinality(Registered) = request[t].size
          /\ Registered \subseteq request[t].seen
          /\ Goto(t, "test")
       \/ /\ Cardinality(Registered) = request[t].size
          /\ \E d \in Registered \ request[t].seen :
               request' = [request EXCEPT ![t].pc = "read", ![t].drone = d,
                             ![t].seen = @ \cup {d}]
    /\ UNCHANGED <<registry, object, logPath>>
    /\ Watch

\* Only the first attribute of the information is tested for.
ReadDrone(t) ==
    /\ At(t, "read")
    /\ LET d == request[t].drone
           o == object[d][registry[d]]
       IN  \/ registry[d] = NoObject /\ Raise(t)
           \/ registry[d] # NoObject /\ o.info = "none" /\ Goto(t, "next")
           \/ registry[d] # NoObject /\ o.info # "none" /\ ~(o.info = "full" /\ o.ranger) /\ Raise(t)
           \/ /\ registry[d] # NoObject /\ o.info = "full" /\ o.ranger
              /\ request' = [request EXCEPT ![t].pc = "next", ![t].served = @ \cup {d}]
    /\ UNCHANGED <<registry, object, logPath>>
    /\ Watch

----------------------------------------------------------------------------
Reply(t) ==
    /\ request[t].pc \in {"ok", "answer", "error"}
    /\ request' = [request EXCEPT ![t] = Idle]
    /\ UNCHANGED <<registry, object, logPath>>
    /\ Watch

Handle(t) ==
    \/ TestLogPath(t) \/ AppendLog(t)
    \/ CheckAddress(t) \/ GetDrone(t) \/ SendPacket(t)
    \/ CountConnected(t) \/ LookForAddress(t) \/ ScanInterfaces(t) \/ StoreDrone(t)
    \/ BeginReport(t) \/ NextKey(t) \/ ReadDrone(t)
    \/ Reply(t)

----------------------------------------------------------------------------
(* Callbacks of cflib.                                                     *)

SetObject(d, o, new) == object' = [object EXCEPT ![d][o] = new]

Connected(d, o) ==
    /\ object[d][o].link = "opening"
    /\ SetObject(d, o, [object[d][o] EXCEPT !.link = "up"])
    /\ UNCHANGED <<registry, logPath, request>>
    /\ Watch

\* drone_connection_failed only prints.
ConnectionFailed(d, o) ==
    /\ object[d][o].link = "opening"
    /\ SetObject(d, o, [object[d][o] EXCEPT !.link = "closed"])
    /\ UNCHANGED <<registry, logPath, request>>
    /\ Watch

\* drone_disconnected deletes the address, whichever object it now holds.
Disconnected(d, o) ==
    /\ object[d][o].link = "up"
    /\ SetObject(d, o, [object[d][o] EXCEPT !.link = "closed"])
    /\ registry' = [registry EXCEPT ![d] = NoObject]
    /\ UNCHANGED <<logPath, request>>
    /\ Watch

\* The position is assigned first, the battery level last.
LogPosition(d, o) ==
    /\ object[d][o].link = "up" /\ object[d][o].info = "none"
    /\ SetObject(d, o, [object[d][o] EXCEPT !.info = "half"])
    /\ UNCHANGED <<registry, logPath, request>>
    /\ Watch

LogBattery(d, o) ==
    /\ object[d][o].link = "up" /\ object[d][o].info # "none"
    /\ \E e \in BOOLEAN : SetObject(d, o, [object[d][o] EXCEPT !.info = "full", !.empty = e])
    /\ UNCHANGED <<registry, logPath, request>>
    /\ Watch

LogRanger(d, o) ==
    /\ object[d][o].link = "up"
    /\ SetObject(d, o, [object[d][o] EXCEPT !.ranger = TRUE])
    /\ UNCHANGED <<registry, logPath, request>>
    /\ Watch

Callback(d, o) ==
    \/ Connected(d, o) \/ ConnectionFailed(d, o) \/ Disconnected(d, o)
    \/ LogPosition(d, o) \/ LogBattery(d, o) \/ LogRanger(d, o)

\* The process is started again: nothing of this state is kept on disk.
Restart ==
    /\ registry' = [d \in Drone |-> NoObject]
    /\ object' = [d \in Drone |-> [o \in Object |-> NewObject]]
    /\ logPath' = "undefined"
    /\ request' = [t \in Thread |-> Idle]
    /\ Watch

----------------------------------------------------------------------------
Next ==
    \/ \E t \in Thread : Handle(t) \/ \E r \in Requests[t] : Receive(t, r)
    \/ \E d \in Drone : \E o \in Objects[d] : Callback(d, o)
    \/ Restart

Spec == Init /\ [][Next]_vars

----------------------------------------------------------------------------
(* Properties.                                                             *)

\* Types of all the variables.
TypeOK ==
    /\ registry \in [Drone -> Object \cup {NoObject}]
    /\ object \in [Drone -> [Object -> [link : {"closed", "opening", "up"},
                                        info : {"none", "half", "full"},
                                        ranger : BOOLEAN, empty : BOOLEAN]]]
    /\ logPath \in {"undefined", "open", "closed"}
    /\ request \in [Thread -> [route : Routes \cup {"none"},
                               pc : {"idle", "test", "append", "check", "get", "send", "count",
                                     "look", "interfaces", "store", "begin", "next", "read",
                                     "ok", "answer", "error"},
                               at : 1..(Len(WHITELIST) + 1), drone : Drone,
                               object : Object \cup {NoObject},
                               size : 0..Len(WHITELIST), seen : SUBSET Drone,
                               served : SUBSET Drone]]
    /\ watched \in [Thread -> SUBSET Drone]

\* A command that is answered with success was sent to every drone that was
\* connected from beginning to end of the request, whatever links were opened
\* or lost meanwhile.
OkMeansSent ==
    \A t \in Thread :
      request[t].route \in Commands /\ At(t, "ok") => watched[t] \subseteq request[t].served

\* A status report that is answered with success shows every drone that was
\* connected, and whose data had arrived, from beginning to end.
OkMeansReported ==
    \A t \in Thread : At(t, "answer") => watched[t] \subseteq request[t].served

\* As long as no two scans overlap, an open link belongs to the object in the
\* dictionary, or to the one that a scan is about to put there: no drone flies
\* that no command can reach.
NoLostLink ==
    \A d \in Drone, o \in Object :
      object[d][o].link = "up"
        => registry[d] = o \/ \E t \in Thread : At(t, "store") /\ Current(t) = d
                                                 /\ request[t].object = o

----------------------------------------------------------------------------
(* What documents and comments say and the code does not do.               *)

\* PhysicalDroneManager.py:65: when the dictionary is full, every drone is
\* connected (or connecting) and there is no need to scan.
FullMeansConnected ==
    Registered = Drone => \A d \in Drone : object[d][registry[d]].link # "closed"

\* README.md:9: commands can be sent and the status can be seen: neither a
\* scan nor a report is refused.
ScanIsServed == \A t \in Thread : At(t, "error") => request[t].route # "scan"
=============================================================================
