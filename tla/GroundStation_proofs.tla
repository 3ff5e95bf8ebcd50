------------------------ MODULE GroundStation_proofs ------------------------
(* Theorems about GroundStation, for any number of drones, of objects, of     *)
(* threads and of requests in progress.                                       *)
EXTENDS GroundStation, FiniteSetTheorems, TLAPS

\* Which requests reach which places.
RouteOK(r) ==
    /\ r.pc = "idle" => r = Idle
    /\ r.pc # "idle" => r.route \in Routes
    /\ r.pc \in {"check", "get", "send"} => r.route \in Commands
    /\ r.pc \in {"count", "look", "interfaces", "store"} => r.route = "scan"
    /\ r.pc \in {"begin", "next", "read", "answer"} => r.route = "dronesupdate"
    /\ r.pc = "ok" => r.route # "dronesupdate"
    /\ r.pc \in {"get", "send", "interfaces", "store"} => r.at <= Len(WHITELIST)

RoutesOK == \A t \in Thread : RouteOK(request[t])

\* What the proofs use of the constants.
LEMMA Whitelist ==
    /\ Len(WHITELIST) \in Nat \ {0}
    /\ \A i \in 1..Len(WHITELIST) : WHITELIST[i] \in Drone
    /\ \A d \in Drone : \E i \in 1..Len(WHITELIST) : WHITELIST[i] = d
BY WhitelistAssumption DEF Drone

LEMMA Registrations == Cardinality(Registered) \in 0..Len(WHITELIST)
<1> DEFINE Address == [i \in 1..Len(WHITELIST) |-> WHITELIST[i]]
<1>1. Len(WHITELIST) \in Nat
  BY Whitelist
<1>2. IsFiniteSet(1..Len(WHITELIST)) /\ Cardinality(1..Len(WHITELIST)) = Len(WHITELIST)
  <2>1. ASSUME NEW n \in Nat PROVE IsFiniteSet(1..n) /\ Cardinality(1..n) = n
    <3>1. 1 \in Int /\ n \in Int /\ (IF 1 > n THEN 0 ELSE n - 1 + 1) = n
      OBVIOUS
    <3> QED BY <3>1, FS_Interval
  <2> QED BY <1>1, <2>1
<1>3. Address \in Surjection(1..Len(WHITELIST), Drone)
  BY Whitelist DEF Surjection
<1>4. IsFiniteSet(Drone) /\ Cardinality(Drone) <= Len(WHITELIST)
  BY <1>2, <1>3, FS_Surjection
<1>5. Registered \subseteq Drone
  BY DEF Registered
<1>6. Cardinality(Registered) \in Nat /\ Cardinality(Drone) \in Nat
      /\ Cardinality(Registered) <= Cardinality(Drone)
  BY <1>4, <1>5, FS_Subset, FS_CardinalityType
<1> QED BY <1>1, <1>4, <1>6

LEMMA Watching == TypeOK /\ Watch => watched' \in [Thread -> SUBSET Drone]
<1> SUFFICES ASSUME TypeOK, Watch PROVE watched' \in [Thread -> SUBSET Drone]
  OBVIOUS
<1>1. Reachable \subseteq Drone /\ Reportable \subseteq Drone
  BY DEF Reportable, Reachable, Registered
<1>2. \A t \in Thread : watched[t] \subseteq Drone
  BY DEF TypeOK
<1> QED BY <1>1, <1>2 DEF Watch

----------------------------------------------------------------------------
Request == [route : Routes \cup {"none"},
            pc : {"idle", "test", "append", "check", "get", "send", "count",
                  "look", "interfaces", "store", "begin", "next", "read",
                  "ok", "answer", "error"},
            at : 1..(Len(WHITELIST) + 1), drone : Drone, object : Object \cup {NoObject},
            size : 0..Len(WHITELIST), seen : SUBSET Drone, served : SUBSET Drone]

RequestsOK == request \in [Thread -> Request] /\ RoutesOK

LinkState == [link : {"closed", "opening", "up"}, info : {"none", "half", "full"},
              ranger : BOOLEAN, empty : BOOLEAN]

LEMMA IdleRequest == Idle \in Request /\ RouteOK(Idle)
BY Whitelist DEF Idle, Request, RouteOK

LEMMA OneRequest ==
    ASSUME RequestsOK, NEW t \in Thread, NEW r \in Request, RouteOK(r),
           request' = [request EXCEPT ![t] = r]
    PROVE  RequestsOK'
BY DEF RequestsOK, RoutesOK

LEMMA GotoElsewhere ==
    ASSUME RequestsOK, NEW t \in Thread, request[t].pc # "idle",
           NEW pc \in {"test", "append", "check", "get", "send", "count", "look", "interfaces",
                       "store", "begin", "next", "read", "ok", "answer", "error"},
           /\ pc \in {"check", "get", "send"} => request[t].route \in Commands
           /\ pc \in {"count", "look", "interfaces", "store"} => request[t].route = "scan"
           /\ pc \in {"begin", "next", "read", "answer"} => request[t].route = "dronesupdate"
           /\ pc = "ok" => request[t].route # "dronesupdate"
           /\ pc \in {"get", "send", "interfaces", "store"} => request[t].at <= Len(WHITELIST),
           Goto(t, pc)
    PROVE  RequestsOK'
<1> DEFINE r2 == [request[t] EXCEPT !.pc = pc]
<1>1. request[t] \in Request /\ RouteOK(request[t])
  BY DEF RequestsOK, RoutesOK
<1>2. r2 \in Request /\ RouteOK(r2)
  BY <1>1 DEF Request, RouteOK
<1>3. request' = [request EXCEPT ![t] = r2]
  BY DEF Goto
<1> HIDE DEF r2
<1> QED BY <1>2, <1>3, OneRequest

LEMMA NextAddress ==
    ASSUME NEW r \in Request, r.at <= Len(WHITELIST)
    PROVE  r.at + 1 \in 1..(Len(WHITELIST) + 1)
BY Whitelist DEF Request

\* A step of a request keeps it well formed.
LEMMA HandleRequests ==
    ASSUME TypeOK, RoutesOK, NEW t \in Thread, Handle(t)
    PROVE  RequestsOK'
<1> DEFINE r == request[t]
<1>1. RequestsOK /\ r \in Request /\ RouteOK(r)
  BY DEF TypeOK, RoutesOK, Request, RequestsOK
<1>2. CASE TestLogPath(t)
  BY <1>1, <1>2, GotoElsewhere DEF TestLogPath, At, Raise, Body, Request, RouteOK, Routes
<1>3. CASE AppendLog(t)
  BY <1>1, <1>3, GotoElsewhere DEF AppendLog, At, Raise, Body, Request, RouteOK, Routes
<1>4. CASE CheckAddress(t)
  <2>1. ASSUME r.at <= Len(WHITELIST), request' = [request EXCEPT ![t] = [r EXCEPT !.at = @ + 1]]
        PROVE  RequestsOK'
    <3>0. r.at + 1 \in 1..(Len(WHITELIST) + 1)
      BY <1>1, <2>1, NextAddress
    <3>1. [r EXCEPT !.at = @ + 1] \in Request /\ RouteOK([r EXCEPT !.at = @ + 1])
      BY <1>1, <1>4, <3>0 DEF CheckAddress, At, Request, RouteOK
    <3> QED BY <1>1, <2>1, <3>1, OneRequest
  <2> QED BY <1>1, <1>4, <2>1, GotoElsewhere DEF CheckAddress, At, Request, RouteOK, Commands
<1>5. CASE GetDrone(t)
  <2>1. registry[Current(t)] \in Object \cup {NoObject}
    BY <1>1, <1>5, Whitelist DEF GetDrone, At, TypeOK, Current, RouteOK, Request
  <2>2. ASSUME NEW o \in Object \cup {NoObject},
               request' = [request EXCEPT ![t] = [r EXCEPT !.pc = "send", !.object = o]]
        PROVE  RequestsOK'
    <3>1. /\ [r EXCEPT !.pc = "send", !.object = o] \in Request
          /\ RouteOK([r EXCEPT !.pc = "send", !.object = o])
      BY <1>1, <1>5 DEF GetDrone, At, Request, RouteOK
    <3> QED BY <1>1, <2>2, <3>1, OneRequest
  <2> QED BY <1>1, <1>5, <2>1, <2>2, GotoElsewhere DEF GetDrone, At, Raise
<1>6. CASE SendPacket(t)
  <2>0. r.at + 1 \in 1..(Len(WHITELIST) + 1)
    BY <1>1, <1>6, NextAddress DEF SendPacket, At, RouteOK
  <2>1. ASSUME NEW served \in SUBSET Drone,
               request' = [request EXCEPT ![t] = [r EXCEPT !.pc = "check", !.at = @ + 1,
                                                    !.object = NoObject, !.served = served]]
        PROVE  RequestsOK'
    <3> DEFINE x == [r EXCEPT !.pc = "check", !.at = @ + 1, !.object = NoObject, !.served = served]
    <3>1. x \in Request /\ RouteOK(x)
      BY <1>1, <1>6, <2>0 DEF SendPacket, At, Request, RouteOK
    <3> QED BY <1>1, <2>1, <3>1, OneRequest
  <2>2. Current(t) \in Drone /\ r.served \in SUBSET Drone
    BY <1>1, <1>6, Whitelist DEF SendPacket, At, Current, RouteOK, Request
  <2>3. CASE r.route = "explore" /\ EstimateFails(object[Current(t)][r.object])
    <3>1. Raise(t)
      BY <1>6, <2>3 DEF SendPacket
    <3> QED BY <1>1, <1>6, <3>1, GotoElsewhere DEF SendPacket, At, Raise
  <2>4. CASE ~(r.route = "explore" /\ EstimateFails(object[Current(t)][r.object]))
    <3> DEFINE s == IF object[Current(t)][r.object].link = "up"
                    THEN r.served \cup {Current(t)} ELSE r.served
    <3>1. s \in SUBSET Drone
      BY <2>2
    <3>2. request' = [request EXCEPT ![t] = [r EXCEPT !.pc = "check", !.at = @ + 1,
                                               !.object = NoObject, !.served = s]]
      BY <1>6, <2>4 DEF SendPacket
    <3> HIDE DEF s
    <3> QED BY <2>1, <3>1, <3>2
  <2> QED BY <2>3, <2>4
<1>7. CASE CountConnected(t)
  BY <1>1, <1>7, GotoElsewhere DEF CountConnected, At, RouteOK
<1>8. CASE LookForAddress(t)
  <2>1. ASSUME r.at <= Len(WHITELIST), request' = [request EXCEPT ![t] = [r EXCEPT !.at = @ + 1]]
        PROVE  RequestsOK'
    <3>0. r.at + 1 \in 1..(Len(WHITELIST) + 1)
      BY <1>1, <2>1, NextAddress
    <3>1. [r EXCEPT !.at = @ + 1] \in Request /\ RouteOK([r EXCEPT !.at = @ + 1])
      BY <1>1, <1>8, <3>0 DEF LookForAddress, At, Request, RouteOK
    <3> QED BY <1>1, <2>1, <3>1, OneRequest
  <2> QED BY <1>1, <1>8, <2>1, GotoElsewhere DEF LookForAddress, At, Request, RouteOK
<1>9. CASE ScanInterfaces(t)
  <2>0. r.at + 1 \in 1..(Len(WHITELIST) + 1)
    BY <1>1, <1>9, NextAddress DEF ScanInterfaces, At, RouteOK
  <2>1. ASSUME request' = [request EXCEPT ![t] = [r EXCEPT !.pc = "look", !.at = @ + 1]]
        PROVE  RequestsOK'
    <3>1. /\ [r EXCEPT !.pc = "look", !.at = @ + 1] \in Request
          /\ RouteOK([r EXCEPT !.pc = "look", !.at = @ + 1])
      BY <1>1, <1>9, <2>0 DEF ScanInterfaces, At, Request, RouteOK
    <3> QED BY <1>1, <2>1, <3>1, OneRequest
  <2>2. ASSUME NEW o \in Objects[Current(t)],
               request' = [request EXCEPT ![t] = [r EXCEPT !.pc = "store", !.object = o]]
        PROVE  RequestsOK'
    <3>1. o \in Object
      BY <1>1, <1>9, Whitelist DEF ScanInterfaces, At, Current, RouteOK, Request, Object
    <3>2. /\ [r EXCEPT !.pc = "store", !.object = o] \in Request
          /\ RouteOK([r EXCEPT !.pc = "store", !.object = o])
      BY <1>1, <1>9, <3>1 DEF ScanInterfaces, At, Request, RouteOK
    <3> QED BY <1>1, <2>2, <3>2, OneRequest
  <2> QED BY <1>9, <2>1, <2>2 DEF ScanInterfaces
<1>10. CASE StoreDrone(t)
  <2>0. r.at + 1 \in 1..(Len(WHITELIST) + 1)
    BY <1>1, <1>10, NextAddress DEF StoreDrone, At, RouteOK
  <2> DEFINE x == [r EXCEPT !.pc = "look", !.at = @ + 1, !.object = NoObject]
  <2>1. x \in Request /\ RouteOK(x)
    BY <1>1, <1>10, <2>0 DEF StoreDrone, At, Request, RouteOK
  <2>2. request' = [request EXCEPT ![t] = x]
    BY <1>10 DEF StoreDrone
  <2> QED BY <1>1, <2>1, <2>2, OneRequest
<1>11. CASE BeginReport(t)
  <2> DEFINE x == [r EXCEPT !.pc = "next", !.size = Cardinality(Registered)]
  <2>1. x \in Request /\ RouteOK(x)
    BY <1>1, <1>11, Registrations DEF BeginReport, At, Request, RouteOK
  <2>2. request' = [request EXCEPT ![t] = x]
    BY <1>11 DEF BeginReport
  <2> QED BY <1>1, <2>1, <2>2, OneRequest
<1>12. CASE NextKey(t)
  <2>1. ASSUME NEW d \in Drone,
               request' = [request EXCEPT ![t] = [r EXCEPT !.pc = "read", !.drone = d,
                                                    !.seen = @ \cup {d}]]
        PROVE  RequestsOK'
    <3> DEFINE x == [r EXCEPT !.pc = "read", !.drone = d, !.seen = @ \cup {d}]
    <3>1. x \in Request /\ RouteOK(x)
      BY <1>1, <1>12 DEF NextKey, At, Request, RouteOK
    <3> QED BY <1>1, <2>1, <3>1, OneRequest
  <2>2. Registered \subseteq Drone
    BY DEF Registered
  <2> QED BY <1>1, <1>12, <2>1, <2>2, GotoElsewhere, ZenonT(40) DEF NextKey, At, Raise, RouteOK
<1>13. CASE ReadDrone(t)
  <2> DEFINE x == [r EXCEPT !.pc = "next", !.served = @ \cup {r.drone}]
  <2>1. x \in Request /\ RouteOK(x)
    BY <1>1, <1>13 DEF ReadDrone, At, Request, RouteOK
  <2>2. request' = [request EXCEPT ![t] = x] => RequestsOK'
    BY <1>1, <2>1, OneRequest
  <2> QED BY <1>1, <1>13, <2>2, GotoElsewhere, ZenonT(40) DEF ReadDrone, At, Raise, RouteOK
<1>14. CASE Reply(t)
  BY <1>1, <1>14, IdleRequest, OneRequest DEF Reply
<1> QED BY <1>2, <1>3, <1>4, <1>5, <1>6, <1>7, <1>8, <1>9, <1>10, <1>11, <1>12, <1>13, <1>14
        DEF Handle

\* Every action keeps the types, and requests where their routes lead.
LEMMA TypeInduction ==
    /\ Init => TypeOK /\ RoutesOK
    /\ TypeOK /\ RoutesOK /\ [Next]_vars => TypeOK' /\ RoutesOK'
<1>1. Init => TypeOK /\ RoutesOK
  <2>1. Init => request \in [Thread -> Request] /\ RoutesOK
    BY IdleRequest DEF Init, RoutesOK
  <2> QED BY <2>1 DEF Init, TypeOK, NewObject, Request
<1>2. TypeOK /\ RoutesOK /\ [Next]_vars => TypeOK' /\ RoutesOK'
  <2> SUFFICES ASSUME TypeOK, RoutesOK, [Next]_vars PROVE TypeOK' /\ RoutesOK'
    OBVIOUS
  <2>0. request \in [Thread -> Request]
    BY DEF TypeOK, Request
  <2>1. ASSUME NEW t \in Thread, Handle(t) PROVE TypeOK' /\ RoutesOK'
    <3>1. request' \in [Thread -> Request] /\ RoutesOK'
      BY <2>1, HandleRequests DEF RequestsOK
    <3>2. watched' \in [Thread -> SUBSET Drone]
      BY <2>1, Watching, ZenonT(40)
         DEF Handle, TestLogPath, AppendLog, CheckAddress, GetDrone, SendPacket,
            CountConnected, LookForAddress, ScanInterfaces, StoreDrone, BeginReport, NextKey,
            ReadDrone, Reply
    <3>3. logPath' \in {"undefined", "open", "closed"}
      BY <2>1, ZenonT(40) DEF Handle, TestLogPath, AppendLog, CheckAddress, GetDrone, SendPacket,
            CountConnected, LookForAddress, ScanInterfaces, StoreDrone, BeginReport, NextKey,
            ReadDrone, Reply, TypeOK
    <3>4. registry' \in [Drone -> Object \cup {NoObject}]
      BY <2>0, <2>1, ZenonT(40)
         DEF Handle, TestLogPath, AppendLog, CheckAddress, GetDrone, SendPacket,
            CountConnected, LookForAddress, ScanInterfaces, StoreDrone, BeginReport, NextKey,
            ReadDrone, Reply, TypeOK, Request
    <3>5. object' \in [Drone -> [Object -> LinkState]]
      <4>1. object \in [Drone -> [Object -> LinkState]]
        BY DEF TypeOK, LinkState
      <4>2. CASE object' = object
        BY <4>1, <4>2
      <4>3. ASSUME NEW o, object' = [object EXCEPT ![Current(t)][o]
                                                     = [NewObject EXCEPT !.link = "opening"]]
            PROVE  object' \in [Drone -> [Object -> LinkState]]
        <5>1. [NewObject EXCEPT !.link = "opening"] \in LinkState
          BY DEF NewObject, LinkState
        <5> HIDE DEF LinkState
        <5> QED BY <4>1, <4>3, <5>1
      <4> QED BY <2>1, <4>2, <4>3 DEF Handle, TestLogPath, AppendLog, CheckAddress, GetDrone,
            SendPacket, CountConnected, LookForAddress, ScanInterfaces, StoreDrone, BeginReport,
            NextKey, ReadDrone, Reply
    <3> QED BY <3>1, <3>2, <3>3, <3>4, <3>5, SMTT(30) DEF TypeOK, Request, LinkState
  <2>2. ASSUME NEW t \in Thread, NEW route \in Requests[t], Receive(t, route)
        PROVE  TypeOK' /\ RoutesOK'
    <3>1. route \in Routes
      BY RequestAssumption
    <3>2. request[t] = Idle /\ request[t] \in Request
      BY <2>0, <2>2 DEF Receive, At, RoutesOK, RouteOK
    <3>3. RequestsOK'
      <4>1. ASSUME NEW pc \in {"check", "begin", "test"},
                   request' = [request EXCEPT ![t] = [Idle EXCEPT !.route = route, !.pc = pc]],
                   pc = "check" => route \in Commands, pc = "begin" => route = "dronesupdate"
            PROVE  RequestsOK'
        <5> DEFINE x == [Idle EXCEPT !.route = route, !.pc = pc]
        <5>1. x \in Request /\ RouteOK(x)
          BY <3>1, <4>1, IdleRequest DEF Request, RouteOK
        <5> QED BY <2>0, <4>1, <5>1, OneRequest DEF RequestsOK
      <4>2. CASE route \in {"identify", "takeoff", "explore"}
        BY <2>2, <3>2, <4>1, <4>2 DEF Receive, Commands
      <4>3. CASE route = "dronesupdate"
        BY <2>2, <3>2, <4>1, <4>3 DEF Receive
      <4>4. CASE route \notin {"identify", "takeoff", "explore", "dronesupdate"}
        BY <2>2, <3>2, <4>1, <4>4 DEF Receive
      <4> QED BY <4>2, <4>3, <4>4
    <3> QED BY <2>2, <3>3, Watching DEF Receive, TypeOK, Request, RequestsOK
  <2>3. ASSUME NEW d \in Drone, NEW o \in Objects[d], Callback(d, o) PROVE TypeOK' /\ RoutesOK'
    <3>1. request' = request /\ logPath' = logPath /\ Watch
      BY <2>3 DEF Callback, Connected, ConnectionFailed, Disconnected, LogPosition, LogBattery,
            LogRanger
    <3>2. o \in Object
      BY DEF Object
    <3>3. registry' \in [Drone -> Object \cup {NoObject}]
      BY <2>3 DEF Callback, Connected, ConnectionFailed, Disconnected, LogPosition, LogBattery,
            LogRanger, TypeOK
    <3>4. object \in [Drone -> [Object -> LinkState]] /\ object[d][o] \in LinkState
      BY <3>2 DEF TypeOK, LinkState
    <3>5. ASSUME NEW new \in LinkState, SetObject(d, o, new)
          PROVE  object' \in [Drone -> [Object -> LinkState]]
      <4> HIDE DEF LinkState
      <4> QED BY <3>2, <3>4, <3>5 DEF SetObject
    <3>6. object' \in [Drone -> [Object -> LinkState]]
      <4>1. /\ [object[d][o] EXCEPT !.link = "up"] \in LinkState
            /\ [object[d][o] EXCEPT !.link = "closed"] \in LinkState
            /\ [object[d][o] EXCEPT !.info = "half"] \in LinkState
            /\ \A e \in BOOLEAN : [object[d][o] EXCEPT !.info = "full", !.empty = e] \in LinkState
            /\ [object[d][o] EXCEPT !.ranger = TRUE] \in LinkState
        BY <3>4 DEF LinkState
      <4> QED BY <2>3, <3>5, <4>1 DEF Callback, Connected, ConnectionFailed, Disconnected,
            LogPosition, LogBattery, LogRanger
    <3> QED BY <3>1, <3>3, <3>6, Watching DEF TypeOK, RoutesOK, LinkState
  <2>4. CASE Restart
    <3>1. request' \in [Thread -> Request] /\ RoutesOK'
      BY <2>4, IdleRequest DEF Restart, RoutesOK
    <3> QED BY <2>4, <3>1, Watching DEF Restart, TypeOK, NewObject, Request
  <2>5. CASE UNCHANGED vars
    BY <2>5 DEF vars, TypeOK, RoutesOK
  <2> QED BY <2>1, <2>2, <2>3, <2>4, <2>5 DEF Next
<1> QED BY <1>1, <1>2

(* Types: an index stays within the list of addresses and a report within its *)
(* size, in every interleaving of requests, callbacks and restarts.           *)
THEOREM TypeCorrect == Spec => []TypeOK
BY TypeInduction, PTL DEF Spec

----------------------------------------------------------------------------
\* What the steps of a request leave alone.
LEMMA Handling ==
    ASSUME TypeOK, NEW t \in Thread, Handle(t)
    PROVE  /\ Watch
           /\ \A u \in Thread : u # t => request'[u] = request[u]
           /\ object' = object \/ ScanInterfaces(t)
           /\ registry' = registry \/ StoreDrone(t)
           /\ request'[t] = Idle \/ request'[t].route = request[t].route
<1>1. request \in [Thread -> Request]
  BY SMTT(30) DEF TypeOK, Request
<1>2. \E x : request' = [request EXCEPT ![t] = x]
  BY ZenonT(40)
     DEF Handle, TestLogPath, AppendLog, CheckAddress, GetDrone, SendPacket, CountConnected,
         LookForAddress, ScanInterfaces, StoreDrone, BeginReport, NextKey, ReadDrone, Reply,
         Goto, Raise
<1>3. Watch /\ (object' = object \/ ScanInterfaces(t)) /\ (registry' = registry \/ StoreDrone(t))
  BY DEF Handle, TestLogPath, AppendLog, CheckAddress, GetDrone, SendPacket, CountConnected,
         LookForAddress, ScanInterfaces, StoreDrone, BeginReport, NextKey, ReadDrone, Reply
<1>4. \A u \in Thread : u # t => request'[u] = request[u]
  BY <1>1, <1>2
<1>5. request'[t] = Idle \/ request'[t].route = request[t].route
  <2>1. request \in [Thread -> Request] /\ request[t] \in Request
    BY <1>1
  <2>2. CASE Reply(t)
    BY <2>1, <2>2 DEF Reply
  <2>3. CASE TestLogPath(t) \/ AppendLog(t) \/ CheckAddress(t) \/ GetDrone(t)
    BY <2>1, <2>3 DEF TestLogPath, AppendLog, CheckAddress, GetDrone, Goto, Raise, Request
  <2>4. CASE SendPacket(t) \/ CountConnected(t) \/ LookForAddress(t)
    BY <2>1, <2>4 DEF SendPacket, CountConnected, LookForAddress, Goto, Raise, Request
  <2>5. CASE ScanInterfaces(t)
    <3>1. ASSUME NEW o, request' = [request EXCEPT ![t].pc = "store", ![t].object = o]
          PROVE  request'[t].route = request[t].route
      BY <2>1, <3>1 DEF Request
    <3> QED BY <2>1, <2>5, <3>1 DEF ScanInterfaces, Request
  <2>6. CASE StoreDrone(t) \/ BeginReport(t)
    BY <2>1, <2>6 DEF StoreDrone, BeginReport, Request
  <2>7. CASE NextKey(t)
    <3>1. ASSUME NEW d, request' = [request EXCEPT ![t].pc = "read", ![t].drone = d,
                                                   ![t].seen = @ \cup {d}]
          PROVE  request'[t].route = request[t].route
      BY <2>1, <3>1 DEF Request
    <3>2. ASSUME NEW pc, Goto(t, pc) PROVE request'[t].route = request[t].route
      BY <2>1, <3>2 DEF Goto, Request
    <3> QED BY <2>7, <3>1, <3>2 DEF NextKey, Raise
  <2>8. CASE ReadDrone(t)
    BY <2>1, <2>8 DEF ReadDrone, Goto, Raise, Request
  <2> QED BY <2>2, <2>3, <2>4, <2>5, <2>6, <2>7, <2>8 DEF Handle
<1> QED BY <1>3, <1>4, <1>5

\* What a callback leaves alone.
LEMMA CallingBack ==
    ASSUME TypeOK, NEW d \in Drone, NEW o \in Objects[d], Callback(d, o)
    PROVE  /\ Watch /\ request' = request /\ o \in Object
           /\ \A e \in Drone, p \in Object : e # d \/ p # o => object'[e][p] = object[e][p]
           /\ registry' = registry \/ (Disconnected(d, o) /\ registry' = [registry EXCEPT ![d] = NoObject])
<1>1. o \in Object /\ object \in [Drone -> [Object -> LinkState]]
  BY DEF Object, TypeOK, LinkState
<1>2. \E new : SetObject(d, o, new)
  BY DEF Callback, Connected, ConnectionFailed, Disconnected, LogPosition, LogBattery, LogRanger
<1>3. \A e \in Drone, p \in Object : e # d \/ p # o => object'[e][p] = object[e][p]
  BY <1>1, <1>2 DEF SetObject
<1>4. /\ Watch /\ request' = request
      /\ registry' = registry \/ (Disconnected(d, o) /\ registry' = [registry EXCEPT ![d] = NoObject])
  BY DEF Callback, Connected, ConnectionFailed, Disconnected, LogPosition, LogBattery, LogRanger
<1> QED BY <1>1, <1>3, <1>4

\* A link that is up stays so, or its drone is out of reach.
LEMMA LinksStay ==
    ASSUME TypeOK, [Next]_vars, ~Restart, NEW d \in Drone, NEW o \in Object,
           object[d][o].link = "up", d \in Reachable'
    PROVE  object'[d][o].link = "up"
<1>1. ASSUME NEW t \in Thread, Handle(t) PROVE object'[d][o].link = "up"
  <2>1. CASE object' = object
    BY <2>1
  <2>2. CASE ScanInterfaces(t)
    <3>1. ASSUME NEW p \in Objects[Current(t)], Unused(Current(t), p),
                 object' = [object EXCEPT ![Current(t)][p] = [NewObject EXCEPT !.link = "opening"]]
          PROVE  object'[d][o] = object[d][o]
      <4>1. ~(Current(t) = d /\ p = o)
        BY <3>1 DEF Unused
      <4> QED BY <3>1, <4>1 DEF TypeOK
    <3> QED BY <2>2, <3>1 DEF ScanInterfaces
  <2> QED BY <1>1, <2>1, <2>2, Handling
<1>2. ASSUME NEW e \in Drone, NEW p \in Objects[e], Callback(e, p)
      PROVE  object'[d][o].link = "up"
  <2>1. CASE e # d \/ p # o
    BY <1>2, <2>1, CallingBack
  <2>2. CASE e = d /\ p = o
    <3>1. ~Disconnected(d, o)
      BY DEF Disconnected, Reachable, Registered, TypeOK
    <3>2. object \in [Drone -> [Object -> LinkState]] /\ object[d][o] \in LinkState
      BY DEF TypeOK, LinkState
    <3>3. \E new : SetObject(d, o, new) /\ new.link = "up"
      <4>1. /\ [object[d][o] EXCEPT !.info = "half"].link = "up"
            /\ \A f \in BOOLEAN : [object[d][o] EXCEPT !.info = "full", !.empty = f].link = "up"
            /\ [object[d][o] EXCEPT !.ranger = TRUE].link = "up"
        BY <3>2 DEF LinkState
      <4> QED BY <1>2, <2>2, <3>1, <4>1 DEF Callback, Connected, ConnectionFailed, LogPosition,
                 LogBattery, LogRanger
    <3> QED BY <3>2, <3>3 DEF SetObject
  <2> QED BY <2>1, <2>2
<1>3. ASSUME NEW t \in Thread, NEW r \in Requests[t], Receive(t, r) PROVE object' = object
  BY <1>3 DEF Receive
<1> QED BY <1>1, <1>2, <1>3 DEF Next, vars

----------------------------------------------------------------------------
\* What a request watches it has found within reach, and has not lost since.
WatchInv == \A t \in Thread : watched[t] \subseteq Reachable

\* A command has been sent to the drones it watches among the addresses behind it, and
\* the object it has in its hands is one with its link up.
SentInv ==
    \A t \in Thread : request[t].route \in Commands =>
      /\ \A i \in 1..Len(WHITELIST) :
           i < request[t].at /\ WHITELIST[i] \in watched[t] => WHITELIST[i] \in request[t].served
      /\ At(t, "ok") => request[t].at > Len(WHITELIST)
      /\ At(t, "send") /\ Current(t) \in watched[t] =>
           request[t].object \in Object /\ object[Current(t)][request[t].object].link = "up"

LEMMA Watched ==
    ASSUME TypeOK, Watch, NEW t \in Thread
    PROVE  /\ request[t].pc # "idle" => watched'[t] = watched[t] \cap Reachable'
           /\ request[t].pc = "idle" =>
                watched'[t] = IF request'[t].pc = "idle" THEN {}
                              ELSE IF request'[t].route = "dronesupdate" THEN Reportable ELSE Reachable
BY DEF Watch, At

LEMMA Reaching ==
    ASSUME registry' = registry, object' = object
    PROVE  Reachable' = Reachable /\ Reportable' = Reportable
BY DEF Reachable, Reportable, Registered

LEMMA WatchInduction ==
    /\ Init => WatchInv
    /\ TypeOK /\ RoutesOK /\ WatchInv /\ [Next]_vars => WatchInv'
<1>1. Init => WatchInv
  BY DEF Init, WatchInv
<1>2. ASSUME TypeOK, RoutesOK, WatchInv, [Next]_vars, NEW t \in Thread
      PROVE  watched'[t] \subseteq Reachable'
  <2>1. CASE UNCHANGED vars
    BY <1>2, <2>1, Reaching DEF vars, WatchInv
  <2>2. CASE request[t].pc # "idle" /\ Watch
    BY <1>2, <2>2, Watched
  <2>3. CASE request[t].pc = "idle" /\ Watch /\ request'[t].pc = "idle"
    BY <1>2, <2>3, Watched
  <2>4. CASE request[t].pc = "idle" /\ request'[t].pc # "idle" /\ Next
    <3>1. \E r \in Requests[t] : Receive(t, r)
      <4>1. ASSUME NEW u \in Thread, Handle(u) PROVE FALSE
        <5>1. u = t
          BY <1>2, <2>4, <4>1, Handling
        <5> QED BY <2>4, <4>1, <5>1 DEF Handle, TestLogPath, AppendLog, CheckAddress, GetDrone,
              SendPacket, CountConnected, LookForAddress, ScanInterfaces, StoreDrone, BeginReport,
              NextKey, ReadDrone, Reply, At
      <4>2. ASSUME NEW u \in Thread, NEW r \in Requests[u], Receive(u, r), u # t PROVE FALSE
        BY <1>2, <2>4, <4>2 DEF Receive, TypeOK
      <4>3. ASSUME NEW d \in Drone, NEW o \in Objects[d], Callback(d, o) PROVE FALSE
        BY <1>2, <2>4, <4>3, CallingBack
      <4>4. CASE Restart
        BY <2>4, <4>4 DEF Restart, Idle
      <4> QED BY <2>4, <4>1, <4>2, <4>3, <4>4, SMTT(30) DEF Next
    <3>2. registry' = registry /\ object' = object /\ Watch
      BY <3>1 DEF Receive
    <3>3. Reportable \subseteq Reachable
      BY DEF Reportable
    <3> QED BY <1>2, <2>4, <3>2, <3>3, Reaching, Watched
  <2>5. Next => Watch
    BY <1>2, Handling, CallingBack DEF Next, Receive, Restart
  <2> QED BY <1>2, <2>1, <2>2, <2>3, <2>4, <2>5
<1> QED BY <1>1, <1>2 DEF WatchInv

\* What a request knows stays so while others take their steps.
LEMMA SentStays ==
    ASSUME TypeOK, RoutesOK, WatchInv, SentInv, [Next]_vars, Watch, ~Restart,
           NEW t \in Thread, request'[t] = request[t], request[t].route \in Commands
    PROVE  /\ \A i \in 1..Len(WHITELIST) :
                i < request'[t].at /\ WHITELIST[i] \in watched'[t]
                  => WHITELIST[i] \in request'[t].served
           /\ At(t, "ok")' => request'[t].at > Len(WHITELIST)
           /\ At(t, "send")' /\ Current(t)' \in watched'[t] =>
                /\ request'[t].object \in Object
                /\ object'[Current(t)'][request'[t].object].link = "up"
<1>1. request[t].pc # "idle"
  BY DEF RoutesOK, RouteOK, Idle, Commands
<1>2. watched'[t] = watched[t] \cap Reachable'
  BY <1>1, Watched
<1>3. Current(t)' = Current(t)
  BY DEF Current
<1>4. ASSUME At(t, "send"), Current(t) \in watched'[t]
      PROVE  /\ request[t].object \in Object
             /\ object'[Current(t)][request[t].object].link = "up"
  <2>1. Current(t) \in Drone /\ Current(t) \in Reachable'
    BY <1>2, <1>4 DEF TypeOK
  <2>2. request[t].object \in Object /\ object[Current(t)][request[t].object].link = "up"
    BY <1>2, <1>4 DEF SentInv
  <2> QED BY <2>1, <2>2, LinksStay
<1> QED BY <1>2, <1>3, <1>4 DEF SentInv, At

\* A command that goes on to the next address has served the one it leaves, or need not.
LEMMA SentInduction ==
    /\ Init => SentInv
    /\ TypeOK /\ RoutesOK /\ WatchInv /\ SentInv /\ [Next]_vars => SentInv'
<1>1. Init => SentInv
  BY DEF Init, SentInv, Idle, Commands
<1>2. ASSUME TypeOK, RoutesOK, WatchInv, SentInv, [Next]_vars, RoutesOK', NEW t \in Thread,
             request'[t].route \in Commands
      PROVE  /\ \A i \in 1..Len(WHITELIST) :
                  i < request'[t].at /\ WHITELIST[i] \in watched'[t]
                    => WHITELIST[i] \in request'[t].served
             /\ At(t, "ok")' => request'[t].at > Len(WHITELIST)
             /\ At(t, "send")' /\ Current(t)' \in watched'[t] =>
                  /\ request'[t].object \in Object
                  /\ object'[Current(t)'][request'[t].object].link = "up"
  <2> DEFINE r == request[t]
  <2>0. request \in [Thread -> Request] /\ r \in Request /\ RouteOK(r)
    BY <1>2 DEF TypeOK, RoutesOK, Request
  <2>1. CASE UNCHANGED vars
    BY <1>2, <2>1 DEF vars, SentInv, At, Current
  <2>2. CASE Restart
    BY <1>2, <2>2 DEF Restart, Idle, Commands
  <2>3. ASSUME NEW d \in Drone, NEW o \in Objects[d], Callback(d, o), ~Restart
        PROVE  Watch /\ request'[t] = r
    BY <1>2, <2>3, CallingBack
  <2>4. ASSUME NEW u \in Thread, u # t, Handle(u) \/ \E q \in Requests[u] : Receive(u, q)
        PROVE  Watch /\ request'[t] = r
    BY <1>2, <2>0, <2>4, Handling DEF Receive
  <2>5. CASE \E q \in Requests[t] : Receive(t, q)
    BY <1>2, <2>0, <2>5 DEF Receive, At, RouteOK, Idle, Request
  <2>6. CASE Handle(t)
    <3>1. r.route \in Commands /\ r.pc # "idle"
      BY <1>2, <2>0, <2>6, Handling DEF Idle, Commands, RouteOK
    <3>2. watched'[t] = watched[t] \cap Reachable'
      BY <1>2, <2>6, <3>1, Handling, Watched
    <3>3. \A i \in 1..Len(WHITELIST) :
             i < r.at /\ WHITELIST[i] \in watched'[t] => WHITELIST[i] \in r.served
      BY <1>2, <3>1, <3>2 DEF SentInv
    <3>4. ASSUME request'[t].at = r.at, request'[t].served = r.served,
                 request'[t].pc \in {"append", "check", "get", "error"}
          PROVE  /\ \A i \in 1..Len(WHITELIST) :
                      i < request'[t].at /\ WHITELIST[i] \in watched'[t]
                        => WHITELIST[i] \in request'[t].served
                 /\ ~At(t, "ok")' /\ ~At(t, "send")'
      BY <3>3, <3>4 DEF At
    <3>5. CASE TestLogPath(t)
      BY <2>0, <3>1, <3>4, <3>5 DEF TestLogPath, Goto, Raise, Body, Commands, Request
    <3>6. CASE AppendLog(t)
      BY <2>0, <3>1, <3>4, <3>6 DEF AppendLog, Goto, Raise, Body, Commands, Request
    <3>7. CASE CheckAddress(t)
      <4>1. CASE r.at > Len(WHITELIST) /\ Goto(t, "ok")
        BY <2>0, <3>3, <4>1 DEF Goto, At, Request
      <4>2. CASE Goto(t, "get")
        BY <2>0, <3>4, <4>2 DEF Goto, Request
      <4>3. CASE /\ Current(t) \notin Registered
                 /\ request' = [request EXCEPT ![t].at = @ + 1]
        <5>1. Current(t) \notin watched'[t]
          BY <3>2, <3>7, <4>3 DEF CheckAddress, Reachable, Registered
        <5>2. request'[t].at = r.at + 1 /\ request'[t].served = r.served /\ request'[t].pc = "check"
          BY <2>0, <3>7, <4>3 DEF CheckAddress, At, Request
        <5>3. r.at \in Nat /\ Len(WHITELIST) \in Nat
          BY <2>0, Whitelist DEF Request
        <5> QED BY <3>3, <5>1, <5>2, <5>3, SMTT(30) DEF At, Current
      <4> QED BY <3>7, <4>1, <4>2, <4>3 DEF CheckAddress
    <3>8. CASE GetDrone(t)
      <4>1. CASE Raise(t)
        BY <2>0, <3>4, <4>1 DEF Raise, Goto, Request
      <4>2. CASE /\ registry[Current(t)] # NoObject
                 /\ request' = [request EXCEPT ![t].pc = "send", ![t].object = registry[Current(t)]]
        <5>1. /\ request'[t].at = r.at /\ request'[t].served = r.served
              /\ request'[t].pc = "send" /\ request'[t].object = registry[Current(t)]
          BY <2>0, <4>2 DEF Request
        <5>2. Current(t)' = Current(t)
          BY <5>1 DEF Current
        <5>3. Current(t) \in watched'[t] =>
                /\ registry[Current(t)] \in Object
                /\ object'[Current(t)][registry[Current(t)]].link = "up"
          <6>1. registry' = registry /\ object' = object
            BY <3>8 DEF GetDrone
          <6> QED BY <1>2, <3>2, <4>2, <6>1 DEF Reachable, Registered, TypeOK
        <5> QED BY <3>3, <5>1, <5>2, <5>3 DEF At
      <4> QED BY <3>8, <4>1, <4>2 DEF GetDrone
    <3>9. CASE SendPacket(t)
      <4>1. CASE Raise(t)
        BY <2>0, <3>4, <4>1 DEF Raise, Goto, Request
      <4>2. ASSUME NEW served,
                   request' = [request EXCEPT ![t].pc = "check", ![t].at = @ + 1,
                                 ![t].object = NoObject, ![t].served = served],
                   served = IF object[Current(t)][r.object].link = "up"
                            THEN r.served \cup {Current(t)} ELSE r.served
            PROVE  /\ \A i \in 1..Len(WHITELIST) :
                        i < request'[t].at /\ WHITELIST[i] \in watched'[t]
                          => WHITELIST[i] \in request'[t].served
                   /\ ~At(t, "ok")' /\ ~At(t, "send")'
        <5>1. request'[t].at = r.at + 1 /\ request'[t].served = served /\ request'[t].pc = "check"
          BY <2>0, <4>2 DEF Request
        <5>2. Current(t) \in watched'[t] => Current(t) \in served
          BY <1>2, <3>1, <3>2, <3>9, <4>2 DEF SentInv, SendPacket
        <5>3. r.at \in Nat /\ Len(WHITELIST) \in Nat /\ r.served \subseteq served
          BY <2>0, <4>2, Whitelist DEF Request
        <5> QED BY <3>3, <5>1, <5>2, <5>3 DEF At, Current
      <4> QED BY <3>9, <4>1, <4>2 DEF SendPacket
    <3>10. CASE Reply(t)
      BY <1>2, <2>0, <3>10 DEF Reply, Idle, Commands
    <3> QED BY <2>0, <2>6, <3>1, <3>5, <3>6, <3>7, <3>8, <3>9, <3>10
            DEF Handle, CountConnected, LookForAddress, ScanInterfaces, StoreDrone, BeginReport,
                NextKey, ReadDrone, At, RouteOK, Commands
  <2> QED BY <1>2, <2>1, <2>2, <2>3, <2>4, <2>5, <2>6, SentStays DEF Next
<1> QED BY <1>1, <1>2, TypeInduction DEF SentInv

(* A command that is answered with success was sent to every drone that was   *)
(* connected all along, whatever was connected, lost or scanned for meanwhile *)
(* and however many requests ran at the same time.                            *)
THEOREM OkIsSent == Spec => []OkMeansSent
<1>1. TypeOK /\ WatchInv /\ SentInv => OkMeansSent
  <2> SUFFICES ASSUME TypeOK, SentInv, NEW t \in Thread, request[t].route \in Commands, At(t, "ok"),
                      NEW d \in watched[t]
               PROVE  d \in request[t].served
    BY DEF OkMeansSent
  <2>1. d \in Drone
    BY DEF TypeOK
  <2>2. PICK i \in 1..Len(WHITELIST) : WHITELIST[i] = d
    BY <2>1, Whitelist
  <2>3. i < request[t].at
    BY <2>2, Whitelist DEF SentInv, TypeOK
  <2> QED BY <2>2, <2>3 DEF SentInv
<1> QED BY <1>1, TypeInduction, WatchInduction, SentInduction, PTL DEF Spec

----------------------------------------------------------------------------
(* What the model's instances assume, and the code does not enforce: nobody   *)
(* asks for a scan while another one runs.                                    *)
OneScanner == \E s \in Thread : \A t \in Thread : "scan" \in Requests[t] => t = s

\* A thread serves what is asked for in it.
ServesInv == \A t \in Thread : request[t].route \in Requests[t] \cup {"none"}

\* The address that is looked for is not in the dictionary, and an open link belongs to
\* what is, or to what the scan has in its hands.
ScanInv ==
    /\ \A t \in Thread : request[t].pc \in {"interfaces", "store"} => registry[Current(t)] = NoObject
    /\ \A d \in Drone, o \in Object : object[d][o].link # "closed" =>
         registry[d] = o \/ \E t \in Thread : At(t, "store") /\ Current(t) = d /\ request[t].object = o

LEMMA ServesInduction ==
    /\ Init => ServesInv
    /\ TypeOK /\ RoutesOK /\ ServesInv /\ [Next]_vars => ServesInv'
<1>1. Init => ServesInv
  BY DEF Init, ServesInv, Idle
<1>2. ASSUME TypeOK, RoutesOK, ServesInv, [Next]_vars, NEW t \in Thread
      PROVE  request'[t].route \in Requests[t] \cup {"none"}
  <2>1. CASE UNCHANGED vars \/ Restart
    BY <1>2, <2>1 DEF vars, ServesInv, Restart, Idle
  <2>2. ASSUME NEW u \in Thread, Handle(u) PROVE request'[t].route \in Requests[t] \cup {"none"}
    BY <1>2, <2>2, Handling DEF ServesInv, Idle
  <2>3. ASSUME NEW u \in Thread, NEW q \in Requests[u], Receive(u, q)
        PROVE  request'[t].route \in Requests[t] \cup {"none"}
    <3>1. request \in [Thread -> Request]
      BY <1>2 DEF TypeOK, Request
    <3>2. \A pc : [request[u] EXCEPT !.route = q, !.pc = pc].route = q
      BY <3>1 DEF Request
    <3>3. request'[u].route = q
      BY <2>3, <3>1, <3>2 DEF Receive
    <3> QED BY <1>2, <2>3, <3>1, <3>3 DEF Receive, ServesInv
  <2>4. ASSUME NEW d \in Drone, NEW o \in Objects[d], Callback(d, o)
        PROVE  request'[t].route \in Requests[t] \cup {"none"}
    BY <1>2, <2>4, CallingBack DEF ServesInv
  <2> QED BY <1>2, <2>1, <2>2, <2>3, <2>4 DEF Next
<1> QED BY <1>1, <1>2 DEF ServesInv

LEMMA OneScan ==
    ASSUME OneScanner, TypeOK, RoutesOK, ServesInv, NEW t \in Thread, NEW u \in Thread,
           request[t].pc \in {"count", "look", "interfaces", "store"},
           request[u].pc \in {"count", "look", "interfaces", "store"}
    PROVE  t = u
BY DEF OneScanner, RoutesOK, RouteOK, ServesInv

LEMMA ScanInduction ==
    ASSUME OneScanner
    PROVE  /\ Init => ScanInv
           /\ TypeOK /\ RoutesOK /\ ServesInv /\ ScanInv /\ [Next]_vars => ScanInv'
<1> DEFINE Held(d, o) == registry[d] = o \/ \E t \in Thread : At(t, "store") /\ Current(t) = d
                                                            /\ request[t].object = o
           Free(t) == request[t].pc \in {"interfaces", "store"} => registry[Current(t)] = NoObject
<1>1. Init => ScanInv
  BY DEF Init, ScanInv, Idle, NewObject
<1>2. ASSUME TypeOK, RoutesOK, ServesInv, ScanInv, [Next]_vars PROVE ScanInv'
  <2>0. request \in [Thread -> Request] /\ registry \in [Drone -> Object \cup {NoObject}]
    BY <1>2 DEF TypeOK, Request
  <2>a. \A t \in Thread : request[t].pc \in {"interfaces", "store"} => Current(t) \in Drone
    BY <1>2, <2>0, Whitelist DEF RoutesOK, RouteOK, Current, Request
  <2>1. CASE UNCHANGED vars
    BY <1>2, <2>1 DEF vars, ScanInv, At, Current
  <2>2. CASE Restart
    BY <2>2 DEF Restart, ScanInv, Idle, NewObject
  <2>3. ASSUME NEW d \in Drone, NEW o \in Objects[d], Callback(d, o) PROVE ScanInv'
    <3>1. request' = request /\ \A t \in Thread : Current(t)' = Current(t)
      BY <1>2, <2>3, CallingBack DEF Current
    <3>2. \A t \in Thread : Free(t)'
      BY <1>2, <2>0, <2>a, <2>3, <3>1, CallingBack DEF ScanInv
    <3>3. ASSUME NEW e \in Drone, NEW p \in Object, object'[e][p].link # "closed"
          PROVE  Held(e, p)'
      <4>1. object[e][p].link # "closed"
        <5>1. CASE e # d \/ p # o
          BY <1>2, <2>3, <3>3, <5>1, CallingBack
        <5>2. CASE e = d /\ p = o
          BY <1>2, <2>3, <3>3, <5>2 DEF Callback, Connected, ConnectionFailed, Disconnected,
             LogPosition, LogBattery, LogRanger
        <5> QED BY <5>1, <5>2
      <4>2. CASE registry' = registry
        BY <1>2, <3>1, <4>1, <4>2 DEF ScanInv, At
      <4>3. CASE Disconnected(d, o) /\ registry' = [registry EXCEPT ![d] = NoObject]
        <5>1. CASE e # d
          BY <1>2, <2>0, <3>1, <4>1, <4>3, <5>1 DEF ScanInv, At
        <5>2. CASE e = d
          <6>1. p # o
            BY <1>2, <2>3, <3>3, <4>3, <5>2, CallingBack DEF Disconnected, SetObject, TypeOK
          <6>2. Held(d, o) /\ Held(d, p)
            BY <1>2, <2>3, <4>1, <4>3, <5>2, CallingBack DEF ScanInv, Disconnected
          <6>3. ~(registry[d] = p)
            BY <1>2, <6>1, <6>2, ObjectAssumption DEF ScanInv, At
          <6> QED BY <3>1, <5>2, <6>2, <6>3 DEF At
        <5> QED BY <5>1, <5>2
      <4> QED BY <1>2, <2>3, <4>2, <4>3, CallingBack
    <3> QED BY <3>2, <3>3 DEF ScanInv
  <2>4. ASSUME NEW u \in Thread, NEW q \in Requests[u], Receive(u, q) PROVE ScanInv'
    <3>1. registry' = registry /\ object' = object /\ request[u].pc = "idle"
      BY <2>4 DEF Receive, At
    <3>2. \A t \in Thread : t # u => request'[t] = request[t]
      BY <2>0, <2>4 DEF Receive
    <3>3. request'[u].pc \in {"check", "begin", "test"}
      <4>1. \A x : [request[u] EXCEPT !.route = q, !.pc = x].pc = x
        BY <2>0 DEF Request
      <4> QED BY <2>0, <2>4, <4>1 DEF Receive
    <3>4. \A t \in Thread : t # u => Current(t)' = Current(t)
      BY <3>2 DEF Current
    <3> QED BY <1>2, <3>1, <3>2, <3>3, <3>4 DEF ScanInv, At
  <2>5. ASSUME NEW u \in Thread, Handle(u) PROVE ScanInv'
    <3> DEFINE r == request[u]
    <3>1. \A t \in Thread : t # u => request'[t] = request[t] /\ Current(t)' = Current(t)
      BY <1>2, <2>5, Handling DEF Current
    <3>2. r \in Request
      BY <2>0
    <3>3. ASSUME registry' = registry, object' = object, r.pc # "store",
                 request'[u].pc # "store", request'[u].pc = "interfaces" => registry[Current(u)'] = NoObject
          PROVE  ScanInv'
      BY <1>2, <3>1, <3>3 DEF ScanInv, At
    <3>4. CASE ScanInterfaces(u)
      <4>1. CASE /\ object' = object
                 /\ request' = [request EXCEPT ![u].pc = "look", ![u].at = @ + 1]
        BY <2>0, <3>2, <3>3, <3>4, <4>1 DEF ScanInterfaces, At, Request
      <4>2. ASSUME NEW p \in Objects[Current(u)],
                   object' = [object EXCEPT ![Current(u)][p] = [NewObject EXCEPT !.link = "opening"]],
                   request' = [request EXCEPT ![u].pc = "store", ![u].object = p]
            PROVE  ScanInv'
        <5>1. request'[u].pc = "store" /\ request'[u].object = p /\ Current(u)' = Current(u)
          BY <2>0, <3>2, <4>2 DEF Request, Current
        <5>2. registry' = registry /\ registry[Current(u)] = NoObject /\ r.pc = "interfaces"
          BY <1>2, <3>4 DEF ScanInv, ScanInterfaces, At
        <5>3. \A t \in Thread : Free(t)'
          BY <1>2, <3>1, <5>1, <5>2 DEF ScanInv
        <5>4. ASSUME NEW d \in Drone, NEW o \in Object, object'[d][o].link # "closed"
              PROVE  Held(d, o)'
          <6>1. CASE d = Current(u) /\ o = p
            BY <5>1, <6>1 DEF At
          <6>2. CASE ~(d = Current(u) /\ o = p)
            <7>1. object'[d][o] = object[d][o]
              BY <1>2, <4>2, <6>2 DEF TypeOK
            <7>2. \A t \in Thread : ~At(t, "store")
              BY <1>2, <5>2, OneScan DEF At
            <7> QED BY <1>2, <5>2, <5>4, <7>1, <7>2 DEF ScanInv
          <6> QED BY <6>1, <6>2
        <5> QED BY <5>3, <5>4 DEF ScanInv
      <4> QED BY <3>4, <4>1, <4>2 DEF ScanInterfaces
    <3>5. CASE StoreDrone(u)
      <4>1. /\ r.pc = "store" /\ registry[Current(u)] = NoObject /\ Current(u) \in Drone
            /\ registry' = [registry EXCEPT ![Current(u)] = r.object] /\ object' = object
        BY <1>2, <2>a, <3>5 DEF StoreDrone, At, ScanInv
      <4>2. request'[u].pc = "look"
        BY <2>0, <3>2, <3>5 DEF StoreDrone, Request
      <4>3. \A t \in Thread : t # u => request[t].pc \notin {"interfaces", "store"}
        BY <1>2, <4>1, OneScan
      <4>4. ASSUME NEW d \in Drone, NEW o \in Object, object'[d][o].link # "closed"
            PROVE  registry'[d] = o
        BY <1>2, <2>0, <4>1, <4>3, <4>4, ObjectAssumption DEF ScanInv, At
      <4> QED BY <3>1, <4>2, <4>3, <4>4 DEF ScanInv
    <3>6. CASE LookForAddress(u)
      <4>1. CASE Goto(u, "interfaces") /\ Current(u) \notin Registered /\ r.at <= Len(WHITELIST)
        <5>1. request'[u].pc = "interfaces" /\ Current(u)' = Current(u)
          BY <2>0, <3>2, <4>1 DEF Goto, Request, Current
        <5>2. Current(u) \in Drone
          BY <3>2, <4>1, Whitelist DEF Current, Request
        <5> QED BY <3>3, <3>6, <4>1, <5>1, <5>2 DEF LookForAddress, At, Registered
      <4>2. CASE Goto(u, "ok") \/ request' = [request EXCEPT ![u].at = @ + 1]
        BY <2>0, <3>2, <3>3, <3>6, <4>2, ZenonT(40) DEF LookForAddress, At, Goto, Request
      <4> QED BY <3>6, <4>1, <4>2 DEF LookForAddress
    <3>7. CASE Reply(u)
      BY <2>0, <3>3, <3>7 DEF Reply, Idle
    <3>8. CASE SendPacket(u)
      <4>1. r.pc = "send" /\ request'[u].pc \in {"check", "error"}
        BY <2>0, <3>2, <3>8 DEF SendPacket, At, Goto, Raise, Request
      <4> QED BY <3>3, <3>8, <4>1 DEF SendPacket
    <3>9. ASSUME registry' = registry, object' = object, r.pc # "store", NEW pc, Goto(u, pc),
                 pc \notin {"interfaces", "store"}
          PROVE  ScanInv'
      <4>1. request'[u].pc = pc
        BY <2>0, <3>2, <3>9 DEF Goto, Request
      <4> QED BY <3>3, <3>9, <4>1
    <3>10. CASE TestLogPath(u)
      BY <3>9, <3>10 DEF TestLogPath, At, Raise, Body
    <3>11. CASE AppendLog(u)
      BY <3>9, <3>11 DEF AppendLog, At, Raise, Body
    <3>12. CASE CheckAddress(u)
      BY <2>0, <3>2, <3>3, <3>9, <3>12 DEF CheckAddress, At, Request
    <3>13. CASE GetDrone(u)
      BY <2>0, <3>2, <3>3, <3>9, <3>13 DEF GetDrone, At, Raise, Request
    <3>14. CASE CountConnected(u)
      BY <3>9, <3>14 DEF CountConnected, At
    <3>15. CASE BeginReport(u)
      BY <2>0, <3>2, <3>3, <3>15 DEF BeginReport, At, Request
    <3>16. CASE NextKey(u)
      <4>1. ASSUME NEW d, request' = [request EXCEPT ![u].pc = "read", ![u].drone = d,
                                                     ![u].seen = @ \cup {d}]
            PROVE  ScanInv'
        <5>1. request'[u].pc = "read"
          BY <2>0, <3>2, <4>1 DEF Request
        <5> QED BY <3>3, <3>16, <5>1 DEF NextKey, At
      <4> QED BY <3>9, <3>16, <4>1 DEF NextKey, At, Raise
    <3>17. CASE ReadDrone(u)
      BY <2>0, <3>2, <3>3, <3>9, <3>17 DEF ReadDrone, At, Raise, Request
    <3> QED BY <2>5, <3>4, <3>5, <3>6, <3>7, <3>8, <3>10, <3>11, <3>12, <3>13, <3>14, <3>15,
               <3>16, <3>17 DEF Handle
  <2> QED BY <1>2, <2>1, <2>2, <2>3, <2>4, <2>5 DEF Next
<1> QED BY <1>1, <1>2

(* As long as no two scans overlap, every open link belongs to an object that *)
(* commands reach, for any number of drones and requests.                     *)
THEOREM LinksAreReachable == ASSUME OneScanner PROVE Spec => []NoLostLink
<1>1. ScanInv => NoLostLink
  BY DEF ScanInv, NoLostLink
<1> QED BY <1>1, TypeInduction, ServesInduction, ScanInduction, PTL DEF Spec

----------------------------------------------------------------------------
\* A report watches drones that have all it reads; those it has passed it shows, but for
\* the one it is reading.
ReportInv ==
    \A t \in Thread : request[t].route = "dronesupdate" =>
      /\ watched[t] \subseteq Reportable
      /\ \A d \in watched[t] \cap request[t].seen :
           d \in request[t].served \/ (At(t, "read") /\ d = request[t].drone)
      /\ request[t].pc \in {"test", "append", "answer"} => watched[t] \subseteq request[t].served

\* Data that has arrived stays, as long as the link does.
LEMMA DataStays ==
    ASSUME OneScanner, TypeOK, ScanInv, [Next]_vars, ~Restart, NEW d \in Reportable, d \in Reachable'
    PROVE  d \in Reportable'
<1> DEFINE o == registry[d]
<1>1. /\ d \in Drone /\ o \in Object /\ o # NoObject /\ object[d][o].link = "up"
      /\ object[d][o].info = "full" /\ object[d][o].ranger
      /\ registry \in [Drone -> Object \cup {NoObject}]
      /\ object \in [Drone -> [Object -> LinkState]] /\ object[d][o] \in LinkState
  BY DEF Reportable, Reachable, Registered, TypeOK, LinkState
<1>2. SUFFICES registry'[d] = o /\ object'[d][o].info = "full" /\ object'[d][o].ranger
  BY DEF Reportable
<1>3. ASSUME NEW t \in Thread, Handle(t)
      PROVE  registry'[d] = o /\ object'[d][o] = object[d][o]
  <2>1. registry'[d] = o
    <3>1. CASE StoreDrone(t)
      BY <1>1, <3>1 DEF StoreDrone, ScanInv, At
    <3> QED BY <1>3, <3>1, Handling
  <2>2. object'[d][o] = object[d][o]
    <3>1. ASSUME NEW p, Unused(Current(t), p),
                 object' = [object EXCEPT ![Current(t)][p] = [NewObject EXCEPT !.link = "opening"]]
          PROVE  object'[d][o] = object[d][o]
      <4>1. ~(Current(t) = d /\ p = o)
        BY <3>1 DEF Unused
      <4> QED BY <1>1, <3>1, <4>1
    <3> QED BY <1>3, <3>1, Handling DEF ScanInterfaces
  <2> QED BY <2>1, <2>2
<1>4. ASSUME NEW e \in Drone, NEW p \in Objects[e], Callback(e, p)
      PROVE  registry'[d] = o /\ object'[d][o].info = "full" /\ object'[d][o].ranger
  <2>1. registry'[d] = o
    BY <1>1, <1>4, CallingBack DEF Reachable, Registered
  <2>2. CASE e # d \/ p # o
    BY <1>1, <1>4, <2>1, <2>2, CallingBack
  <2>3. CASE e = d /\ p = o
    <3>1. \E new : SetObject(d, o, new) /\ new.info = "full" /\ new.ranger
      <4>1. /\ \A l : LET new == [object[d][o] EXCEPT !.link = l] IN new.info = "full" /\ new.ranger
            /\ \A f \in BOOLEAN : LET new == [object[d][o] EXCEPT !.info = "full", !.empty = f]
                                  IN  new.info = "full" /\ new.ranger
            /\ LET new == [object[d][o] EXCEPT !.ranger = TRUE] IN new.info = "full" /\ new.ranger
        BY <1>1 DEF LinkState
      <4> QED BY <1>1, <1>4, <2>3, <4>1 DEF Callback, Connected, ConnectionFailed, Disconnected,
                 LogPosition, LogBattery, LogRanger
    <3> QED BY <1>1, <2>1, <3>1 DEF SetObject
  <2> QED BY <2>2, <2>1, <2>3
<1>5. ASSUME NEW t \in Thread, NEW q \in Requests[t], Receive(t, q)
      PROVE  registry' = registry /\ object' = object
  BY <1>5 DEF Receive
<1> QED BY <1>1, <1>3, <1>4, <1>5 DEF Next, vars

LEMMA ReportInduction ==
    ASSUME OneScanner
    PROVE  /\ Init => ReportInv
           /\ TypeOK /\ RoutesOK /\ WatchInv /\ ScanInv /\ ReportInv /\ [Next]_vars => ReportInv'
<1>1. Init => ReportInv
  BY DEF Init, ReportInv, Idle
<1>2. ASSUME TypeOK, RoutesOK, WatchInv, ScanInv, ReportInv, [Next]_vars, NEW t \in Thread,
             request'[t].route = "dronesupdate"
      PROVE  /\ watched'[t] \subseteq Reportable'
             /\ \A d \in watched'[t] \cap request'[t].seen :
                  d \in request'[t].served \/ (At(t, "read")' /\ d = request'[t].drone)
             /\ request'[t].pc \in {"test", "append", "answer"} => watched'[t] \subseteq request'[t].served
  <2> DEFINE r == request[t]
  <2>0. request \in [Thread -> Request] /\ r \in Request /\ RouteOK(r)
    BY <1>2 DEF TypeOK, RoutesOK, Request
  <2>1. CASE UNCHANGED vars
    BY <1>2, <2>1, Reaching DEF vars, ReportInv, At
  <2>2. CASE Restart
    BY <1>2, <2>2 DEF Restart, Idle
  <2>3. ASSUME Next, ~Restart, Watch, r.pc # "idle", r.route = "dronesupdate"
        PROVE  /\ watched'[t] = watched[t] \cap Reachable' /\ watched'[t] \subseteq Reportable'
               /\ watched'[t] \subseteq watched[t]
               /\ \A d \in watched'[t] \cap r.seen :
                    d \in r.served \/ (At(t, "read") /\ d = r.drone)
               /\ r.pc \in {"test", "append", "answer"} => watched'[t] \subseteq r.served
    <3>1. watched'[t] = watched[t] \cap Reachable'
      BY <1>2, <2>3, Watched
    <3>2. watched'[t] \subseteq Reportable'
      BY <1>2, <2>3, <3>1, DataStays DEF ReportInv
    <3> QED BY <1>2, <2>3, <3>1, <3>2 DEF ReportInv
  <2>4. ASSUME request'[t] = r, Next, Watch, ~Restart
        PROVE  /\ watched'[t] \subseteq Reportable'
               /\ \A d \in watched'[t] \cap request'[t].seen :
                    d \in request'[t].served \/ (At(t, "read")' /\ d = request'[t].drone)
               /\ request'[t].pc \in {"test", "append", "answer"}
                    => watched'[t] \subseteq request'[t].served
    <3>1. r.pc # "idle" /\ r.route = "dronesupdate"
      BY <1>2, <2>0, <2>4 DEF RouteOK, Idle
    <3> QED BY <2>3, <2>4, <3>1 DEF At
  <2>5. ASSUME NEW d \in Drone, NEW o \in Objects[d], Callback(d, o)
        PROVE  request'[t] = r /\ Watch /\ Next
    BY <1>2, <2>5, CallingBack DEF Next
  <2>6. ASSUME NEW u \in Thread, u # t, Handle(u) \/ \E q \in Requests[u] : Receive(u, q)
        PROVE  request'[t] = r /\ Watch /\ Next
    BY <1>2, <2>0, <2>6, Handling DEF Receive, Next
  <2>7. ASSUME NEW q \in Requests[t], Receive(t, q)
        PROVE  /\ watched'[t] \subseteq Reportable'
               /\ request'[t].seen = {} /\ request'[t].pc = "begin"
    <3>1. r = Idle /\ Watch /\ registry' = registry /\ object' = object
      BY <2>0, <2>7 DEF Receive, At, RouteOK
    <3>2. \A pc : /\ [r EXCEPT !.route = q, !.pc = pc].route = q /\ [r EXCEPT !.route = q, !.pc = pc].pc = pc
                  /\ [r EXCEPT !.route = q, !.pc = pc].seen = {}
      BY <2>0, <3>1 DEF Request, Idle
    <3>3. request'[t].seen = {} /\ request'[t].route = q
      BY <2>0, <2>7, <3>2 DEF Receive
    <3>4. request'[t].pc = "begin"
      BY <1>2, <2>0, <2>7, <3>2, <3>3 DEF Receive
    <3> QED BY <1>2, <3>1, <3>3, <3>4, Reaching, Watched DEF Idle
  <2>8. CASE Handle(t) /\ ~Restart
    <3>1. r.route = "dronesupdate" /\ r.pc # "idle" /\ Watch /\ Next
      BY <1>2, <2>0, <2>8, Handling DEF Idle, RouteOK, Next
    <3>2. /\ watched'[t] = watched[t] \cap Reachable' /\ watched'[t] \subseteq Reportable'
          /\ watched'[t] \subseteq watched[t]
          /\ \A d \in watched'[t] \cap r.seen : d \in r.served \/ (At(t, "read") /\ d = r.drone)
          /\ r.pc \in {"test", "append", "answer"} => watched'[t] \subseteq r.served
      BY <2>3, <2>8, <3>1
    <3>3. ASSUME NEW pc, Goto(t, pc), r.pc # "read", pc \in {"test", "append", "answer"}
                   => watched'[t] \subseteq r.served
          PROVE  /\ \A d \in watched'[t] \cap request'[t].seen : d \in request'[t].served
                 /\ request'[t].pc \in {"test", "append", "answer"}
                      => watched'[t] \subseteq request'[t].served
      <4>1. request'[t].seen = r.seen /\ request'[t].served = r.served /\ request'[t].pc = pc
        BY <2>0, <3>3 DEF Goto, Request
      <4> QED BY <3>2, <3>3, <4>1 DEF At
    <3>4. CASE TestLogPath(t)
      BY <3>1, <3>2, <3>3, <3>4 DEF TestLogPath, At, Raise
    <3>5. CASE AppendLog(t)
      BY <3>1, <3>2, <3>3, <3>5 DEF AppendLog, At, Raise
    <3>6. CASE BeginReport(t)
      <4>1. request'[t].seen = r.seen /\ request'[t].served = r.served /\ request'[t].pc = "next"
        BY <2>0, <3>6 DEF BeginReport, Request
      <4> QED BY <3>2, <3>6, <4>1 DEF BeginReport, At
    <3>7. CASE NextKey(t)
      <4>1. CASE Raise(t)
        BY <3>2, <3>3, <3>7, <4>1 DEF NextKey, At, Raise
      <4>2. CASE Registered \subseteq r.seen /\ Goto(t, "test")
        <5>1. watched'[t] \subseteq r.seen
          BY <1>2, <3>2, <4>2 DEF WatchInv, Reachable
        <5> QED BY <3>2, <3>3, <3>7, <4>2, <5>1 DEF NextKey, At
      <4>3. ASSUME NEW d, request' = [request EXCEPT ![t].pc = "read", ![t].drone = d,
                                                     ![t].seen = @ \cup {d}]
            PROVE  /\ \A e \in watched'[t] \cap request'[t].seen :
                        e \in request'[t].served \/ (At(t, "read")' /\ e = request'[t].drone)
                   /\ request'[t].pc = "read"
        <5>1. /\ request'[t].seen = r.seen \cup {d} /\ request'[t].served = r.served
              /\ request'[t].pc = "read" /\ request'[t].drone = d
          BY <2>0, <4>3 DEF Request
        <5> QED BY <3>2, <3>7, <5>1 DEF NextKey, At
      <4> QED BY <3>2, <3>7, <4>1, <4>2, <4>3 DEF NextKey
    <3>8. CASE ReadDrone(t)
      <4>1. CASE r.drone \in watched'[t]
        <5>1. /\ registry[r.drone] # NoObject
              /\ object[r.drone][registry[r.drone]].info = "full"
              /\ object[r.drone][registry[r.drone]].ranger
          BY <1>2, <3>1, <3>2, <4>1 DEF ReportInv, Reportable, Reachable, Registered
        <5>2. request' = [request EXCEPT ![t].pc = "next", ![t].served = @ \cup {r.drone}]
          BY <3>8, <5>1 DEF ReadDrone
        <5>3. /\ request'[t].pc = "next" /\ request'[t].seen = r.seen
              /\ request'[t].served = r.served \cup {r.drone}
          BY <2>0, <5>2 DEF Request
        <5> QED BY <3>2, <5>3
      <4>2. CASE r.drone \notin watched'[t]
        <5>1. /\ request'[t].pc \in {"error", "next"} /\ request'[t].seen = r.seen
              /\ r.served \subseteq request'[t].served
          <6>1. ASSUME NEW pc \in {"error", "next"}, Goto(t, pc)
                PROVE  /\ request'[t].pc \in {"error", "next"} /\ request'[t].seen = r.seen
                       /\ r.served \subseteq request'[t].served
            BY <2>0, <6>1 DEF Goto, Request
          <6>2. ASSUME request' = [request EXCEPT ![t].pc = "next", ![t].served = @ \cup {r.drone}]
                PROVE  /\ request'[t].pc \in {"error", "next"} /\ request'[t].seen = r.seen
                       /\ r.served \subseteq request'[t].served
            BY <2>0, <6>2 DEF Request
          <6> QED BY <3>8, <6>1, <6>2 DEF ReadDrone, Raise
        <5> QED BY <3>2, <4>2, <5>1, SMTT(30)
      <4> QED BY <4>1, <4>2
    <3>9. CASE Reply(t)
      BY <1>2, <2>0, <3>9 DEF Reply, Idle
    <3> QED BY <2>0, <2>8, <3>1, <3>2, <3>4, <3>5, <3>6, <3>7, <3>8, <3>9
            DEF Handle, CheckAddress, GetDrone, SendPacket, CountConnected, LookForAddress,
                ScanInterfaces, StoreDrone, At, RouteOK, Commands
  <2>9. Restart \/ ~Restart
    OBVIOUS
  <2> QED BY <1>2, <2>1, <2>2, <2>4, <2>5, <2>6, <2>7, <2>8, <2>9 DEF Next
<1> QED BY <1>1, <1>2 DEF ReportInv

(* A status report that is answered with success shows every drone whose link *)
(* and data were there all along: no drone is passed over, though the         *)
(* dictionary loses and gains keys under the iteration.                       *)
THEOREM ReportIsComplete == ASSUME OneScanner PROVE Spec => []OkMeansReported
<1>1. RoutesOK /\ ReportInv => OkMeansReported
  BY DEF RoutesOK, RouteOK, ReportInv, OkMeansReported, At
<1> QED BY <1>1, TypeInduction, WatchInduction, ServesInduction, ScanInduction, ReportInduction,
           PTL DEF Spec
=============================================================================
