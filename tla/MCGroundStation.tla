--------------------------- MODULE MCGroundStation ---------------------------
(* GroundStation with the two drones of PhysicalDroneManager.WHITELIST; the  *)
(* first has two objects, so that a stale one and its successor may coexist. *)
EXTENDS GroundStation, TLC

CONSTANTS d1, d2, o1, o2, o3, commander, scanner

MCObjects == (d1 :> {o1, o2}) @@ (d2 :> {o3})

MCWhitelist == <<d1, d2>>

\* One thread serves the operator's commands and the client's polling, and
\* another one the scans.
MCRequests == [t \in Thread |-> IF t = scanner THEN {"scan"}
                                ELSE {"explore", "land", "dronesupdate"}]

\* What an object that nothing refers to holds makes no difference.
View == <<registry, [d \in Drone |-> [o \in Objects[d] |->
                       IF Unused(d, o) THEN NewObject ELSE object[d][o]]],
          logPath, request, watched>>

\* Nothing chooses between two objects of an address.
Symmetry == Permutations({o1, o2})
=============================================================================
