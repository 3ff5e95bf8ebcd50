------------------------------ MODULE Services ------------------------------
(* Two services of the firmware that share no state: the storage, and the    *)
(* log, once with the commands for one block that is started and stopped,    *)
(* once with those for two blocks that compete for the pool.  A behaviour is *)
(* one of the part it starts with.                                           *)
EXTENDS Kve, LogService

CONSTANTS OneBlock, TwoBlocks   \* the commands of the client, in either part

ASSUME CommandsAssumption == OneBlock \subseteq Requests /\ TwoBlocks \subseteq Requests

VARIABLE part

servicesVars == <<part, storageVars, vars>>

ServicesInit ==
    /\ part \in {"storage", "log", "pool"}
    /\ StorageInit /\ Init

InLog(A) == part = "log" /\ A /\ UNCHANGED <<part, storageVars>>
InPool(A) == part = "pool" /\ A /\ UNCHANGED <<part, storageVars>>

ServicesNext ==
    \/ part = "storage" /\ StorageNext /\ UNCHANGED <<part, vars>>
    \/ InLog(Serve(OneBlock) \/ Own)
    \/ InPool(Serve(TwoBlocks) \/ Own)

\* The fairness of the log service, where a block may be started.
ServicesFairness ==
    /\ \A s \in Slot : SF_servicesVars(InLog(Fire(s)))
    /\ SF_servicesVars(InLog(ReadCommand))
    /\ WF_servicesVars(InLog(WorkerStep))

ServicesSpec == ServicesInit /\ [][ServicesNext]_servicesVars /\ ServicesFairness

ServicesTypeOK == TypeOK /\ StorageTypeOK
=============================================================================
