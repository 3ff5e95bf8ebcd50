----------------------------- MODULE LogService -----------------------------
(* The log service of the firmware (modules/src/log.c): the task that serves *)
(* the client's commands under logLock, the timers of the blocks and the     *)
(* commands they are sent, and the worker (modules/src/worker.c) that makes  *)
(* the packets and, when the link is lost, resets the service without the    *)
(* lock. The worker runs before the other two whenever it can.               *)
EXTENDS Integers, SequencesExt

CONSTANTS
    Slot, Op,           \* positions in logBlocks and logOps, from 0
    Id,                 \* block numbers
    Requests,           \* the commands of the client
    Known,              \* the variables of the TOC
    TypeLength(_),
    MaxLength,          \* LOG_MAX_LEN
    WorkerQueueLength, TimerQueueLength,
    Nil

\* BLOCK_ID_FREE, which no command can name: an identifier is unsigned.
Free == -1

\* A command, as the client sends it.
Listed(what, i, list) == [doing |-> what, id |-> i, list |-> list]
For(what, i) == [doing |-> what, id |-> i]
ResetAll == [doing |-> "reset"]

\* A list of variables. One that the TOC does not know has a type, and its length, too.
IsList(list) ==
    /\ Len(list) \in Nat /\ list = [n \in 1..Len(list) |-> list[n]]
    /\ \A n \in 1..Len(list) : TypeLength(list[n]) \in Nat

IsCommand(r) ==
    \/ r = ResetAll
    \/ \E what \in {"delete", "start", "single", "stop"}, i \in Id : r = For(what, i)
    \/ /\ \E what \in {"create", "append"}, i \in Id : r = Listed(what, i, r.list)
       /\ IsList(r.list)

ASSUME PoolAssumption ==
    /\ Slot \subseteq Nat /\ IsFiniteSet(Slot) /\ Op \subseteq Nat /\ IsFiniteSet(Op)
    /\ Nil \notin Op /\ Nil \notin Known
    /\ Free \notin Id
    /\ \A r \in Requests : IsCommand(r)
    /\ WorkerQueueLength \in Nat /\ TimerQueueLength \in Nat
    /\ MaxLength \in Nat /\ \A v \in Known : TypeLength(v) \in Nat

VARIABLES
    blocks, ops,        \* logBlocks and logOps
    handler,            \* the command logTask holds logLock for
    active, commands,   \* the timers that run, and what the timer task has to read
    queue, worker,      \* workerQueue, and what the worker is doing
    sent,               \* the packet the last step sent
    connected, full,    \* the link, and whether txQueue has no room
    entered             \* history: a command was taken in the middle of a worker's reset

link == <<connected, full>>
vars == <<blocks, ops, handler, active, commands, queue, worker, sent, link, entered>>

Storing == -2   \* the worker's other work: writing the EEPROM
Idle == [doing |-> "idle"]

Lowest(S) == CHOOSE n \in S : \A m \in S : n <= m

Used == {s \in Slot : blocks[s].id # Free}
Has(i) == {s \in Slot : blocks[s].id = i}
Find(i) == Lowest(Has(i))

----------------------------------------------------------------------------
\* Lists of operations: the one n links after o, or Nil when there are not so many.
After(os, o) ==
    LET at[n \in 0..Cardinality(Op)] ==
            IF n = 0 THEN o ELSE IF at[n - 1] = Nil THEN Nil ELSE os[at[n - 1]].next
    IN  at
Linked(os, o) == {After(os, o)[n] : n \in 0..Cardinality(Op)} \ {Nil}

Terminated(os, o) == After(os, o)[Cardinality(Op)] = Nil

\* The variables of the list, in its order.
Values(os, o) ==
    [n \in {n \in 1..Cardinality(Op) : After(os, o)[n - 1] # Nil} |->
        os[After(os, o)[n - 1]].variable]

BlockLength(os, head) ==
    LET list == Values(os, head)
        length[n \in 0..Len(list)] == IF n = 0 THEN 0 ELSE length[n - 1] + TypeLength(list[n])
    IN  length[Len(list)]

BlockAppendOps_KeepsNext(l, o, v) ==   \* mutant: the new operation keeps its old link
    LET new == [l.ops EXCEPT ![o].variable = v]
        last == CHOOSE n \in Linked(new, l.head) : new[n].next = Nil
    IN  IF l.head = Nil THEN [l EXCEPT !.head = o, !.ops = new]
        ELSE [l EXCEPT !.ops = [new EXCEPT ![last].next = o]]
BlockAppendOps(l, o, v) ==
    LET new == [l.ops EXCEPT ![o] = [next |-> Nil, variable |-> v]]
        last == CHOOSE n \in Linked(new, l.head) : new[n].next = Nil
    IN  IF l.head = Nil THEN [l EXCEPT !.head = o, !.ops = new]
        ELSE [l EXCEPT !.ops = [new EXCEPT ![last].next = o]]

\* One turn of logAppendBlock's loop; an error ends it, and so does a list that is a
\* circle: blockCalcLength never returns, and the command is never answered.
AppendVariable(l, v) ==
    LET unused == {o \in Op : l.ops[o].variable = Nil} IN
    IF l.answer # "ok" THEN l
    ELSE IF ~Terminated(l.ops, l.head) THEN [l EXCEPT !.answer = "hung"]
    ELSE IF BlockLength(l.ops, l.head) + TypeLength(v) > MaxLength
         THEN [l EXCEPT !.answer = "E2BIG"]
    ELSE IF unused = {} THEN [l EXCEPT !.answer = "ENOMEM"]
    ELSE IF v \notin Known THEN [l EXCEPT !.answer = "ENOENT"]
    ELSE BlockAppendOps(l, Lowest(unused), v)

AppendVariables(l, list) ==
    LET turn[n \in 0..Len(list)] ==
            IF n = 0 THEN l ELSE AppendVariable(turn[n - 1], list[n])
    IN  turn[Len(list)]

FreeOps(os, os1) == [o \in Op |-> IF o \in os1 THEN [os[o] EXCEPT !.variable = Nil] ELSE os[o]]
OpsOf(s) == Linked(ops, blocks[s].ops)

----------------------------------------------------------------------------
Init ==
    /\ blocks = [s \in Slot |-> [id |-> Free, ops |-> Nil]]
    /\ ops = [o \in Op |-> [next |-> Nil, variable |-> Nil]]
    /\ handler = Idle
    /\ active = {} /\ commands = <<>>
    /\ queue = <<>> /\ worker = Idle
    /\ sent = Nil /\ connected = TRUE /\ full = FALSE
    /\ entered = FALSE

HasRoom(n) == Len(commands) + n <= TimerQueueLength

\* The worker is waiting, so that tasks of lower priority run.
WorkerWaits ==
    \/ worker.doing = "idle" /\ queue = <<>>
    \/ worker.doing = "lock" /\ handler # Idle
    \/ worker.doing = "store"
    \/ worker.doing = "reset" /\ worker.at # "next" /\ ~HasRoom(1)

Tell(new) == HasRoom(Len(new)) /\ commands' = commands \o new
\* A deletion stands for the two commands xTimerStop and xTimerDelete send.
Command(s, what) == [slot |-> s, what |-> what]

Schedule(work) ==
    queue' = IF Len(queue) < WorkerQueueLength THEN Append(queue, work) ELSE queue

----------------------------------------------------------------------------
\* logTask: a command, the lock, the handler, the answer, and the lock back.
Take(command) ==
    /\ WorkerWaits /\ connected /\ handler = Idle
    /\ handler' = command
    /\ entered' = (entered \/ worker.doing = "reset")
    /\ sent' = Nil
    /\ UNCHANGED <<blocks, ops, active, commands, queue, worker, link>>

Handling(doing) ==
    /\ WorkerWaits /\ handler.doing = doing
    /\ sent' = Nil
    /\ UNCHANGED <<active, worker, link, entered>>
Answer(a) == handler' = [doing |-> "answer", answer |-> a]

Create_KeepsOps ==   \* mutant: the new block keeps the list of the one before
    /\ Handling("create")
    /\ LET fresh == Has(Free) IN
       \/ /\ Has(handler.id) # {} /\ Answer("EEXIST") /\ UNCHANGED blocks
       \/ /\ Has(handler.id) = {} /\ fresh = {} /\ Answer("ENOMEM") /\ UNCHANGED blocks
       \/ /\ Has(handler.id) = {} /\ fresh # {}
          /\ blocks' = [blocks EXCEPT ![Lowest(fresh)].id = handler.id]
          /\ handler' = [handler EXCEPT !.doing = "append"]
    /\ UNCHANGED <<ops, commands, queue>>
Create ==
    /\ Handling("create")
    /\ LET fresh == Has(Free) IN
       \/ /\ Has(handler.id) # {} /\ Answer("EEXIST") /\ UNCHANGED blocks
       \/ /\ Has(handler.id) = {} /\ fresh = {} /\ Answer("ENOMEM") /\ UNCHANGED blocks
       \/ /\ Has(handler.id) = {} /\ fresh # {}
          /\ blocks' = [blocks EXCEPT ![Lowest(fresh)] = [id |-> handler.id, ops |-> Nil]]
          /\ handler' = [handler EXCEPT !.doing = "append"]
    /\ UNCHANGED <<ops, commands, queue>>

\* The other commands, for a block that is not there.
NotFound ==
    /\ \E doing \in {"append", "delete", "start", "single", "stop"} : Handling(doing)
    /\ Has(handler.id) = {}
    /\ Answer("ENOENT")
    /\ UNCHANGED <<blocks, ops, commands, queue>>

AppendBlock ==
    /\ Handling("append") /\ Has(handler.id) # {}
    /\ LET s == Find(handler.id)
           l == AppendVariables([ops |-> ops, head |-> blocks[s].ops, answer |-> "ok"],
                                handler.list)
       IN  /\ ops' = l.ops
           /\ blocks' = [blocks EXCEPT ![s].ops = l.head]
           /\ Answer(l.answer)
    /\ UNCHANGED <<commands, queue>>

\* The list goes back to the pool; the block goes on pointing to it.
Delete ==
    /\ Handling("delete") /\ Has(handler.id) # {}
    /\ LET s == Find(handler.id)
       IN  /\ ops' = FreeOps(ops, OpsOf(s))
           /\ \/ /\ Terminated(ops, blocks[s].ops)
                 /\ blocks' = [blocks EXCEPT ![s].id = Free]
                 /\ Tell(<<Command(s, "delete")>>)
                 /\ Answer("ok")
              \/ ~Terminated(ops, blocks[s].ops) /\ Answer("hung") /\ UNCHANGED <<blocks, commands>>
    /\ UNCHANGED queue

Start ==
    /\ Handling("start") /\ Has(handler.id) # {}
    /\ Tell(<<Command(Find(handler.id), "start")>>)
    /\ Answer("ok")
    /\ UNCHANGED <<blocks, ops, queue>>

Single ==
    /\ Handling("single") /\ Has(handler.id) # {}
    /\ Schedule(Find(handler.id))
    /\ Answer("ok")
    /\ UNCHANGED <<blocks, ops, commands>>

Stop ==
    /\ Handling("stop") /\ Has(handler.id) # {}
    /\ Tell(<<Command(Find(handler.id), "stop")>>)
    /\ Answer("ok")
    /\ UNCHANGED <<blocks, ops, queue>>

\* logReset under the lock: every block stopped and deleted, then every operation freed.
LogReset ==
    /\ Tell(SetToSeq({Command(s, "delete") : s \in Used}))
    /\ blocks' = [s \in Slot |-> [blocks[s] EXCEPT !.id = Free]]
    /\ ops' = FreeOps(ops, Op)

Reset == Handling("reset") /\ LogReset /\ Answer("ok") /\ UNCHANGED queue

Give ==
    /\ Handling("answer") /\ handler.answer # "hung" /\ ~full
    /\ handler' = Idle
    /\ UNCHANGED <<blocks, ops, commands, queue>>

----------------------------------------------------------------------------
\* The timer task: a period of a block ends, or a command is read.
Fire(s) ==
    /\ WorkerWaits /\ s \in active
    /\ Schedule(s)
    /\ sent' = Nil
    /\ UNCHANGED <<blocks, ops, handler, active, commands, worker, link, entered>>

ReadCommand ==
    /\ WorkerWaits /\ commands # <<>>
    /\ active' = IF Head(commands).what = "start" THEN active \cup {Head(commands).slot}
                 ELSE active \ {Head(commands).slot}
    /\ commands' = Tail(commands)
    /\ sent' = Nil
    /\ UNCHANGED <<blocks, ops, handler, queue, worker, link, entered>>

----------------------------------------------------------------------------
\* The worker's own reset, without the lock: what it does next, and for which slot.
Resetting(at, s) == [doing |-> "reset", at |-> at, slot |-> s]
InReset(at) == worker.doing = "reset" /\ worker.at = at
ResetOnly == UNCHANGED <<handler, active, queue, connected, entered>> /\ sent' = Nil

LogRunBlock(s, head) ==
    /\ worker' = IF connected THEN Idle ELSE Resetting("next", 0)
    /\ sent' = IF connected THEN [id |-> blocks[s].id, values |-> Values(ops, head)] ELSE Nil
    /\ UNCHANGED <<blocks, ops, handler, active, commands, link, entered>>

\* The next block in use is to be stopped; after the last, all is freed and txQueue is
\* flushed.
ResetNext ==
    /\ InReset("next")
    /\ LET left == {s \in Used : s >= worker.slot} IN
       \/ /\ left # {}
          /\ worker' = Resetting("stop", Lowest(left))
          /\ UNCHANGED <<blocks, ops, full>>
       \/ /\ left = {}
          /\ blocks' = [s \in Slot |-> [blocks[s] EXCEPT !.id = Free]]
          /\ ops' = FreeOps(ops, Op)
          /\ full' = FALSE /\ worker' = Idle
    /\ UNCHANGED commands
    /\ ResetOnly

\* The block is stopped, when there is room, and its list goes back to the pool. It is
\* still there: a handler that would give it back needs room, too, and the worker takes
\* what there is before it.
ResetStop ==
    /\ InReset("stop")
    /\ Tell(<<Command(worker.slot, "stop")>>)
    /\ ops' = FreeOps(ops, OpsOf(worker.slot))
    /\ worker' = Resetting("delete", worker.slot)
    /\ UNCHANGED <<blocks, full>>
    /\ ResetOnly

\* Its timer is deleted, when there is room, and then the block is free.
ResetDelete ==
    /\ InReset("delete")
    /\ Tell(<<Command(worker.slot, "delete")>>)
    /\ blocks' = [blocks EXCEPT ![worker.slot].id = Free]
    /\ worker' = Resetting("next", worker.slot + 1)
    /\ UNCHANGED <<ops, full>>
    /\ ResetOnly

Receive ==
    /\ worker.doing = "idle" /\ queue # <<>>
    /\ queue' = Tail(queue)
    /\ LET work == Head(queue) IN
       \/ /\ work \in Slot /\ handler = Idle
          /\ LogRunBlock(work, blocks[work].ops)
       \/ /\ work = Storing \/ handler # Idle
          /\ worker' = IF work = Storing THEN [doing |-> "store"]
                       ELSE [doing |-> "lock", slot |-> work, head |-> blocks[work].ops]
          /\ sent' = Nil
          /\ UNCHANGED <<blocks, ops, handler, active, commands, link, entered>>

Resume ==
    /\ worker.doing = "lock" /\ handler = Idle
    /\ LogRunBlock(worker.slot, worker.head)
    /\ UNCHANGED queue

\* The data is written, and the answer waits for room in txQueue.
Stored ==
    /\ worker.doing = "store" /\ ~full
    /\ worker' = Idle /\ sent' = Nil
    /\ UNCHANGED <<blocks, ops, handler, active, commands, queue, link, entered>>

----------------------------------------------------------------------------
\* The localization service schedules the worker's other work; the link comes and goes.
Persist ==
    /\ WorkerWaits /\ Storing \notin ToSet(queue) /\ worker.doing # "store"
    /\ Schedule(Storing)
    /\ sent' = Nil
    /\ UNCHANGED <<blocks, ops, handler, active, commands, worker, link, entered>>

\* txQueue empties while there is a client.
Link ==
    /\ connected' = ~connected /\ full' = FALSE /\ sent' = Nil
    /\ UNCHANGED <<blocks, ops, handler, active, commands, queue, worker, entered>>

\* Other tasks go on sending without one.
Fill ==
    /\ WorkerWaits /\ ~connected /\ ~full
    /\ full' = TRUE /\ sent' = Nil
    /\ UNCHANGED <<blocks, ops, handler, active, commands, queue, worker, connected, entered>>

WorkerStep == Receive \/ Resume \/ Stored \/ ResetNext \/ ResetStop \/ ResetDelete
Handle == Create \/ NotFound \/ AppendBlock \/ Delete \/ Start \/ Single \/ Stop \/ Reset \/ Give

Serve(requests) == \E command \in requests : Take(command)

Own ==
    \/ Handle
    \/ \E s \in Slot : Fire(s)
    \/ ReadCommand
    \/ WorkerStep
    \/ Persist \/ Link \/ Fill

Next == Serve(Requests) \/ Own

\* The worker goes on when it can, and the timer task, which reads the commands and lets
\* running timers go off, gets its turn when the worker waits again and again. The client
\* and the link owe nothing, and nobody makes room in txQueue without a client.
Fairness ==
    /\ \A s \in Slot : SF_vars(Fire(s))
    /\ SF_vars(ReadCommand)
    /\ WF_vars(WorkerStep)

Spec == Init /\ [][Next]_vars /\ Fairness

----------------------------------------------------------------------------
TypeOK ==
    /\ blocks \in [Slot -> [id : Id \cup {Free}, ops : Op \cup {Nil}]]
    /\ ops \in [Op -> [next : Op \cup {Nil}, variable : Known \cup {Nil}]]
    /\ active \subseteq Slot
    /\ Len(commands) <= TimerQueueLength /\ Len(queue) <= WorkerQueueLength
    /\ ToSet(queue) \subseteq Slot \cup {Storing}
    /\ connected \in BOOLEAN /\ full \in BOOLEAN /\ entered \in BOOLEAN

(* From any operation, used or freed, the links come to an end, so that the *)
(* worker, which follows a list it read before it had the lock, never walks  *)
(* in a circle: until a command is taken in the middle of a worker's reset.  *)
ListsEnd == ~entered => \A o \in Op : Terminated(ops, o)

(* The same of every list of a block, at any time, as the big lock that      *)
(* protects the data structures would have it (log.c:212).                   *)
ListsAlwaysEnd == \A s \in Slot : Terminated(ops, blocks[s].ops)

(* The pool, its links and the slots are the client's table: no operation is  *)
(* in two blocks or lost, and an error leaves what was appended before it.    *)
(* With the worker's reset the table is empty, before the blocks are, as no   *)
(* client can tell: until a command is taken in the middle of a reset.        *)
ClientTable ==
    IF worker.doing = "reset" THEN [i \in {} |-> <<>>]
    ELSE [i \in {blocks[s].id : s \in Used} |-> Values(ops, blocks[Find(i)].ops)]
ClientAnswer == IF handler.doing = "answer" THEN handler.answer ELSE "none"
Table == INSTANCE LogTable WITH
    table <- ClientTable, answer <- ClientAnswer,
    Lists <- {r.list : r \in {q \in Requests : q.doing \in {"create", "append"}}},
    MaxBlocks <- Cardinality(Slot), MaxOps <- Cardinality(Op)
KeepsTheTable == Table!Init /\ [][entered' \/ Table!Next]_(Table!vars)


(* A client that goes leaves nothing behind, as the comment in logRunBlock    *)
(* says: all the logging is disabled when the connection is lost.             *)
LossAlwaysEndsLogging ==
    (active # {} /\ commands = <<>> /\ handler = Idle /\ ~connected)
        ~> (connected \/ Used = {})

(* What logLock is for: a packet carries the variables of the block it names. *)
LockProtects ==
    sent # Nil => Has(sent.id) \cap Used # {}
                  /\ sent.values = Values(ops, blocks[Find(sent.id)].ops)
=============================================================================
