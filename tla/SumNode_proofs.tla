---------------------------- MODULE SumNode_proofs ----------------------------
(***************************************************************************)
(* Proofs about the operator node: what it reads, tracks, caches and sends, *)
(* for any number of chains, tasks and restarts.                             *)
(***************************************************************************)
EXTENDS SumNode, TLAPS

\* What each phase may rely on: an iterator is open in one phase only, and a task
\* in work, or still to be looked at, is tracked.
Flow ==
  /\ phase # "events" => events.tasks = {}
  /\ phase = "events" => events.chain \in Chain
  /\ phase \in {"idle", "poll", "events"} => results = {}
  /\ \A t \in results : tasks[t] \in TaskState
  /\ phase \in {"status", "respond"} =>
       /\ work.task \in Task /\ work.task \notin results
       /\ tasks[work.task] \in TaskState

\* No query has been made beyond the finalized block.
Behind == \A c \in Chain : lastBlocks[c] <= finalBlock[c] + 1

Final(t) == created[t] # None /\ created[t].block <= finalBlock[created[t].chain]

\* Tasks the node or a contract knows of are final: a transaction that is under way
\* when the node restarts included.
KnownTo(t) ==
  \/ t \in seen \/ t \in lost \/ t \in events.tasks \/ tasks[t] # None
  \/ \E c \in Chain : <<c, t>> \in mempool \/ t \in responded[c]

Known == \A t \in Task : KnownTo(t) => Final(t)

\* A cached status that ends the interest in a chain is true from then on.
Cached ==
  \A t \in Task, c \in Chain :
    tasks[t] # None /\ tasks[t].statuses[c] \notin {"Unknown", "Created"} =>
      /\ TaskStatus(c, t) # "Created"
      /\ tasks[t].statuses[c] = "Responded" => t \in responded[c]

IInv == TypeOK /\ Flow /\ Behind /\ Known /\ Cached /\ EventsSeenOnce

-----------------------------------------------------------------------------
(* The chains move on, the node stands still.                                *)

LEMMA CreatedType ==
  ASSUME TypeOK, NEW t \in Task, created[t] # None
  PROVE  created[t].chain \in Chain /\ created[t].block \in Nat
<1>1. created[t] \in [chain : Chain, block : Nat]
  BY DEF TypeOK
<1>2. QED
  BY <1>1

LEMMA TrackedType ==
  ASSUME TypeOK, NEW t \in Task, tasks[t] # None
  PROVE  /\ tasks[t] \in TaskState
         /\ tasks[t].aggProof \in BOOLEAN
         /\ tasks[t].statuses \in [Chain -> Status]
<1>1. tasks[t] \in TaskState
  BY DEF TypeOK, TaskState
<1>2. QED
  BY <1>1 DEF TaskState

\* A known task keeps its event, and a contract that does not wait for its answer
\* does not wait again.
LEMMA ChainsMoveOn ==
  ASSUME TypeOK, [Next]_vars, NEW t \in Task, Final(t)
  PROVE  /\ created'[t] = created[t]
         /\ Final(t)'
         /\ \A c \in Chain :
              /\ responded[c] \subseteq responded'[c]
              /\ TaskStatus(c, t) # "Created" => TaskStatus(c, t)' # "Created"
<1>1. created[t].chain \in Chain /\ created[t].block \in Nat
  BY CreatedType DEF Final
<1>2. created'[t] = created[t]
  <2>1. ASSUME NEW q \in Task, NEW c \in Chain, CreateTask(q, c)
        PROVE  created'[t] = created[t]
    <3>1. q # t
      BY <2>1 DEF CreateTask, Final
    <3>2. QED
      BY <2>1, <3>1 DEF CreateTask, TypeOK
  <2>2. CASE \A q \in Task, c \in Chain : ~CreateTask(q, c)
    BY <2>2 DEF Next, ChainNext, NodeNext, vars, chainVars, Mine, Finalize, Expire, EpochEnds,
       Tick, PollChain, PollUpTo, ReadStatus, RespondTask, NewTask, FetchTask, Decide,
       ReadStatusError, NewTaskError, EventsDone, ResultsDone, RespondError, RespondDone, Restart
  <2>3. QED
    BY <2>1, <2>2
<1>3. \A c \in Chain : finalBlock[c] <= finalBlock'[c] /\ finalBlock[c] \in Nat /\ finalBlock'[c] \in Nat
  <2>1. ASSUME NEW d \in Chain, Finalize(d)
        PROVE  \A c \in Chain : finalBlock[c] <= finalBlock'[c] /\ finalBlock'[c] \in Nat
    BY <2>1 DEF Finalize, TypeOK
  <2>2. CASE \A d \in Chain : ~Finalize(d)
    <3>1. UNCHANGED finalBlock
      BY <2>2 DEF Next, ChainNext, NodeNext, vars, chainVars, CreateTask, Mine, Expire, EpochEnds,
         Tick, PollChain, PollUpTo, ReadStatus, RespondTask, NewTask, FetchTask, Decide,
         ReadStatusError, NewTaskError, EventsDone, ResultsDone, RespondError, RespondDone, Restart
    <3>2. QED
      BY <3>1 DEF TypeOK
  <2>3. QED
    BY <2>1, <2>2 DEF TypeOK
<1>4. \A c \in Chain : responded[c] \subseteq responded'[c]
  <2>1. ASSUME NEW d \in Chain, NEW q \in Task, Mine(d, q)
        PROVE  \A c \in Chain : responded[c] \subseteq responded'[c]
    BY <2>1 DEF Mine, TypeOK
  <2>2. CASE \A d \in Chain, q \in Task : ~Mine(d, q)
    <3>1. UNCHANGED responded
      BY <2>2 DEF Next, ChainNext, NodeNext, vars, chainVars, CreateTask, Finalize, Expire, EpochEnds,
         Tick, PollChain, PollUpTo, ReadStatus, RespondTask, NewTask, FetchTask, Decide,
         ReadStatusError, NewTaskError, EventsDone, ResultsDone, RespondError, RespondDone, Restart
    <3>2. QED
      BY <3>1
  <2>3. QED
    BY <2>1, <2>2
<1>5. expired \subseteq expired'
  BY DEF Next, ChainNext, NodeNext, vars, chainVars, CreateTask, Mine, Finalize, Expire, EpochEnds,
     Tick, PollChain, PollUpTo, ReadStatus, RespondTask, NewTask, FetchTask, Decide,
     ReadStatusError, NewTaskError, EventsDone, ResultsDone, RespondError, RespondDone, Restart
<1>6. Final(t)'
  BY <1>1, <1>2, <1>3 DEF Final
<1>7. ASSUME NEW c \in Chain, TaskStatus(c, t) # "Created"
      PROVE  TaskStatus(c, t)' # "Created"
  <2>1. t \in responded[c] \/ created[t].chain # c \/ t \in expired
    BY <1>7 DEF TaskStatus, Final
  <2>2. t \in responded'[c] \/ created'[t].chain # c \/ t \in expired'
    BY <1>2, <1>4, <1>5, <2>1
  <2>3. QED
    BY <1>2, <2>2 DEF TaskStatus, Final
<1>8. QED
  BY <1>2, <1>4, <1>6, <1>7

-----------------------------------------------------------------------------
(* Type correctness.                                                        *)

LEMMA StatusType ==
  ASSUME NEW c, NEW t
  PROVE  /\ TaskStatus(c, t) \in Status
         /\ TaskStatus(c, t) = "Responded" => t \in responded[c]
         /\ TaskStatus(c, t) = "Created" =>
              /\ t \notin responded[c] /\ t \notin expired
              /\ created[t] # None /\ created[t].chain = c
<1>1. CASE t \in responded[c]
  BY <1>1 DEF TaskStatus, Status
<1>2. CASE t \notin responded[c] /\ (created[t] = None \/ (created[t] # None /\ created[t].chain # c))
  <2>1. CASE created[t] = None
    BY <1>2, <2>1 DEF TaskStatus, Status
  <2>2. CASE created[t] # None /\ created[t].chain # c
    BY <1>2, <2>2 DEF TaskStatus, Status
  <2>3. QED
    BY <1>2, <2>1, <2>2
<1>3. CASE t \notin responded[c] /\ created[t] # None /\ created[t].chain = c /\ t \in expired
  <2>1. TaskStatus(c, t) = "Expired"
    BY <1>3 DEF TaskStatus
  <2>2. QED
    BY <2>1 DEF Status
<1>4. CASE t \notin responded[c] /\ created[t] # None /\ created[t].chain = c /\ t \notin expired
  <2>1. TaskStatus(c, t) = "Created"
    BY <1>4 DEF TaskStatus
  <2>2. QED
    BY <1>4, <2>1 DEF Status
<1>5. QED
  BY <1>1, <1>2, <1>3, <1>4

\* ReadStatus replaces one status of the task in work.
LEMMA ReadStatusEffect ==
  ASSUME TypeOK, Flow, NEW c \in Chain, ReadStatus(c)
  PROVE  /\ work.task \in Task /\ tasks[work.task] \in TaskState
         /\ tasks'[work.task] =
              [aggProof |-> tasks[work.task].aggProof,
               statuses |-> [tasks[work.task].statuses EXCEPT ![c] = TaskStatus(c, work.task)]]
         /\ tasks'[work.task] \in TaskState
         /\ \A t \in Task : t # work.task => tasks'[t] = tasks[t]
         /\ DOMAIN tasks' = Task
<1>1. work.task \in Task /\ tasks[work.task] \in TaskState
  BY DEF ReadStatus, Flow
<1>2. tasks \in [Task -> TaskState \cup {None}]
  BY DEF TypeOK, TaskState
<1> DEFINE old == tasks[work.task]
           st  == [old.statuses EXCEPT ![c] = TaskStatus(c, work.task)]
           new == [old EXCEPT !.statuses = st]
<1>3. tasks' = [tasks EXCEPT ![work.task] = new]
  BY Zenon DEF ReadStatus
<1>4. TaskStatus(c, work.task) \in Status
  BY StatusType
<1>5. st \in [Chain -> Status]
  <2>1. old.statuses \in [Chain -> Status]
    BY <1>1 DEF TaskState
  <2>2. QED
    BY <1>4, <2>1
<1>6. new = [aggProof |-> old.aggProof, statuses |-> st]
  <2> HIDE DEF st
  <2>1. old \in TaskState
    BY <1>1
  <2> HIDE DEF old
  <2>2. QED
    BY <2>1 DEF TaskState
<1>7. new \in TaskState
  <2> HIDE DEF st
  <2>1. old.aggProof \in BOOLEAN
    BY <1>1 DEF TaskState
  <2> HIDE DEF old, new
  <2>2. QED
    BY <1>5, <1>6, <2>1 DEF TaskState
<1>8. tasks'[work.task] = new /\ \A t \in Task : t # work.task => tasks'[t] = tasks[t]
  <2> HIDE DEF new
  <2>1. QED
    BY <1>1, <1>2, <1>3
<1>9. DOMAIN tasks' = Task
  <2> HIDE DEF new
  <2>1. QED
    BY <1>2, <1>3
<1>10. tasks'[work.task] = [aggProof |-> old.aggProof, statuses |-> st]
  <2> HIDE DEF st, old, new
  <2>1. QED
    BY <1>6, <1>8
<1>11. QED
  BY <1>1, <1>7, <1>8, <1>9, <1>10

\* NewTask tracks a task with nothing known of any chain, or changes no task.
LEMMA NewTaskEffect ==
  ASSUME TypeOK, NEW t \in Task, NewTask(t)
  PROVE  /\ \/ /\ TaskStatus(events.chain, t) = "Created"
               /\ tasks'[t] = [aggProof |-> FALSE, statuses |-> [c \in Chain |-> "Unknown"]]
               /\ tasks'[t] \in TaskState
            \/ tasks'[t] = tasks[t]
         /\ \A q \in Task : q # t => tasks'[q] = tasks[q]
         /\ tasks' \in [Task -> TaskState \cup {None}]
<1> DEFINE new == [aggProof |-> FALSE, statuses |-> [c \in Chain |-> "Unknown"]]
<1>1. new \in TaskState
  <2>1. [c \in Chain |-> "Unknown"] \in [Chain -> Status]
    BY DEF Status
  <2>2. QED
    BY <2>1 DEF TaskState
<1>2. tasks \in [Task -> TaskState \cup {None}]
  BY DEF TypeOK, TaskState
<1>3. CASE TaskStatus(events.chain, t) = "Created"
  <2>1. tasks' = [tasks EXCEPT ![t] = new]
    BY <1>3 DEF NewTask
  <2> HIDE DEF new
  <2>2. /\ tasks'[t] = new /\ \A q \in Task : q # t => tasks'[q] = tasks[q]
        /\ tasks' \in [Task -> TaskState \cup {None}]
    BY <1>1, <1>2, <2>1
  <2>3. new = [aggProof |-> FALSE, statuses |-> [c \in Chain |-> "Unknown"]]
    BY DEF new
  <2>4. QED
    BY <1>1, <1>3, <2>2, <2>3
<1>4. CASE TaskStatus(events.chain, t) # "Created"
  BY <1>2, <1>4 DEF NewTask
<1>5. QED
  BY <1>3, <1>4

\* Decide keeps the statuses of the task in work, or drops it when it is settled.
LEMMA DecideEffect ==
  ASSUME TypeOK, Flow, NEW r \in BOOLEAN, Decide(r)
  PROVE  /\ work.task \in Task /\ tasks[work.task] \in TaskState
         /\ \/ tasks'[work.task] = None /\ Settled(tasks[work.task].statuses)
            \/ /\ tasks'[work.task] \in TaskState
               /\ tasks'[work.task].statuses = tasks[work.task].statuses
         /\ phase' = "respond" => tasks'[work.task] \in TaskState
         /\ phase' = "respond" => work'.task = work.task
         /\ phase' \in {"respond", "results"}
         /\ work' \in [task : Task \cup {None}, chains : SUBSET Chain]
         /\ \A t \in Task : t # work.task => tasks'[t] = tasks[t]
         /\ tasks' \in [Task -> TaskState \cup {None}]
<1>1. work.task \in Task /\ tasks[work.task] \in TaskState
  BY DEF Decide, Flow
<1>2. tasks \in [Task -> TaskState \cup {None}]
  BY DEF TypeOK, TaskState
<1> DEFINE old == tasks[work.task]
           st  == old.statuses
           new == [aggProof |-> old.aggProof \/ r, statuses |-> st]
<1>3. new \in TaskState /\ new.statuses = st
  <2>1. old.aggProof \in BOOLEAN /\ st \in [Chain -> Status]
    BY <1>1 DEF TaskState
  <2> HIDE DEF old, st
  <2>2. (old.aggProof \/ r) \in BOOLEAN
    OBVIOUS
  <2>3. QED
    BY <2>1, <2>2 DEF TaskState
<1>4. CASE Settled(st)
  <2>1. tasks' = [tasks EXCEPT ![work.task] = None]
    BY <1>4, Zenon DEF Decide
  <2>2. phase' = "results" /\ work' = NoWork
    BY <1>4 DEF Decide
  <2>3. work' \in [task : Task \cup {None}, chains : SUBSET Chain]
    BY <2>2 DEF NoWork
  <2>4. /\ tasks'[work.task] = None /\ \A t \in Task : t # work.task => tasks'[t] = tasks[t]
        /\ tasks' \in [Task -> TaskState \cup {None}]
    BY <1>1, <1>2, <2>1
  <2>5. QED
    BY <1>1, <1>4, <2>2, <2>3, <2>4
<1>5. CASE ~Settled(st)
  <2>1. tasks' = [tasks EXCEPT ![work.task] = new]
    BY <1>5, Zenon DEF Decide
  <2>2. \/ phase' = "results" /\ work' = NoWork
        \/ phase' = "respond" /\ work' = [work EXCEPT !.chains = {c \in Chain : st[c] # "Responded"}]
    BY <1>5 DEF Decide
  <2>3. /\ work' \in [task : Task \cup {None}, chains : SUBSET Chain]
        /\ phase' = "respond" => work'.task = work.task
    <3>1. work \in [task : Task \cup {None}, chains : SUBSET Chain]
      BY DEF TypeOK
    <3> DEFINE unanswered == {c \in Chain : st[c] # "Responded"}
    <3>2. unanswered \in SUBSET Chain
      OBVIOUS
    <3>3. \/ phase' = "results" /\ work' = NoWork
          \/ phase' = "respond" /\ work' = [work EXCEPT !.chains = unanswered]
      BY <2>2
    <3> HIDE DEF unanswered
    <3>4. QED
      BY <3>1, <3>2, <3>3 DEF NoWork
  <2>4. /\ tasks'[work.task] = new /\ \A t \in Task : t # work.task => tasks'[t] = tasks[t]
        /\ tasks' \in [Task -> TaskState \cup {None}]
    <3> HIDE DEF new
    <3>1. QED
      BY <1>1, <1>2, <1>3, <2>1
  <2>5. QED
    <3> HIDE DEF new
    <3>1. QED
      BY <1>1, <1>3, <2>2, <2>3, <2>4
<1>6. QED
  BY <1>4, <1>5

LEMMA TypeStep ==
  ASSUME SumNodeAssumption, TypeOK, Flow, [Next]_vars
  PROVE  TypeOK'
<1>1. ASSUME NEW t \in Task, NEW c \in Chain, CreateTask(t, c)
      PROVE  TypeOK'
  <2>1. finalBlock[c] + 1 \in Nat
    BY DEF TypeOK
  <2> DEFINE new == [chain |-> c, block |-> finalBlock[c] + 1]
  <2>2. new \in [chain : Chain, block : Nat]
    BY <2>1
  <2>3. created' = [created EXCEPT ![t] = new]
    BY <1>1 DEF CreateTask
  <2>4. created' \in [Task -> [chain : Chain, block : Nat] \cup {None}]
    <3> HIDE DEF new
    <3>1. QED
      BY <2>2, <2>3 DEF TypeOK
  <2>5. QED
    BY <1>1, <2>4 DEF CreateTask, TypeOK, nodeVars
<1>2. ASSUME NEW t \in Task, NEW c \in Chain, Mine(c, t)
      PROVE  TypeOK'
  BY <1>2 DEF Mine, TypeOK, nodeVars
<1>3. ASSUME NEW c \in Chain, Finalize(c)
      PROVE  TypeOK'
  BY <1>3 DEF Finalize, TypeOK, nodeVars
<1>4. ASSUME NEW t \in Task, Expire(t) \/ EpochEnds(t)
      PROVE  TypeOK'
  BY <1>4 DEF Expire, EpochEnds, TypeOK, nodeVars
<1>5. ASSUME Tick
      PROVE  TypeOK'
  BY <1>5 DEF Tick, TypeOK, chainVars
<1>6. ASSUME NEW c \in Chain, PollChain(c)
      PROVE  TypeOK'
  <2>1. Filtered(c, finalBlock[c]) \subseteq Task
    BY DEF Filtered
  <2>2. QED
    BY <1>6, <2>1 DEF PollChain, PollUpTo, TypeOK, chainVars
<1>7. ASSUME NEW c \in Chain, ReadStatus(c)
      PROVE  TypeOK'
  <2>1. tasks' \in [Task -> TaskState \cup {None}]
    <3>1. \A t \in Task : tasks'[t] \in TaskState \cup {None}
      BY <1>7, ReadStatusEffect DEF TypeOK, TaskState
    <3>2. tasks' = [t \in DOMAIN tasks' |-> tasks'[t]]
      BY <1>7, Zenon DEF ReadStatus
    <3>3. DOMAIN tasks' = Task
      BY <1>7, ReadStatusEffect
    <3>4. QED
      BY <3>1, <3>2, <3>3
  <2>2. QED
    BY <1>7, <2>1 DEF ReadStatus, TypeOK, TaskState, chainVars
<1>8. ASSUME NEW c \in Chain, RespondTask(c)
      PROVE  TypeOK'
  <2>1. work.task \in Task
    BY <1>8 DEF RespondTask, Flow
  <2>2. QED
    BY <1>8, <2>1 DEF RespondTask, TypeOK
<1>9. ASSUME NEW t \in Task, NewTask(t)
      PROVE  TypeOK'
  <2>1. tasks' \in [Task -> TaskState \cup {None}]
    BY <1>9, NewTaskEffect
  <2>2. outdated' \subseteq Task
    BY <1>9 DEF NewTask, TypeOK
  <2>3. QED
    BY <1>9, <2>1, <2>2 DEF NewTask, TypeOK, TaskState
<1>10. ASSUME NEW t \in Task, FetchTask(t)
       PROVE  TypeOK'
  <2> DEFINE unanswered == {c \in Chain : tasks[t].statuses[c] # "Responded"}
  <2>1. unanswered \in SUBSET Chain
    OBVIOUS
  <2>2. work' = [task |-> t, chains |-> unanswered]
    BY <1>10 DEF FetchTask
  <2>3. work' \in [task : Task \cup {None}, chains : SUBSET Chain]
    <3> HIDE DEF unanswered
    <3>1. QED
      BY <2>1, <2>2
  <2>4. QED
    BY <1>10, <2>3 DEF FetchTask, TypeOK, chainVars
<1>11. ASSUME NEW r \in BOOLEAN, Decide(r)
       PROVE  TypeOK'
  <2>1. tasks' \in [Task -> TaskState \cup {None}] /\ phase' \in {"respond", "results"}
        /\ work' \in [task : Task \cup {None}, chains : SUBSET Chain]
    BY <1>11, DecideEffect
  <2>2. UNCHANGED <<chainVars, lastBlocks, todo, events, results, seen, lost, restarts>>
    BY <1>11 DEF Decide
  <2>3. QED
    BY <2>1, <2>2 DEF TypeOK, TaskState, chainVars
<1>12. ASSUME ReadStatusError \/ RespondError \/ RespondDone \/ ResultsDone \/ NewTaskError
       PROVE  TypeOK'
  BY <1>12 DEF ReadStatusError, RespondError, RespondDone, ResultsDone, NewTaskError, NoWork, TypeOK, chainVars
<1>13. ASSUME EventsDone
       PROVE  TypeOK'
  <2>1. Tracked \subseteq Task
    BY DEF Tracked
  <2>2. QED
    BY <1>13, <2>1 DEF EventsDone, NoEvents, TypeOK, chainVars
<1>14. ASSUME Restart
       PROVE  TypeOK'
  BY <1>14 DEF Restart, NodeStart, NoEvents, NoWork, TypeOK, chainVars, SumNodeAssumption
<1>15. CASE UNCHANGED vars
  BY <1>15 DEF vars, chainVars, nodeVars, TypeOK
<1>16. QED
  BY <1>1, <1>2, <1>3, <1>4, <1>5, <1>6, <1>7, <1>8, <1>9, <1>10, <1>11, <1>12, <1>13, <1>14, <1>15
     DEF Next, ChainNext, NodeNext

-----------------------------------------------------------------------------
(* The parts of the invariant.                                              *)

LEMMA ChainsLeaveNode ==
  ASSUME ChainNext
  PROVE  UNCHANGED nodeVars
BY DEF ChainNext, CreateTask, Mine, Finalize, Expire, EpochEnds

LEMMA FlowStep ==
  ASSUME SumNodeAssumption, TypeOK, Flow, [Next]_vars
  PROVE  Flow'
<1>1. CASE ChainNext \/ UNCHANGED vars
  <2>1. UNCHANGED nodeVars
    BY <1>1, ChainsLeaveNode DEF vars
  <2>2. QED
    BY <2>1 DEF Flow, nodeVars
<1>2. ASSUME NEW c \in Chain, PollChain(c)
      PROVE  Flow'
  BY <1>2 DEF PollChain, PollUpTo, Flow, NoWork
<1>3. ASSUME NEW c \in Chain, ReadStatus(c)
      PROVE  Flow'
  <2>1. /\ work.task \in Task /\ tasks'[work.task] \in TaskState
        /\ \A t \in Task : t # work.task => tasks'[t] = tasks[t]
    BY <1>3, ReadStatusEffect
  <2>2. phase = "status" /\ UNCHANGED <<phase, events, results>>
    BY <1>3 DEF ReadStatus
  <2>3. work'.task = work.task
    BY <1>3 DEF ReadStatus, TypeOK
  <2>4. \A t \in results' : tasks'[t] \in TaskState
    BY <2>1, <2>2 DEF Flow, TypeOK
  <2>5. QED
    BY <2>1, <2>2, <2>3, <2>4 DEF Flow
<1>4. ASSUME NEW c \in Chain, RespondTask(c)
      PROVE  Flow'
  <2>1. UNCHANGED <<tasks, phase, events, results>>
    BY <1>4 DEF RespondTask
  <2>2. work'.task = work.task
    BY <1>4 DEF RespondTask, TypeOK
  <2>3. QED
    BY <2>1, <2>2 DEF Flow
<1>5. ASSUME NEW t \in Task, NewTask(t)
      PROVE  Flow'
  <2>1. phase = "events" /\ UNCHANGED <<phase, results, work>> /\ results = {}
    BY <1>5 DEF NewTask, Flow
  <2>2. events'.chain = events.chain
    BY <1>5 DEF NewTask, TypeOK
  <2>3. QED
    BY <2>1, <2>2 DEF Flow
<1>6. ASSUME NEW t \in Task, FetchTask(t)
      PROVE  Flow'
  <2>1. phase = "results" /\ phase' = "status" /\ UNCHANGED <<tasks, events>>
        /\ t \in results /\ results' = results \ {t}
    BY <1>6 DEF FetchTask
  <2>2. work'.task = t
    BY <1>6 DEF FetchTask
  <2>3. QED
    BY <2>1, <2>2 DEF Flow
<1>7. ASSUME NEW r \in BOOLEAN, Decide(r)
      PROVE  Flow'
  <2>1. /\ work.task \in Task /\ phase' \in {"respond", "results"}
        /\ phase' = "respond" => work'.task = work.task /\ tasks'[work.task] \in TaskState
        /\ \A t \in Task : t # work.task => tasks'[t] = tasks[t]
    BY <1>7, DecideEffect
  <2>2. phase = "status" /\ UNCHANGED <<events, results>>
    BY <1>7 DEF Decide
  <2>3. \A t \in results' : tasks'[t] \in TaskState
    BY <2>1, <2>2 DEF Flow, TypeOK
  <2>4. QED
    BY <2>1, <2>2, <2>3 DEF Flow
<1>8. ASSUME EventsDone
      PROVE  Flow'
  <2>1. \A t \in Tracked : tasks[t] \in TaskState
    BY TrackedType DEF Tracked
  <2>2. QED
    BY <1>8, <2>1 DEF EventsDone, NoEvents, Flow
<1>9. ASSUME Tick \/ ReadStatusError \/ RespondDone \/ ResultsDone
      PROVE  Flow'
  BY <1>9 DEF Tick, ReadStatusError, RespondDone, ResultsDone, NoWork, Flow
<1>10. ASSUME NewTaskError
       PROVE  Flow'
  <2>1. phase = "events" /\ UNCHANGED <<phase, results, work, tasks>>
    BY <1>10 DEF NewTaskError
  <2>2. events'.chain = events.chain
    BY <1>10 DEF NewTaskError, TypeOK
  <2>3. QED
    BY <2>1, <2>2 DEF Flow
<1>11. ASSUME RespondError
       PROVE  Flow'
  <2>1. UNCHANGED <<tasks, phase, events, results>>
    BY <1>11 DEF RespondError
  <2>2. work'.task = work.task
    BY <1>11 DEF RespondError, TypeOK
  <2>3. QED
    BY <2>1, <2>2 DEF Flow
<1>12. ASSUME Restart
       PROVE  Flow'
  BY <1>12 DEF Restart, NoEvents, NoWork, Flow
<1>13. QED
  BY <1>1, <1>2, <1>3, <1>4, <1>5, <1>6, <1>7, <1>8, <1>9, <1>10, <1>11, <1>12 DEF Next, NodeNext

\* Only a poll moves lastBlocks ahead, to the block after the finalized one.
LEMMA BehindStep ==
  ASSUME TypeOK, Behind, [Next]_vars
  PROVE  Behind'
<1>1. CASE ChainNext \/ UNCHANGED vars
  <2>1. UNCHANGED lastBlocks
    BY <1>1, ChainsLeaveNode DEF vars, nodeVars
  <2>2. \A c \in Chain : finalBlock[c] <= finalBlock'[c] /\ finalBlock'[c] \in Nat
    <3>1. ASSUME NEW d \in Chain, Finalize(d)
          PROVE  \A c \in Chain : finalBlock[c] <= finalBlock'[c] /\ finalBlock'[c] \in Nat
      BY <3>1 DEF Finalize, TypeOK
    <3>2. CASE \A d \in Chain : ~Finalize(d)
      <4>1. UNCHANGED finalBlock
        BY <1>1, <3>2 DEF ChainNext, CreateTask, Mine, Expire, EpochEnds, vars, chainVars
      <4>2. QED
        BY <4>1 DEF TypeOK
    <3>3. QED
      BY <3>1, <3>2
  <2>3. QED
    BY <2>1, <2>2 DEF Behind, TypeOK
<1>2. ASSUME NEW c \in Chain, PollChain(c)
      PROVE  Behind'
  BY <1>2 DEF PollChain, PollUpTo, Behind, TypeOK, chainVars
<1>3. CASE Restart
  BY <1>3 DEF Restart, NodeStart, Behind, TypeOK, chainVars
<1>4. CASE NodeNext /\ ~Restart /\ \A c \in Chain : ~PollChain(c)
  <2>1. UNCHANGED <<finalBlock, lastBlocks>>
    BY <1>4 DEF NodeNext, Tick, ReadStatus, RespondTask, NewTask, FetchTask, Decide,
       ReadStatusError, NewTaskError, EventsDone, ResultsDone, RespondError, RespondDone, chainVars
  <2>2. QED
    BY <2>1 DEF Behind
<1>5. QED
  BY <1>1, <1>2, <1>3, <1>4 DEF Next

\* A task becomes known by an event of a final block, and in no other way.
LEMMA KnownStep ==
  ASSUME SumNodeAssumption, TypeOK, Flow, Known, [Next]_vars
  PROVE  Known'
<1> SUFFICES ASSUME NEW t \in Task, KnownTo(t)'
             PROVE  Final(t)'
  BY DEF Known
<1>1. CASE KnownTo(t)
  BY <1>1, ChainsMoveOn DEF Known
<1>2. CASE ~KnownTo(t)
  <2>1. ASSUME NEW c \in Chain, PollChain(c)
        PROVE  Final(t)'
    <3>1. t \in Filtered(c, finalBlock[c])
      BY <1>2, <2>1 DEF KnownTo, PollChain, PollUpTo, chainVars
    <3>2. created[t] # None /\ created[t].chain = c /\ created[t].block <= finalBlock[c]
      BY <3>1 DEF Filtered
    <3>3. UNCHANGED <<created, finalBlock>>
      BY <2>1 DEF PollChain, PollUpTo, chainVars
    <3>4. QED
      BY <3>2, <3>3 DEF Final
  <2>2. ASSUME NEW q \in Task, NewTask(q)
        PROVE  KnownTo(t)
    <3>1. tasks'[t] = tasks[t] \/ t = q
      BY <2>2, NewTaskEffect
    <3>2. q \in events.tasks /\ seen' = seen \cup {q} /\ UNCHANGED <<lost, mempool, responded>>
          /\ events'.tasks = events.tasks \ {q}
      BY <2>2 DEF NewTask, TypeOK
    <3>3. QED
      BY <3>1, <3>2 DEF KnownTo
  <2>3. ASSUME NEW c \in Chain, ReadStatus(c)
        PROVE  KnownTo(t)
    <3>1. tasks'[t] = tasks[t] \/ t = work.task
      BY <2>3, ReadStatusEffect
    <3>2. tasks[work.task] # None
      BY <2>3 DEF ReadStatus, Flow, SumNodeAssumption
    <3>3. UNCHANGED <<events, seen, lost, mempool, responded>>
      BY <2>3 DEF ReadStatus, chainVars
    <3>4. QED
      BY <3>1, <3>2, <3>3 DEF KnownTo
  <2>4. ASSUME NEW c \in Chain, RespondTask(c)
        PROVE  KnownTo(t)
    <3>1. work.task \in Task /\ tasks[work.task] # None
      BY <2>4 DEF RespondTask, Flow, SumNodeAssumption
    <3>2. mempool' = mempool \cup {<<c, work.task>>} /\ UNCHANGED <<tasks, events, seen, lost, responded>>
      BY <2>4 DEF RespondTask
    <3>3. t = work.task \/ \A d \in Chain : <<d, t>> \in mempool' => <<d, t>> \in mempool
      BY <3>2
    <3>4. QED
      BY <3>1, <3>2, <3>3 DEF KnownTo
  <2>5. ASSUME NEW r \in BOOLEAN, Decide(r)
        PROVE  KnownTo(t)
    <3>1. tasks'[t] = tasks[t] \/ t = work.task
      BY <2>5, DecideEffect
    <3>2. UNCHANGED <<events, seen, lost, mempool, responded>>
      BY <2>5 DEF Decide, chainVars
    <3>3. tasks[work.task] # None
      BY <2>5, DecideEffect DEF SumNodeAssumption
    <3>4. QED
      BY <3>1, <3>2, <3>3 DEF KnownTo
  <2>6. ASSUME ChainNext \/ UNCHANGED vars
        PROVE  KnownTo(t)
    <3>1. UNCHANGED <<tasks, events, seen, lost>>
      BY <2>6, ChainsLeaveNode DEF vars, nodeVars
    <3>2. \A c \in Chain : <<c, t>> \in mempool' \/ t \in responded'[c]
                            => <<c, t>> \in mempool \/ t \in responded[c]
      <4>1. ASSUME NEW d \in Chain, NEW q \in Task, Mine(d, q)
            PROVE  \A c \in Chain : <<c, t>> \in mempool' \/ t \in responded'[c]
                            => <<c, t>> \in mempool \/ t \in responded[c]
        BY <4>1 DEF Mine, TypeOK
      <4>2. CASE \A d \in Chain, q \in Task : ~Mine(d, q)
        <5>1. UNCHANGED <<mempool, responded>>
          BY <2>6, <4>2 DEF ChainNext, CreateTask, Finalize, Expire, EpochEnds, vars, chainVars
        <5>2. QED
          BY <5>1
      <4>3. QED
        BY <4>1, <4>2
    <3>3. QED
      BY <3>1, <3>2 DEF KnownTo
  <2>7. ASSUME \/ Tick \/ ReadStatusError \/ RespondDone \/ ResultsDone \/ RespondError
               \/ \E q \in Task : FetchTask(q)
        PROVE  KnownTo(t)
    <3>1. UNCHANGED <<tasks, events, seen, lost, mempool, responded>>
      BY <2>7 DEF Tick, ReadStatusError, RespondDone, ResultsDone, RespondError, FetchTask, chainVars
    <3>2. QED
      BY <3>1 DEF KnownTo
  <2>8. ASSUME NewTaskError \/ EventsDone \/ Restart
        PROVE  KnownTo(t)
    <3>1. /\ seen' \cup lost' \cup events'.tasks \subseteq seen \cup lost \cup events.tasks
          /\ tasks'[t] = tasks[t] \/ tasks'[t] = None
          /\ UNCHANGED <<mempool, responded>>
      BY <2>8 DEF NewTaskError, EventsDone, NoEvents, Restart, NodeStart, TypeOK, chainVars
    <3>2. QED
      BY <3>1 DEF KnownTo
  <2>9. QED
    BY <1>2, <2>1, <2>2, <2>3, <2>4, <2>5, <2>6, <2>7, <2>8 DEF Next, NodeNext
<1>3. QED
  BY <1>1, <1>2

\* A status is cached as the chain gave it, and what ends the interest in a chain
\* is never taken back by the chain.
LEMMA CachedStep ==
  ASSUME SumNodeAssumption, TypeOK, Flow, Known, Cached, [Next]_vars
  PROVE  Cached'
<1> DEFINE Over(t, c) ==
      tasks[t] # None /\ tasks[t].statuses[c] \notin {"Unknown", "Created"} =>
        /\ TaskStatus(c, t) # "Created"
        /\ tasks[t].statuses[c] = "Responded" => t \in responded[c]
<1> SUFFICES ASSUME NEW t \in Task, NEW c \in Chain
             PROVE  Over(t, c)'
  BY DEF Cached
<1>0. Over(t, c)
  BY DEF Cached
<1>1. ASSUME tasks[t] # None, tasks'[t] # None => tasks'[t].statuses[c] = tasks[t].statuses[c]
      PROVE  Over(t, c)'
  <2>1. Final(t)
    BY <1>1 DEF Known, KnownTo
  <2>2. /\ responded[c] \subseteq responded'[c]
        /\ TaskStatus(c, t) # "Created" => TaskStatus(c, t)' # "Created"
    BY <2>1, ChainsMoveOn
  <2>3. QED
    BY <1>0, <1>1, <2>2
<1>2. ASSUME tasks'[t] = tasks[t]
      PROVE  Over(t, c)'
  BY <1>1, <1>2
<1>3. ASSUME NEW q \in Task, NewTask(q)
      PROVE  Over(t, c)'
  <2>1. CASE tasks'[t] = tasks[t]
    BY <1>2, <2>1
  <2>2. CASE tasks'[t] = [aggProof |-> FALSE, statuses |-> [d \in Chain |-> "Unknown"]]
    <3>1. tasks'[t].statuses[c] = "Unknown"
      BY <2>2
    <3>2. QED
      BY <3>1
  <2>3. QED
    BY <1>3, <2>1, <2>2, NewTaskEffect
<1>4. ASSUME NEW d \in Chain, ReadStatus(d)
      PROVE  Over(t, c)'
  <2>1. CASE t # work.task
    BY <1>2, <1>4, <2>1, ReadStatusEffect
  <2>2. CASE t = work.task
    <3>1. /\ tasks[t] \in TaskState
          /\ tasks'[t] = [aggProof |-> tasks[t].aggProof,
                          statuses |-> [tasks[t].statuses EXCEPT ![d] = TaskStatus(d, t)]]
      BY <1>4, <2>2, ReadStatusEffect
    <3>2. tasks[t] # None /\ tasks[t].statuses \in [Chain -> Status]
      BY <3>1 DEF SumNodeAssumption, TaskState
    <3>3. tasks'[t].statuses = [tasks[t].statuses EXCEPT ![d] = TaskStatus(d, t)]
      BY <3>1
    <3>4. CASE c # d
      <4>1. tasks'[t].statuses[c] = tasks[t].statuses[c]
        BY <3>2, <3>3, <3>4
      <4>2. QED
        BY <1>1, <3>2, <4>1
    <3>5. CASE c = d
      <4>1. tasks'[t].statuses[c] = TaskStatus(c, t)
        BY <3>2, <3>3, <3>5
      <4>2. TaskStatus(c, t)' = TaskStatus(c, t) /\ UNCHANGED responded
        BY <1>4, Zenon DEF ReadStatus, chainVars, TaskStatus
      <4>3. TaskStatus(c, t) = "Responded" => t \in responded[c]
        BY StatusType
      <4>4. QED
        BY <4>1, <4>2, <4>3
    <3>6. QED
      BY <3>4, <3>5
  <2>3. QED
    BY <2>1, <2>2
<1>5. ASSUME NEW r \in BOOLEAN, Decide(r)
      PROVE  Over(t, c)'
  <2>1. CASE t # work.task
    BY <1>2, <1>5, <2>1, DecideEffect
  <2>2. CASE t = work.task
    <3>1. tasks[t] # None
      BY <1>5, <2>2, DecideEffect DEF SumNodeAssumption
    <3>2. tasks'[t] = None \/ tasks'[t].statuses = tasks[t].statuses
      BY <1>5, <2>2, DecideEffect
    <3>3. QED
      BY <1>1, <3>1, <3>2
  <2>3. QED
    BY <2>1, <2>2
<1>6. ASSUME Restart
      PROVE  Over(t, c)'
  BY <1>6 DEF Restart, NodeStart
<1>7. CASE ChainNext \/ UNCHANGED vars
  <2>1. UNCHANGED tasks
    BY <1>7, ChainsLeaveNode DEF vars, nodeVars
  <2>2. QED
    BY <1>2, <2>1
<1>8. CASE \/ Tick \/ ReadStatusError \/ NewTaskError \/ EventsDone \/ ResultsDone
           \/ RespondError \/ RespondDone
           \/ \E d \in Chain : PollChain(d) \/ RespondTask(d)
           \/ \E q \in Task : FetchTask(q)
  <2>1. UNCHANGED tasks
    BY <1>8 DEF Tick, ReadStatusError, NewTaskError, EventsDone, ResultsDone, RespondError,
       RespondDone, PollChain, PollUpTo, RespondTask, FetchTask
  <2>2. QED
    BY <1>2, <2>1
<1>9. QED
  <2> HIDE DEF Over
  <2>1. QED
    BY <1>3, <1>4, <1>5, <1>6, <1>7, <1>8 DEF Next, NodeNext

\* The next query starts where this one ended.
LEMMA EventsStep ==
  ASSUME SumNodeAssumption, TypeOK, Flow, Behind, Known, EventsSeenOnce, [Next]_vars
  PROVE  EventsSeenOnce'
<1>1. ASSUME UNCHANGED <<seen, lost, events, lastBlocks, created>>
      PROVE  EventsSeenOnce'
  BY <1>1 DEF EventsSeenOnce
<1>2. ASSUME NEW q \in Task, NEW d \in Chain, CreateTask(q, d)
      PROVE  EventsSeenOnce'
  <2>1. UNCHANGED <<seen, lost, events, lastBlocks>>
    BY <1>2, ChainsLeaveNode DEF ChainNext, nodeVars
  <2>2. created[q] = None /\ created' = [created EXCEPT ![q] = [chain |-> d, block |-> finalBlock[d] + 1]]
    BY <1>2 DEF CreateTask
  <2>3. q \notin seen \cup lost \cup events.tasks
    BY <2>2 DEF Known, KnownTo, Final
  <2>4. created'[q].chain = d /\ created'[q].block = finalBlock[d] + 1
    <3>1. DOMAIN created = Task
      BY DEF TypeOK
    <3>2. QED
      BY <2>2, <3>1
  <2>5. ~(created'[q].block < lastBlocks[d])
    BY <2>4 DEF Behind, TypeOK
  <2>6. \A t \in Task : t # q => created'[t] = created[t]
    BY <2>2 DEF TypeOK
  <2>7. QED
    BY <2>1, <2>3, <2>4, <2>5, <2>6 DEF EventsSeenOnce
<1>3. ASSUME NEW c \in Chain, PollChain(c)
      PROVE  EventsSeenOnce'
  <2>1. /\ events.tasks = {}
        /\ events'.tasks = Filtered(c, finalBlock[c])
        /\ lastBlocks' = [lastBlocks EXCEPT ![c] = finalBlock[c] + 1]
        /\ UNCHANGED <<seen, lost, created>>
    BY <1>3 DEF PollChain, PollUpTo, Flow, chainVars
  <2>2. \A d \in Chain : lastBlocks[d] \in Nat /\ finalBlock[d] \in Nat /\ lastBlocks[d] <= finalBlock[d] + 1
    BY DEF TypeOK, Behind
  <2>3. lastBlocks'[c] = finalBlock[c] + 1 /\ \A d \in Chain : d # c => lastBlocks'[d] = lastBlocks[d]
    BY <2>1 DEF TypeOK
  <2>4. ASSUME NEW t \in Task, created[t] # None
        PROVE  /\ t \in seen \cup lost => t \notin Filtered(c, finalBlock[c])
               /\ t \in seen \cup lost \cup Filtered(c, finalBlock[c])
                    <=> created[t].block < lastBlocks'[created[t].chain]
    <3>1. created[t].chain \in Chain /\ created[t].block \in Nat
      BY <2>4, CreatedType
    <3>2. t \in seen \cup lost <=> created[t].block < lastBlocks[created[t].chain]
      BY <2>1, <2>4 DEF EventsSeenOnce
    <3>3. t \in Filtered(c, finalBlock[c]) <=>
            created[t].chain = c /\ created[t].block \in lastBlocks[c]..finalBlock[c]
      BY <2>4 DEF Filtered
    <3>4. QED
      BY <2>2, <2>3, <3>1, <3>2, <3>3
  <2>5. \A t \in Filtered(c, finalBlock[c]) : t \in Task /\ created[t] # None
    BY DEF Filtered
  <2>6. QED
    BY <2>1, <2>4, <2>5 DEF EventsSeenOnce
<1>4. ASSUME NEW q \in Task, NewTask(q)
      PROVE  EventsSeenOnce'
  <2>1. /\ q \in events.tasks /\ events'.tasks = events.tasks \ {q} /\ seen' = seen \cup {q}
        /\ UNCHANGED <<lost, lastBlocks, created>>
    BY <1>4 DEF NewTask, TypeOK
  <2>2. QED
    BY <2>1 DEF EventsSeenOnce
<1>5. ASSUME NewTaskError \/ EventsDone
      PROVE  EventsSeenOnce'
  <2>1. /\ events'.tasks = {} /\ lost' = lost \cup events.tasks
        /\ UNCHANGED <<seen, lastBlocks, created>>
    BY <1>5 DEF NewTaskError, EventsDone, NoEvents, TypeOK, chainVars
  <2>2. QED
    BY <2>1 DEF EventsSeenOnce
<1>6. ASSUME Restart
      PROVE  EventsSeenOnce'
  <2>1. /\ events'.tasks = {} /\ seen' = {} /\ lost' = {} /\ lastBlocks' = [c \in Chain |-> 0] /\ UNCHANGED created
    BY <1>6 DEF Restart, NodeStart, NoEvents, chainVars
  <2>2. \A t \in Task : created[t] # None => ~(created[t].block < lastBlocks'[created[t].chain])
    BY <2>1, CreatedType
  <2>3. QED
    BY <2>1, <2>2 DEF EventsSeenOnce
<1>7. CASE \/ \E t \in Task, c \in Chain : Mine(c, t)
           \/ \E c \in Chain : Finalize(c)
           \/ \E t \in Task : Expire(t) \/ EpochEnds(t)
           \/ UNCHANGED vars
  <2>1. UNCHANGED <<seen, lost, events, lastBlocks, created>>
    BY <1>7 DEF Mine, Finalize, Expire, EpochEnds, vars, nodeVars, chainVars
  <2>2. QED
    BY <1>1, <2>1
<1>8. CASE \/ Tick \/ ReadStatusError \/ ResultsDone \/ RespondError \/ RespondDone
           \/ \E d \in Chain : ReadStatus(d) \/ RespondTask(d)
           \/ \E q \in Task : FetchTask(q)
           \/ \E r \in BOOLEAN : Decide(r)
  <2>1. UNCHANGED <<seen, lost, events, lastBlocks, created>>
    BY <1>8 DEF Tick, ReadStatusError, ResultsDone, RespondError, RespondDone, ReadStatus,
       RespondTask, FetchTask, Decide, chainVars
  <2>2. QED
    BY <1>1, <2>1
<1>9. QED
  BY <1>2, <1>3, <1>4, <1>5, <1>6, <1>7, <1>8 DEF Next, ChainNext, NodeNext

-----------------------------------------------------------------------------
(* The theorems.                                                            *)

LEMMA Invariance == Spec => []IInv
<1>1. ASSUME Init
      PROVE  IInv
  <2>1. TypeOK
    BY <1>1, SumNodeAssumption DEF Init, NodeStart, NoEvents, NoWork, TypeOK, SumNodeAssumption
  <2>2. Flow /\ Behind
    BY <1>1 DEF Init, NodeStart, NoEvents, Flow, Behind
  <2>3. Known /\ Cached /\ EventsSeenOnce
    BY <1>1 DEF Init, NodeStart, NoEvents, Known, KnownTo, Cached, EventsSeenOnce
  <2>4. QED
    BY <2>1, <2>2, <2>3 DEF IInv
<1>2. IInv /\ [Next]_vars => IInv'
  BY SumNodeAssumption, TypeStep, FlowStep, BehindStep, KnownStep, CachedStep, EventsStep DEF IInv
<1>3. QED
  BY <1>1, <1>2, PTL DEF Spec

\* Every reachable state of chains, contracts and node is well typed, whatever
\* calls of main.go fail and however often the node restarts.
THEOREM TypeCorrect == Spec => []TypeOK
<1>1. IInv => TypeOK
  BY DEF IInv
<1>2. QED
  BY <1>1, Invariance, PTL

\* Between two starts of the node each event of a finalized block that main.go's poll
\* loop has read past is processed, pending in the iterator or lost to an error of
\* processNewTasks, and only one of them: none is processed twice, none falls between
\* two queries, and none that was lost is read again.
THEOREM EventsOnce == Spec => []EventsSeenOnce
<1>1. IInv => EventsSeenOnce
  BY DEF IInv
<1>2. QED
  BY <1>1, Invariance, PTL

\* processProof delivers answers of finalized tasks only, to every chain, also with
\* a transaction that outlives the node.
THEOREM Finality == Spec => []AnswersAreFinal
<1>1. IInv => AnswersAreFinal
  BY DEF IInv, Known, KnownTo, Final, AnswersAreFinal, TypeOK
<1>2. QED
  BY <1>1, Invariance, PTL

\* A status that fetchResults cached as Responded is the chain's status.
THEOREM CacheTruth == Spec => []CachedAnswersAreReal
<1>1. IInv => CachedAnswersAreReal
  BY DEF IInv, Cached, CachedAnswersAreReal, Tracked
<1>2. QED
  BY <1>1, Invariance, PTL

\* fetchResults gives up a task only when no chain waits for its answer.
THEOREM GivesUp == Spec => GivesUpSettledOnly
<1>1. ASSUME IInv, [Next]_vars, NEW t \in Task,
             tasks[t] # None, tasks'[t] = None, restarts' = restarts, NEW c \in Chain
      PROVE  TaskStatus(c, t) # "Created"
  <2>1. \E r \in BOOLEAN : Decide(r) /\ work.task = t
    <3>1. ASSUME NEW r \in BOOLEAN, Decide(r)
          PROVE  work.task = t
      BY <1>1, <3>1, DecideEffect DEF IInv
    <3>2. ASSUME NEW q \in Task, NewTask(q)
          PROVE  FALSE
      BY <1>1, <3>2, NewTaskEffect, SumNodeAssumption DEF IInv, SumNodeAssumption
    <3>3. ASSUME NEW d \in Chain, ReadStatus(d)
          PROVE  FALSE
      BY <1>1, <3>3, ReadStatusEffect, SumNodeAssumption DEF IInv, SumNodeAssumption
    <3>4. ~Restart
      BY <1>1 DEF Restart, IInv, TypeOK
    <3>5. ~(ChainNext \/ UNCHANGED vars)
      BY <1>1, ChainsLeaveNode DEF vars, nodeVars
    <3>6. CASE \/ Tick \/ ReadStatusError \/ NewTaskError \/ EventsDone \/ ResultsDone
               \/ RespondError \/ RespondDone
               \/ \E d \in Chain : PollChain(d) \/ RespondTask(d)
               \/ \E q \in Task : FetchTask(q)
      BY <1>1, <3>6 DEF Tick, ReadStatusError, NewTaskError, EventsDone, ResultsDone, RespondError,
         RespondDone, PollChain, PollUpTo, RespondTask, FetchTask
    <3>7. QED
      BY <1>1, <3>1, <3>2, <3>3, <3>4, <3>5, <3>6 DEF Next, NodeNext
  <2>2. Settled(tasks[t].statuses)
    BY <1>1, <2>1, DecideEffect, SumNodeAssumption DEF IInv, SumNodeAssumption
  <2>3. tasks[t].statuses[c] \notin {"Unknown", "Created"}
    BY <2>2 DEF Settled
  <2>4. QED
    BY <1>1, <2>3 DEF IInv, Cached
<1>2. IInv /\ [Next]_vars =>
        [\A t \in Task :
           tasks[t] # None /\ tasks'[t] = None /\ restarts' = restarts =>
             \A c \in Chain : TaskStatus(c, t) # "Created"]_vars
  BY <1>1
<1>3. QED
  BY <1>2, Invariance, PTL DEF Spec, GivesUpSettledOnly
=============================================================================
