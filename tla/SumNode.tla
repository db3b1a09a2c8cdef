------------------------------- MODULE SumNode -------------------------------
(***************************************************************************)
(* off-chain/cmd/node/main.go: the operator node that polls the SumTask     *)
(* contract of every chain for new tasks, has each result signed through    *)
(* the relay, and delivers the aggregated proof to the contract of every    *)
(* chain. All of the node's state is in memory.                              *)
(*                                                                         *)
(* The node is one loop; what interleaves with it is the chains: tasks are   *)
(* created, finalized, expire and are answered between any two of its calls. *)
(***************************************************************************)
EXTENDS Integers, FiniteSets

CONSTANTS
  Chain, Task,
  MaxBlock,     \* bound on the finalized height of a chain
  MaxRestarts,  \* bound on the restarts of the node
  None

Status == {"Unknown", "Created", "Responded", "Expired", "NotFound"}

\* What the node keeps of a task it tracks: aggProof stands for the proof itself.
TaskState == [aggProof : BOOLEAN, statuses : [Chain -> Status]]

ASSUME SumNodeAssumption ==
  /\ MaxBlock \in Nat
  /\ MaxRestarts \in Nat
  /\ None \notin Chain /\ None \notin TaskState

VARIABLES
  \* the chains and their SumTask contracts (external)
  finalBlock,   \* finalized height of each chain
  created,      \* chain and block of each task's CreateTask event, or None
  responded,    \* tasks answered on each chain
  expired,      \* tasks that outlived TASK_EXPIRY on their chain
  outdated,     \* tasks whose signature is of an epoch no longer accepted
  mempool,      \* RespondTask transactions not mined yet
  \* the node
  lastBlocks,   \* first block of the next event query, per chain
  tasks,        \* state of each tracked task, or None
  phase,        \* where the loop stands
  todo,         \* chains not polled yet in this tick
  events,       \* chain and tasks of the event iterator
  results,      \* tasks fetchResults has still to look at
  work,         \* the task under way and its chains still to ask, or to send to
  \* history
  seen,         \* tasks whose event was processed since the last start
  lost,         \* tasks whose event an error left unprocessed since then
  restarts

chainVars == <<finalBlock, created, responded, expired, outdated, mempool>>
nodeVars  == <<lastBlocks, tasks, phase, todo, events, results, work, seen, lost, restarts>>
vars == <<chainVars, nodeVars>>

Tracked == {t \in Task : tasks[t] # None}

NoEvents == [chain |-> None, tasks |-> {}]
NoWork   == [task |-> None, chains |-> {}]

\* A freshly started node.
NodeStart ==
  [lastBlocks |-> [c \in Chain |-> 0], tasks |-> [t \in Task |-> None]]

Init ==
  /\ finalBlock = [c \in Chain |-> 0]
  /\ created = [t \in Task |-> None]
  /\ responded = [c \in Chain |-> {}]
  /\ expired = {} /\ outdated = {} /\ mempool = {}
  /\ lastBlocks = NodeStart.lastBlocks
  /\ tasks = NodeStart.tasks
  /\ phase = "idle"
  /\ todo = {} /\ events = NoEvents /\ results = {} /\ work = NoWork
  /\ seen = {} /\ lost = {}
  /\ restarts = 0

\* getTaskStatus of the contract on chain c.
TaskStatus(c, t) ==
  CASE t \in responded[c] -> "Responded"
    [] created[t] = None \/ (created[t] # None /\ created[t].chain # c) -> "NotFound"
    [] t \in expired -> "Expired"
    [] OTHER -> "Created"

-----------------------------------------------------------------------------
(* The chains.                                                              *)

CreateTask(t, c) ==
  /\ created[t] = None
  /\ finalBlock[c] < MaxBlock
  /\ created' = [created EXCEPT ![t] = [chain |-> c, block |-> finalBlock[c] + 1]]
  /\ UNCHANGED <<finalBlock, responded, expired, outdated, mempool, nodeVars>>

Finalize(c) ==
  /\ finalBlock[c] < MaxBlock
  /\ finalBlock' = [finalBlock EXCEPT ![c] = @ + 1]
  /\ UNCHANGED <<created, responded, expired, outdated, mempool, nodeVars>>

Expire(t) ==
  /\ created[t] # None /\ t \notin expired
  /\ expired' = expired \cup {t}
  /\ UNCHANGED <<finalBlock, created, responded, outdated, mempool, nodeVars>>

\* The signature's epoch has been over for TASK_EXPIRY.
EpochEnds(t) ==
  /\ tasks[t] # None /\ t \notin outdated
  /\ outdated' = outdated \cup {t}
  /\ UNCHANGED <<finalBlock, created, responded, expired, mempool, nodeVars>>

\* respondTask succeeds, or reverts with AlreadyResponded or InvalidVerifyingEpoch.
Answerable(c, t) == t \notin responded[c] /\ t \notin outdated

Mine(c, t) ==
  /\ <<c, t>> \in mempool
  /\ mempool' = mempool \ {<<c, t>>}
  /\ responded' = IF Answerable(c, t)
                  THEN [responded EXCEPT ![c] = @ \cup {t}] ELSE responded
  /\ UNCHANGED <<finalBlock, created, expired, outdated, nodeVars>>

-----------------------------------------------------------------------------
(* One tick: poll every chain, then fetchResults.                           *)

Tick ==
  /\ phase = "idle"
  /\ phase' = "poll"
  /\ todo' = Chain
  /\ UNCHANGED <<chainVars, lastBlocks, tasks, events, results, work, seen, lost, restarts>>

Filtered(c, last) ==
  {t \in Task : created[t] # None /\ created[t].chain = c
                /\ created[t].block \in lastBlocks[c]..last}

\* The range ends at last; the next one starts at next.
PollUpTo(c, last, next) ==
  /\ phase = "poll"
  /\ c \in todo
  /\ todo' = todo \ {c}
  /\ events' = [chain |-> c, tasks |-> Filtered(c, last)]
  /\ lastBlocks' = [lastBlocks EXCEPT ![c] = next]
  /\ phase' = "events"
  /\ UNCHANGED <<chainVars, tasks, results, work, seen, lost, restarts>>

\* Mutant: the next query starts at the last block of this one.
PollChainOverlap(c) == PollUpTo(c, finalBlock[c], finalBlock[c])

\* Mutant: events are read up to the chain's head instead of its finalized block.
PollChainLatest(c) == PollUpTo(c, finalBlock[c] + 1, finalBlock[c] + 2)

\* Mutant: the next query starts below the finalized block.
PollChainBehind(c) == PollUpTo(c, finalBlock[c], finalBlock[c] - 1)

\* lastBlocks moves before any of the events is processed.
PollChain(c) == PollUpTo(c, finalBlock[c], finalBlock[c] + 1)

\* processNewTasks: a task that is Created on this chain is signed and tracked;
\* whatever was known of it is replaced.
NewTask(t) ==
  /\ phase = "events"
  /\ t \in events.tasks
  /\ events' = [events EXCEPT !.tasks = @ \ {t}]
  /\ seen' = seen \cup {t}
  /\ IF TaskStatus(events.chain, t) = "Created"
       THEN /\ tasks' = [tasks EXCEPT ![t] =
                 [aggProof |-> FALSE, statuses |-> [c \in Chain |-> "Unknown"]]]
            /\ outdated' = outdated \ {t}
       ELSE UNCHANGED <<tasks, outdated>>
  /\ UNCHANGED <<finalBlock, created, responded, expired, mempool,
                 lastBlocks, phase, todo, results, work, lost, restarts>>

\* A failed call (getTaskStatus, GetSuggestedEpoch, SignMessage) is printed: this
\* event and the ones after it are not read again.
NewTaskError ==
  /\ phase = "events"
  /\ events.tasks # {}
  /\ lost' = lost \cup events.tasks
  /\ events' = [events EXCEPT !.tasks = {}]
  /\ UNCHANGED <<chainVars, lastBlocks, tasks, phase, todo, results, work, seen, restarts>>

EventsDone ==
  /\ phase = "events"
  /\ events.tasks = {}
  /\ events' = NoEvents
  /\ IF todo = {} THEN phase' = "results" /\ results' = Tracked
                  ELSE phase' = "poll" /\ UNCHANGED results
  /\ UNCHANGED <<chainVars, lastBlocks, tasks, todo, work, seen, lost, restarts>>

\* Mutant: a task is dropped as soon as one chain has answered or given up.
SettledAnywhere(st) == \E c \in Chain : st[c] \in {"Responded", "NotFound", "Expired"}

Settled(st) ==
  \/ \A c \in Chain : st[c] \in {"NotFound", "Expired"}
  \/ \A c \in Chain : st[c] = "Responded"

\* Mutant: only the chains not asked yet, or still waiting, are asked.
FetchTaskOnce(t) ==
  /\ phase = "results"
  /\ t \in results
  /\ results' = results \ {t}
  /\ phase' = "status"
  /\ work' = [task |-> t,
              chains |-> {c \in Chain : tasks[t].statuses[c] \in {"Unknown", "Created"}}]
  /\ UNCHANGED <<chainVars, lastBlocks, tasks, todo, events, seen, lost, restarts>>

\* fetchResults takes one task: the chains not known to have answered are asked.
FetchTask(t) ==
  /\ phase = "results"
  /\ t \in results
  /\ results' = results \ {t}
  /\ phase' = "status"
  /\ work' = [task |-> t, chains |-> {c \in Chain : tasks[t].statuses[c] # "Responded"}]
  /\ UNCHANGED <<chainVars, lastBlocks, tasks, todo, events, seen, lost, restarts>>

\* Each answer goes straight into the task's shared map of statuses.
ReadStatus(c) ==
  /\ phase = "status"
  /\ c \in work.chains
  /\ work' = [work EXCEPT !.chains = @ \ {c}]
  /\ tasks' = [tasks EXCEPT ![work.task].statuses[c] = TaskStatus(c, work.task)]
  /\ UNCHANGED <<chainVars, lastBlocks, phase, todo, events, results, seen, lost, restarts>>

\* A status call fails: the pass ends, for the tasks not looked at yet too.
ReadStatusError ==
  /\ phase = "status"
  /\ work.chains # {}
  /\ work' = NoWork
  /\ results' = {}
  /\ phase' = "results"
  /\ UNCHANGED <<chainVars, lastBlocks, tasks, todo, events, seen, lost, restarts>>

\* With all statuses read: drop the task when settled, otherwise look for its
\* aggregation proof and, with it, go on to processProof.
Decide(proofReady) ==
  LET t     == work.task
      st    == tasks[t].statuses
      proof == tasks[t].aggProof \/ proofReady
  IN
  /\ phase = "status"
  /\ work.chains = {}
  /\ tasks' = [tasks EXCEPT ![t] =
       IF Settled(st) THEN None ELSE [aggProof |-> proof, statuses |-> st]]
  /\ IF ~Settled(st) /\ proof
       THEN /\ phase' = "respond"
            /\ work' = [work EXCEPT !.chains = {c \in Chain : st[c] # "Responded"}]
       ELSE /\ phase' = "results"
            /\ work' = NoWork
  /\ UNCHANGED <<chainVars, lastBlocks, todo, events, results, seen, lost, restarts>>

ResultsDone ==
  /\ phase = "results"
  /\ results = {}
  /\ phase' = "idle"
  /\ UNCHANGED <<chainVars, lastBlocks, tasks, todo, events, results, work, seen, lost, restarts>>

\* Mutant: an accepted transaction is taken for an answered task.
RespondTaskOptimistic(c) ==
  /\ phase = "respond"
  /\ c \in work.chains
  /\ Answerable(c, work.task)
  /\ mempool' = mempool \cup {<<c, work.task>>}
  /\ work' = [work EXCEPT !.chains = @ \ {c}]
  /\ tasks' = [tasks EXCEPT ![work.task].statuses[c] = "Responded"]
  /\ UNCHANGED <<finalBlock, created, responded, expired, outdated,
                 lastBlocks, phase, todo, events, results, seen, lost, restarts>>

\* processProof, one chain: the transaction is sent when its gas estimation
\* does not revert.
RespondTask(c) ==
  /\ phase = "respond"
  /\ c \in work.chains
  /\ Answerable(c, work.task)
  /\ mempool' = mempool \cup {<<c, work.task>>}
  /\ work' = [work EXCEPT !.chains = @ \ {c}]
  /\ UNCHANGED <<finalBlock, created, responded, expired, outdated,
                 lastBlocks, tasks, phase, todo, events, results, seen, lost, restarts>>

\* It cannot be sent: the chains that are left are not tried in this pass.
RespondError ==
  /\ phase = "respond"
  /\ work.chains # {}
  /\ work' = [work EXCEPT !.chains = {}]
  /\ UNCHANGED <<chainVars, lastBlocks, tasks, phase, todo, events, results, seen, lost, restarts>>

RespondDone ==
  /\ phase = "respond"
  /\ work.chains = {}
  /\ work' = NoWork
  /\ phase' = "results"
  /\ UNCHANGED <<chainVars, lastBlocks, tasks, todo, events, results, seen, lost, restarts>>

\* A failed poll ends the process, as a signal or a crash does; it starts again
\* from block 0 with no tasks.
Restart ==
  /\ restarts < MaxRestarts
  /\ restarts' = restarts + 1
  /\ lastBlocks' = NodeStart.lastBlocks
  /\ tasks' = NodeStart.tasks
  /\ phase' = "idle"
  /\ todo' = {} /\ events' = NoEvents /\ results' = {} /\ work' = NoWork
  /\ seen' = {} /\ lost' = {}
  /\ UNCHANGED chainVars

ChainNext ==
  \/ \E t \in Task, c \in Chain : CreateTask(t, c) \/ Mine(c, t)
  \/ \E c \in Chain : Finalize(c)
  \/ \E t \in Task : Expire(t) \/ EpochEnds(t)

NodeNext ==
  \/ Tick
  \/ \E c \in Chain : PollChain(c) \/ ReadStatus(c) \/ RespondTask(c)
  \/ \E t \in Task : NewTask(t) \/ FetchTask(t)
  \/ \E ready \in BOOLEAN : Decide(ready)
  \/ ReadStatusError
  \/ NewTaskError \/ EventsDone \/ ResultsDone \/ RespondError \/ RespondDone
  \/ Restart

Next == ChainNext \/ NodeNext

Spec == Init /\ [][Next]_vars

\* The loop keeps running; the relay aggregates sooner or later; a chain that
\* keeps being asked accepts and mines sooner or later.
Fairness ==
  /\ WF_vars(Tick)
  /\ WF_vars(\E c \in Chain : PollChain(c))
  /\ WF_vars(\E t \in Task : NewTask(t))
  /\ WF_vars(EventsDone) /\ WF_vars(ResultsDone) /\ WF_vars(RespondDone)
  /\ WF_vars(\E c \in Chain : RespondTask(c)) /\ WF_vars(RespondError)
  /\ WF_vars(\E t \in Task : FetchTask(t))
  /\ WF_vars(\E c \in Chain : ReadStatus(c))
  /\ WF_vars(Decide(FALSE))
  /\ \A t \in Task :
       /\ SF_vars(FetchTask(t))
       /\ SF_vars(work.task = t /\ Decide(TRUE))
       /\ \A c \in Chain : SF_vars(work.task = t /\ RespondTask(c)) /\ WF_vars(Mine(c, t))

FairSpec == Spec /\ Fairness

-----------------------------------------------------------------------------
(* Properties.                                                              *)

\* Every reachable state of chains and node is well typed, over every call of main.go.
TypeOK ==
  /\ finalBlock \in [Chain -> Nat]
  /\ created \in [Task -> [chain : Chain, block : Nat] \cup {None}]
  /\ responded \in [Chain -> SUBSET Task]
  /\ expired \subseteq Task /\ outdated \subseteq Task
  /\ mempool \subseteq Chain \X Task
  /\ lastBlocks \in [Chain -> Nat]
  /\ tasks \in [Task -> TaskState \cup {None}]
  /\ phase \in {"idle", "poll", "events", "results", "status", "respond"}
  /\ todo \subseteq Chain
  /\ events \in [chain : Chain \cup {None}, tasks : SUBSET Task]
  /\ results \subseteq Task
  /\ work \in [task : Task \cup {None}, chains : SUBSET Chain]
  /\ seen \subseteq Task /\ lost \subseteq Task
  /\ restarts \in 0..MaxRestarts

\* The block ranges of consecutive queries neither overlap nor leave a gap: since the
\* node started, each event below lastBlocks was processed, or waits in the iterator, or
\* was lost to an error, one of the three and no other event any of them. So an event is
\* processed at most once, and one that an error lost is never read again.
EventsSeenOnce ==
  /\ seen \cap events.tasks = {} /\ lost \cap events.tasks = {} /\ seen \cap lost = {}
  /\ \A t \in Task :
       created[t] # None =>
         (t \in seen \cup lost \cup events.tasks
            <=> created[t].block < lastBlocks[created[t].chain])

\* No chain holds an answer to a task whose creation is not finalized, although
\* signing, aggregation and delivery to the other chains come later and never
\* look at the block again.
AnswersAreFinal ==
  \A c \in Chain : \A t \in responded[c] :
    created[t] # None /\ created[t].block <= finalBlock[created[t].chain]

\* The cached status is trusted for good once it is Responded: it never claims
\* an answer that the chain does not have.
CachedAnswersAreReal ==
  \A t \in Tracked, c \in Chain :
    tasks[t].statuses[c] = "Responded" => t \in responded[c]

\* Short of a restart the node gives a task up only when no chain still waits
\* for the answer: on every chain it is answered, expired or unknown.
GivesUpSettledOnly ==
  [][\A t \in Task :
       tasks[t] # None /\ tasks'[t] = None /\ restarts' = restarts =>
         \A c \in Chain : TaskStatus(c, t) # "Created"]_vars

\* A tracked task does not linger: once status calls stop failing it is settled
\* in the end, unless its signature outlives its epoch (it is never signed again).
TrackedIsSettled ==
  <>[][~ReadStatusError]_vars =>
    \A t \in Task : tasks[t] # None ~> tasks[t] = None \/ t \in outdated
=============================================================================
