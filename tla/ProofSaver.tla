------------------------------ MODULE ProofSaver ------------------------------
(***************************************************************************)
(* nori-golem-storage: the process that saves every converted proof in      *)
(* GolemDB (bin/proofSaver.ts), and the query that finds the proof of a      *)
(* block (golemConsensusProofEntity.ts). It hears of conversions on the      *)
(* bridge's topic, fetches each bundle from the conversion server by its     *)
(* input block, and saves it; all of them at once. The bridge, the server    *)
(* and GolemDB are external.                                                 *)
(***************************************************************************)
EXTENDS Integers, FiniteSets

CONSTANTS
  MaxBlock,  \* bound on block numbers
  Nothing    \* no notice, no bundle

Block == 0..MaxBlock

\* The transition notice of a conversion.
Conversion ==
  {c \in [input_block_number : Block, output_block_number : Block] :
     c.input_block_number < c.output_block_number}

ASSUME SaverAssumption == MaxBlock \in Nat /\ Nothing \notin Conversion

VARIABLES
  \* the bridge and the conversion server
  converted,  \* conversions that succeeded; a bundle is named by its own
  topic,      \* "open", or how it ended: "completed" or "errored"
  replay,     \* the topic's last notice, which shareReplay(1) keeps, if it is of a
              \* conversion that succeeded
  \* the process
  saver,      \* "starting", "running", or how it exited: 0 or 1
  client,     \* whether the client was created
  fetching,   \* notices whose bundle is being fetched
  saving,     \* bundles whose entity is being created, with their notice
  received,   \* history: the conversions the saver was told of
  saved,      \* history: those whose entity was created
  \* GolemDB
  entities    \* bundles saved, with their notice, and not expired

bridgeVars == <<converted, topic, replay>>
saverVars == <<saver, client, fetching, saving, received>>
golemVars == <<entities, saved>>
proofSaverVars == <<bridgeVars, saverVars, golemVars>>

Entity == [notice : Conversion, bundle : Conversion]

SaverStates == {"starting", "running", "exit0", "exit1"}

ProofSaverInit ==
  /\ converted = {} /\ topic = "open" /\ replay = Nothing
  /\ saver = "starting" /\ client = FALSE
  /\ fetching = {} /\ saving = {} /\ received = {}
  /\ entities = {} /\ saved = {}

-----------------------------------------------------------------------------
(* The process.                                                             *)

Exit(code) == saver' = code /\ fetching' = {}

\* Mutant: switchMap, a new notice gives up the fetch of the one before.
ReceiveSwitching(c) == fetching' = {c} /\ received' = received \cup {c}

\* What the filter and the first mergeMap do with a notice of a conversion that
\* succeeded.
Receive(c) == fetching' = fetching \cup {c} /\ received' = received \cup {c}

\* init swallows its errors: with or without a client, the saver subscribes, and is
\* given the topic's last notice.
Subscribe ==
  /\ saver = "starting"
  /\ client' \in BOOLEAN
  /\ saver' = "running"
  /\ IF replay = Nothing THEN UNCHANGED <<fetching, received>> ELSE Receive(replay)
  /\ UNCHANGED <<bridgeVars, saving, golemVars>>

\* The bridge announces a conversion: its server has the bundle by then. The topic
\* is listened to from the start, and by the saver once it has subscribed.
Announce(c) ==
  /\ topic = "open"
  /\ converted' = converted \cup {c}
  /\ replay' = c
  /\ IF saver = "running" THEN Receive(c) ELSE UNCHANGED <<fetching, received>>
  /\ UNCHANGED <<topic, saver, client, saving, golemVars>>

\* A notice of any other stage passes no filter, but is the one that is replayed.
OtherNotice ==
  /\ topic = "open"
  /\ replay' = Nothing
  /\ UNCHANGED <<converted, topic, saverVars, golemVars>>

\* getEthConsensusTransitionProofBundle: the server knows the input block only.
Bundles(c) == {b \in converted : b.input_block_number = c.input_block_number}

\* Then createEntities, of a client that may be undefined.
FetchOk(c) ==
  /\ saver = "running" /\ c \in fetching
  /\ \E bundle \in Bundles(c) :
       IF client
       THEN /\ saving' = saving \cup {[notice |-> c, bundle |-> bundle]}
            /\ fetching' = fetching \ {c}
            /\ UNCHANGED saver
       ELSE Exit("exit1") /\ UNCHANGED saving
  /\ UNCHANGED <<bridgeVars, client, received, golemVars>>

\* A request that fails is the error of the whole pipeline.
FetchErr(c) ==
  /\ saver = "running" /\ c \in fetching
  /\ Exit("exit1")
  /\ UNCHANGED <<bridgeVars, client, saving, received, golemVars>>

\* An entity that was sent is created also when the process is gone.
SaveOk(e) ==
  /\ e \in saving
  /\ saving' = saving \ {e}
  /\ entities' = entities \cup {e}
  /\ saved' = saved \cup {e.notice}
  /\ UNCHANGED <<bridgeVars, saver, client, fetching, received>>

SaveErr(e) ==
  /\ e \in saving
  /\ saving' = saving \ {e}
  /\ IF saver = "running" THEN Exit("exit1") ELSE UNCHANGED <<saver, fetching>>
  /\ UNCHANGED <<bridgeVars, client, received, golemVars>>

TopicCompletes ==
  /\ topic = "open"
  /\ topic' = "completed"
  /\ UNCHANGED <<converted, replay, saverVars, golemVars>>

\* An error of the topic ends the process: the saver's pipeline exits with 1, and before
\* it is there the listener has subscribed without a handler of errors.
TopicFails ==
  /\ topic = "open"
  /\ topic' = "errored"
  /\ IF saver \in {"starting", "running"} THEN Exit("exit1")
     ELSE UNCHANGED <<saver, fetching>>
  /\ UNCHANGED <<converted, replay, client, saving, received, golemVars>>

\* Mutant: the exit does not wait for what the source started.
CompleteEarly ==
  /\ saver = "running" /\ topic = "completed"
  /\ Exit("exit0")
  /\ UNCHANGED <<bridgeVars, client, saving, received, golemVars>>

\* mergeMap completes when its source has and nothing it started is under way.
Complete ==
  /\ saver = "running" /\ topic = "completed"
  /\ fetching = {} /\ saving = {}
  /\ Exit("exit0")
  /\ UNCHANGED <<bridgeVars, client, saving, received, golemVars>>

\* An entity lives for a number of blocks.
Expire(e) ==
  /\ e \in entities
  /\ entities' = entities \ {e}
  /\ UNCHANGED <<bridgeVars, saverVars, saved>>

InnerStep ==
  \/ \E c \in fetching : FetchOk(c) \/ FetchErr(c)
  \/ \E e \in saving : SaveOk(e) \/ SaveErr(e)

-----------------------------------------------------------------------------
(* The query of a block's proof.                                            *)

\* Mutant: without the second half of the query.
getEntityFrom(targetBlock) == {e \in entities : e.notice.input_block_number <= targetBlock}

\* getEthConsensusProofBundleEntity takes the first of these; which one is first is
\* up to GolemDB.
getEthConsensusProofBundleEntity(targetBlock) ==
  {e \in entities : /\ e.notice.input_block_number <= targetBlock
                    /\ targetBlock <= e.notice.output_block_number}
=============================================================================
