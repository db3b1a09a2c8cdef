------------------------------ MODULE EventLoop ------------------------------
(***************************************************************************)
(* api/event_loop.rs with api/sp1_prover.rs: the table of prover jobs, the  *)
(* tasks that prove them, the channel their results come back on, and the   *)
(* public values a proof carries (types.rs, ProofOutputs). run() takes a    *)
(* finality event and drops it, and stage_transition_proof has no caller    *)
(* yet: the module lets the loop call it whenever it is not busy, with any  *)
(* window an event may carry.                                               *)
(***************************************************************************)
EXTENDS Integers, Sequences

CONSTANTS
  MaxSlot,  \* bound on slots
  MaxJobs,  \* bound on jobs
  None

Slot == 0..MaxSlot

\* ProofInputsWithWindow: the slot a window starts from and the one it is expected
\* to end in. A store's hash stands for its slot.
Window == {w \in [input_slot : Slot, expected_output_slot : Slot] :
             w.input_slot < w.expected_output_slot}

ASSUME EventLoopAssumption ==
  /\ MaxSlot \in Nat /\ MaxJobs \in Nat
  /\ None \notin Slot \cup Window

VARIABLES
  job_id,       \* id given last
  prover_jobs,  \* the jobs that are under way: the window of each id, or None
  job_rx,       \* results that wait for the loop, first one first
  handled,      \* for each proof handled: its job's window and what was decoded
  exited,       \* the process is gone
  staging,      \* the output slot the loop waits to hand to the detector
  stage,        \* the detector's stage channel, of one place
  output,       \* whether the detector's output channel, of one place, is full
  emitting,     \* the detector waits for room in it
  tasks,        \* the spawned tasks, by their order
  proving_key   \* whether PROVING_KEY is set

loopVars == <<job_id, prover_jobs, job_rx, handled, exited, staging>>
detectorVars == <<stage, output, emitting>>
taskVars == <<tasks, proving_key>>
eventLoopVars == <<loopVars, detectorVars, taskVars>>

JobId == 0..MaxJobs

-----------------------------------------------------------------------------
(* The public values. Bytes are taken in words of eight, since every offset  *)
(* is a multiple of eight: word k of value v is <<v, k>>, and a value of n    *)
(* words is read back whole or not at all.                                    *)

U64(slot) == <<"u64", slot>>
B256(name, slot) == <<name, slot>>

\* What the program commits for a window it accepts.
ProofOutputs(w) ==
  [input_slot |-> w.input_slot,
   input_store_hash |-> B256("store", w.input_slot),
   output_slot |-> w.expected_output_slot,
   output_store_hash |-> B256("store", w.expected_output_slot),
   execution_state_root |-> B256("execution", w.expected_output_slot),
   verified_contract_storage_slots_root |-> B256("slots", w.expected_output_slot),
   next_sync_committee_hash |-> B256("committee", w.expected_output_slot)]

SIZE == 176 \div 8

to_bytes(o) ==
  [i \in 0..SIZE-1 |->
     CASE i = 0       -> <<U64(o.input_slot), 0>>
       [] i \in 1..4   -> <<o.input_store_hash, i - 1>>
       [] i = 5       -> <<U64(o.output_slot), 0>>
       [] i \in 6..9   -> <<o.output_store_hash, i - 6>>
       [] i \in 10..13 -> <<o.execution_state_root, i - 10>>
       [] i \in 14..17 -> <<o.verified_contract_storage_slots_root, i - 14>>
       [] OTHER       -> <<o.next_sync_committee_hash, i - 18>>]

\* The value of n words at offset a of the buffer.
Read(bytes, a, n) ==
  IF \A k \in 0..n-1 : bytes[a + k] = <<bytes[a][1], k>> THEN bytes[a][1] ELSE None

\* Mutant: the offsets of ConsensusProofOutputs' fields, which has no slots root.
from_bytes_consensus(bytes) ==
  [input_slot |-> Read(bytes, 0, 1)[2],
   input_store_hash |-> Read(bytes, 1, 4),
   output_slot |-> Read(bytes, 5, 1)[2],
   output_store_hash |-> Read(bytes, 6, 4),
   execution_state_root |-> Read(bytes, 10, 4),
   verified_contract_storage_slots_root |-> Read(bytes, 14, 4),
   next_sync_committee_hash |-> Read(bytes, 14, 4)]

from_bytes(bytes) ==
  [input_slot |-> Read(bytes, 0, 1)[2],
   input_store_hash |-> Read(bytes, 1, 4),
   output_slot |-> Read(bytes, 5, 1)[2],
   output_store_hash |-> Read(bytes, 6, 4),
   execution_state_root |-> Read(bytes, 10, 4),
   verified_contract_storage_slots_root |-> Read(bytes, 14, 4),
   next_sync_committee_hash |-> Read(bytes, 18, 4)]

\* from_bytes is given a buffer of another size.
WrongSize(bytes) == DOMAIN bytes # 0..SIZE-1

-----------------------------------------------------------------------------
(* The loop. Its select! is polled only while no handler awaits.             *)

EventLoopInit ==
  /\ job_id = 0
  /\ prover_jobs = [j \in JobId |-> None]
  /\ job_rx = <<>>
  /\ handled = {}
  /\ exited = FALSE
  /\ staging = None
  /\ stage = None /\ output = FALSE /\ emitting = FALSE
  /\ tasks = <<>>
  /\ proving_key = FALSE

Polling == ~exited /\ staging = None

\* Mutant: the counter is moved before the insertion and after.
NextJobIdTwice == job_id + 2

\* Mutant: the counter is not moved.
NextJobIdSame == job_id

NextJobId == job_id + 1

\* Insert the job, spawn its task, and wait for room in the stage channel.
stage_transition_proof(w) ==
  /\ Polling
  /\ Len(tasks) < MaxJobs
  /\ job_id' = NextJobId
  /\ prover_jobs' = [prover_jobs EXCEPT ![job_id'] = w]
  /\ tasks' = Append(tasks, [pc |-> "key", job_id |-> job_id', inputs |-> w])
  /\ staging' = w.expected_output_slot
  /\ UNCHANGED <<job_rx, handled, exited, detectorVars, proving_key>>

SendStage ==
  /\ staging # None
  /\ stage = None
  /\ stage' = staging
  /\ staging' = None
  /\ UNCHANGED <<job_id, prover_jobs, job_rx, handled, exited, output, emitting, taskVars>>

\* run() takes a finality event, and drops it.
ReceiveOutput ==
  /\ Polling
  /\ output
  /\ output' = FALSE
  /\ UNCHANGED <<loopVars, stage, emitting, taskVars>>

\* handle_prover_success and handle_prover_failure take the job out of the table.
\* The unwrap of a job that is not there ends the loop, and the process with it; so
\* does a proof whose public values cannot be decoded.
HandleResult ==
  /\ Polling
  /\ job_rx # <<>>
  /\ LET result == Head(job_rx)
         window == prover_jobs[result.job_id]
     IN  /\ exited' = \/ window = None
                      \/ result.proof # None /\ WrongSize(result.proof)
         /\ prover_jobs' = [prover_jobs EXCEPT ![result.job_id] = None]
         /\ handled' =
              IF exited' \/ result.proof = None THEN handled
              ELSE handled \cup
                {[window |-> window, proof_outputs |-> from_bytes(result.proof)]}
  /\ job_rx' = Tail(job_rx)
  /\ UNCHANGED <<job_id, staging, detectorVars, taskVars>>

-----------------------------------------------------------------------------
(* The detector, as the loop meets it. While it waits for room in the output  *)
(* channel it polls nothing else.                                            *)

TakeStage ==
  /\ ~exited /\ ~emitting
  /\ stage # None
  /\ stage' = None
  /\ UNCHANGED <<loopVars, output, emitting, taskVars>>

DetectorEmits ==
  /\ ~exited /\ ~emitting
  /\ emitting' = TRUE
  /\ UNCHANGED <<loopVars, stage, output, taskVars>>

DetectorSends ==
  /\ ~exited /\ emitting /\ ~output
  /\ output' = TRUE
  /\ emitting' = FALSE
  /\ UNCHANGED <<loopVars, stage, taskVars>>

-----------------------------------------------------------------------------
(* The tasks: finality_update_job and the send of its result.                *)

Task(i, pc) == [pc |-> pc, job_id |-> tasks[i].job_id, inputs |-> tasks[i].inputs]

\* get_or_init: one task sets the key up, the others wait for it to end.
SetupKey(i) ==
  /\ tasks[i].pc = "key"
  /\ ~proving_key
  /\ \A j \in DOMAIN tasks : tasks[j].pc # "setup"
  /\ tasks' = [tasks EXCEPT ![i] = Task(i, "setup")]
  /\ UNCHANGED <<loopVars, detectorVars, proving_key>>

KeyIsSet(i) ==
  /\ tasks[i].pc = "setup"
  /\ proving_key' = TRUE
  /\ tasks' = [tasks EXCEPT ![i] = Task(i, "proving")]
  /\ UNCHANGED <<loopVars, detectorVars>>

\* The set-up panics: the task ends, the key stays unset, and nobody is told.
SetupPanics(i) ==
  /\ tasks[i].pc = "setup"
  /\ tasks' = [tasks EXCEPT ![i] = Task(i, "dead")]
  /\ UNCHANGED <<loopVars, detectorVars, proving_key>>

UseKey(i) ==
  /\ tasks[i].pc = "key"
  /\ proving_key
  /\ tasks' = [tasks EXCEPT ![i] = Task(i, "proving")]
  /\ UNCHANGED <<loopVars, detectorVars, proving_key>>

\* Mutant: only a proof is sent back, an error ends the task.
SendResultOkOnly(i, proof) ==
  job_rx' = IF proof = None THEN job_rx
            ELSE Append(job_rx, [job_id |-> tasks[i].job_id, proof |-> proof])

\* Ok or Err (None): the channel has no bound, and its receiver lives with the loop.
SendResult(i, proof) ==
  job_rx' = Append(job_rx, [job_id |-> tasks[i].job_id, proof |-> proof])

\* The inputs cannot be encoded: the task ends before it asks for the key.
EncodeFails(i) ==
  /\ tasks[i].pc = "key"
  /\ tasks' = [tasks EXCEPT ![i] = Task(i, "done")]
  /\ SendResult(i, None)
  /\ UNCHANGED <<job_id, prover_jobs, handled, exited, staging, detectorVars, proving_key>>

\* The blocking proof succeeds, or fails, or panics, which its join returns as an
\* error.
Prove(i) ==
  /\ tasks[i].pc = "proving"
  /\ tasks' = [tasks EXCEPT ![i] = Task(i, "done")]
  /\ \E proof \in {to_bytes(ProofOutputs(tasks[i].inputs)), None} : SendResult(i, proof)
  /\ UNCHANGED <<job_id, prover_jobs, handled, exited, staging, detectorVars, proving_key>>

TaskStep(i) ==
  \/ EncodeFails(i) \/ SetupKey(i) \/ KeyIsSet(i) \/ SetupPanics(i) \/ UseKey(i)
  \/ Prove(i)

DetectorNext == TakeStage \/ DetectorEmits \/ DetectorSends

EventLoopNext ==
  \/ \E w \in Window : stage_transition_proof(w)
  \/ SendStage \/ ReceiveOutput \/ HandleResult
  \/ DetectorNext
  \/ ~exited /\ \E i \in DOMAIN tasks : TaskStep(i)

\* Tokio polls every task whose future is ready, and every send that has room ends.
\* The detector's select! picks at random among its ready branches: a stage that is
\* there whenever it polls is taken at last, however much it emits.
EventLoopFairness ==
  /\ WF_eventLoopVars(SendStage) /\ WF_eventLoopVars(ReceiveOutput)
  /\ WF_eventLoopVars(HandleResult)
  /\ SF_eventLoopVars(TakeStage) /\ WF_eventLoopVars(DetectorSends)
  /\ \A i \in 1..MaxJobs :
       WF_eventLoopVars(~exited /\ i \in DOMAIN tasks /\ TaskStep(i))

-----------------------------------------------------------------------------
(* Properties.                                                              *)

PublicValues == {to_bytes(ProofOutputs(w)) : w \in Window}

Result == [job_id : JobId, proof : PublicValues \cup {None}]

TaskRecord ==
  [pc : {"key", "setup", "proving", "done", "dead"}, job_id : JobId, inputs : Window]

\* Every reachable state of the loop and its tasks is well typed.
EventLoopTypeOK ==
  /\ job_id \in JobId
  /\ prover_jobs \in [JobId -> Window \cup {None}]
  /\ job_rx \in Seq(Result)
  /\ exited \in BOOLEAN
  /\ staging \in Slot \cup {None}
  /\ stage \in Slot \cup {None} /\ output \in BOOLEAN /\ emitting \in BOOLEAN
  /\ tasks \in Seq(TaskRecord)
  /\ proving_key \in BOOLEAN

\* handle_prover_success and handle_prover_failure unwrap the table's entry: in
\* whatever order tasks end, each result finds its job, and no two find the same.
ResultsHaveJobs ==
  \A i \in 1..Len(job_rx) :
    /\ prover_jobs[job_rx[i].job_id] # None
    /\ \A j \in 1..Len(job_rx) : job_rx[i].job_id = job_rx[j].job_id => i = j

\* What is decoded from a proof is what the program committed for the window that
\* the table keeps under its id, although both went their own ways: the window's
\* inputs through the task and the public values, the window through the table.
DecodedAsExpected ==
  \A h \in handled : h.proof_outputs = ProofOutputs(h.window)

\* The loop waits for room in the stage channel and does not take events, the detector
\* waits for room in the output channel and does not take stages: neither ever ends.
EachWaitsForTheOther ==
  staging # None /\ stage # None /\ emitting /\ output

\* No job stays in the table for ever, however long the loop and the detector wait for
\* each other's channels and whatever else they emit and stage meanwhile, unless both
\* wait at once, or the proving key's set-up panicked in the job's task.
JobsEnd ==
  \A j \in 1..MaxJobs :
    prover_jobs[j] # None ~>
      \/ prover_jobs[j] = None
      \/ EachWaitsForTheOther
      \/ \E i \in DOMAIN tasks : tasks[i].job_id = j /\ tasks[i].pc = "dead"
=============================================================================
