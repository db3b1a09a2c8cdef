------------------------ MODULE ProofPipeline_proofs ------------------------
(***************************************************************************)
(* Proofs of the pipeline's safety: the loop's table and its results, the   *)
(* round trip of the public values, and what the saver leaves in GolemDB.    *)
(***************************************************************************)
EXTENDS ProofPipeline, TLAPS

(* The loop hands out ids in the order of the tasks. A job stays in the table  *)
(* until its one result is taken.                                             *)
JobInv ==
  /\ Len(tasks) = job_id
  /\ \A i \in 1..Len(tasks) :
       /\ tasks[i].job_id = i
       /\ tasks[i].pc # "done" => prover_jobs[i] = tasks[i].inputs
  /\ \A k \in 1..Len(job_rx) :
       LET j == job_rx[k].job_id IN
       /\ j \in 1..Len(tasks)
       /\ tasks[j].pc = "done"
       /\ prover_jobs[j] = tasks[j].inputs
       /\ job_rx[k].proof \in {to_bytes(ProofOutputs(tasks[j].inputs)), None}
       /\ \A m \in 1..Len(job_rx) : job_rx[m].job_id = j => m = k

ProverInv == EventLoopTypeOK /\ JobInv /\ DecodedAsExpected

-----------------------------------------------------------------------------
(* The public values.                                                       *)

LEMMA Words ==
  ASSUME NEW w \in Window
  PROVE  LET o == ProofOutputs(w)
             b == to_bytes(o)
         IN  /\ b[0] = <<U64(o.input_slot), 0>>
             /\ \A k \in 0..3 : b[1 + k] = <<o.input_store_hash, k>>
             /\ b[5] = <<U64(o.output_slot), 0>>
             /\ \A k \in 0..3 : b[6 + k] = <<o.output_store_hash, k>>
             /\ \A k \in 0..3 : b[10 + k] = <<o.execution_state_root, k>>
             /\ \A k \in 0..3 : b[14 + k] = <<o.verified_contract_storage_slots_root, k>>
             /\ \A k \in 0..3 : b[18 + k] = <<o.next_sync_committee_hash, k>>
<1> DEFINE o == ProofOutputs(w)
<1>1. SIZE = 22
  BY DEF SIZE
<1> HIDE DEF o
<1>2. /\ to_bytes(o)[0] = <<U64(o.input_slot), 0>>
      /\ to_bytes(o)[5] = <<U64(o.output_slot), 0>>
  BY <1>1 DEF to_bytes
<1>3. \A k \in 0..3 : to_bytes(o)[1 + k] = <<o.input_store_hash, k>>
  BY <1>1 DEF to_bytes
<1>4. \A k \in 0..3 : to_bytes(o)[6 + k] = <<o.output_store_hash, k>>
  BY <1>1 DEF to_bytes
<1>5. \A k \in 0..3 : to_bytes(o)[10 + k] = <<o.execution_state_root, k>>
  BY <1>1 DEF to_bytes
<1>6. \A k \in 0..3 : to_bytes(o)[14 + k] = <<o.verified_contract_storage_slots_root, k>>
  BY <1>1 DEF to_bytes
<1>7. \A k \in 0..3 : to_bytes(o)[18 + k] = <<o.next_sync_committee_hash, k>>
  BY <1>1 DEF to_bytes
<1>8. QED
  BY <1>2, <1>3, <1>4, <1>5, <1>6, <1>7 DEF o

LEMMA ReadsOne ==
  ASSUME NEW b, NEW v, NEW a \in Nat, b[a] = <<v, 0>>
  PROVE  Read(b, a, 1) = v
<1>1. b[a][1] = v
  OBVIOUS
<1>2. \A k \in 0..1-1 : k = 0
  OBVIOUS
<1>3. a + 0 = a
  OBVIOUS
<1>4. \A k \in 0..1-1 : b[a + k] = <<b[a][1], k>>
  BY <1>1, <1>2, <1>3
<1>5. QED
  BY <1>1, <1>4 DEF Read

LEMMA ReadsFour ==
  ASSUME NEW b, NEW v, NEW a \in Nat, \A k \in 0..3 : b[a + k] = <<v, k>>
  PROVE  Read(b, a, 4) = v
<1>1. 0 \in 0..3 /\ a + 0 = a /\ 0..4-1 = 0..3
  OBVIOUS
<1>2. b[a][1] = v
  BY <1>1
<1>3. QED
  BY <1>1, <1>2 DEF Read

\* What handle_prover_success decodes is what the program committed.
LEMMA RoundTrip ==
  ASSUME NEW w \in Window
  PROVE  from_bytes(to_bytes(ProofOutputs(w))) = ProofOutputs(w)
<1> DEFINE o == ProofOutputs(w)
           b == to_bytes(o)
<1>1. Read(b, 0, 1) = U64(o.input_slot) /\ Read(b, 5, 1) = U64(o.output_slot)
  <2>1. b[0] = <<U64(o.input_slot), 0>> /\ b[5] = <<U64(o.output_slot), 0>>
    BY Words
  <2> HIDE DEF o, b
  <2>2. QED
    BY <2>1, ReadsOne
<1>2. /\ Read(b, 1, 4) = o.input_store_hash
      /\ Read(b, 6, 4) = o.output_store_hash
      /\ Read(b, 10, 4) = o.execution_state_root
      /\ Read(b, 14, 4) = o.verified_contract_storage_slots_root
      /\ Read(b, 18, 4) = o.next_sync_committee_hash
  <2>1. Read(b, 1, 4) = o.input_store_hash
    <3>1. \A k \in 0..3 : b[1 + k] = <<o.input_store_hash, k>>
      BY Words
    <3> HIDE DEF o, b
    <3>2. QED
      BY <3>1, ReadsFour
  <2>2. Read(b, 6, 4) = o.output_store_hash
    <3>1. \A k \in 0..3 : b[6 + k] = <<o.output_store_hash, k>>
      BY Words
    <3> HIDE DEF o, b
    <3>2. QED
      BY <3>1, ReadsFour
  <2>3. Read(b, 10, 4) = o.execution_state_root
    <3>1. \A k \in 0..3 : b[10 + k] = <<o.execution_state_root, k>>
      BY Words
    <3> HIDE DEF o, b
    <3>2. QED
      BY <3>1, ReadsFour
  <2>4. Read(b, 14, 4) = o.verified_contract_storage_slots_root
    <3>1. \A k \in 0..3 : b[14 + k] = <<o.verified_contract_storage_slots_root, k>>
      BY Words
    <3> HIDE DEF o, b
    <3>2. QED
      BY <3>1, ReadsFour
  <2>5. Read(b, 18, 4) = o.next_sync_committee_hash
    <3>1. \A k \in 0..3 : b[18 + k] = <<o.next_sync_committee_hash, k>>
      BY Words
    <3> HIDE DEF o, b
    <3>2. QED
      BY <3>1, ReadsFour
  <2>6. QED
    BY <2>1, <2>2, <2>3, <2>4, <2>5
<1>3. U64(o.input_slot)[2] = o.input_slot /\ U64(o.output_slot)[2] = o.output_slot
  BY DEF U64
<1>4. from_bytes(b) =
        [input_slot |-> o.input_slot, input_store_hash |-> o.input_store_hash,
         output_slot |-> o.output_slot, output_store_hash |-> o.output_store_hash,
         execution_state_root |-> o.execution_state_root,
         verified_contract_storage_slots_root |-> o.verified_contract_storage_slots_root,
         next_sync_committee_hash |-> o.next_sync_committee_hash]
  <2> HIDE DEF o, b
  <2>1. QED
    BY <1>1, <1>2, <1>3 DEF from_bytes
<1>5. QED
  BY <1>4 DEF ProofOutputs

-----------------------------------------------------------------------------
(* The loop and its tasks.                                                   *)

LEMMA WindowType ==
  /\ None \notin Window
  /\ \A w \in Window :
       /\ w.input_slot \in Slot /\ w.expected_output_slot \in Slot
       /\ to_bytes(ProofOutputs(w)) \in PublicValues
<1>1. None \notin Window
  BY EventLoopAssumption
<1>2. \A w \in Window : w.input_slot \in Slot /\ w.expected_output_slot \in Slot
  BY DEF Window
<1>3. \A w \in Window : to_bytes(ProofOutputs(w)) \in PublicValues
  BY DEF PublicValues
<1>4. QED
  BY <1>1, <1>2, <1>3

\* A task that moves on without a result leaves its job in the table.
LEMMA TaskMoves ==
  ASSUME ProverInv, NEW i \in DOMAIN tasks, NEW pc \in {"setup", "proving", "dead"},
         tasks[i].pc # "done",
         tasks' = [tasks EXCEPT ![i] = Task(i, pc)],
         UNCHANGED <<loopVars, detectorVars>>, proving_key' \in BOOLEAN
  PROVE  ProverInv'
<1>1. tasks \in Seq(TaskRecord) /\ i \in 1..Len(tasks) /\ tasks[i] \in TaskRecord
  BY DEF ProverInv, EventLoopTypeOK
<1>2. /\ Task(i, pc) \in TaskRecord
      /\ Task(i, pc).pc = pc /\ Task(i, pc).pc # "done"
      /\ Task(i, pc).job_id = tasks[i].job_id /\ Task(i, pc).inputs = tasks[i].inputs
  BY <1>1 DEF Task, TaskRecord
<1>3. /\ tasks' \in Seq(TaskRecord) /\ Len(tasks') = Len(tasks)
      /\ tasks'[i] = Task(i, pc)
      /\ \A j \in 1..Len(tasks) : j # i => tasks'[j] = tasks[j]
  BY <1>1, <1>2
<1>4. UNCHANGED <<job_id, prover_jobs, job_rx, handled, exited, staging, stage, output,
                  emitting>>
  BY DEF loopVars, detectorVars
<1>5. EventLoopTypeOK'
  BY <1>3, <1>4 DEF ProverInv, EventLoopTypeOK
<1>6. JobInv'
  <2>1. \A j \in 1..Len(tasks) :
          /\ tasks'[j].job_id = tasks[j].job_id /\ tasks'[j].inputs = tasks[j].inputs
          /\ tasks'[j].pc # "done" <=> tasks[j].pc # "done"
    BY <1>2, <1>3
  <2>2. \A j \in 1..Len(tasks) : tasks[j].pc = "done" => tasks'[j].pc = "done"
    BY <2>1
  <2>3. QED
    BY <1>3, <1>4, <2>1, <2>2 DEF ProverInv, JobInv
<1>7. DecodedAsExpected'
  BY <1>4 DEF ProverInv, DecodedAsExpected
<1>8. QED
  BY <1>5, <1>6, <1>7 DEF ProverInv

\* A task that ends with a result, of whatever kind, hands it to its job.
LEMMA TaskEnds ==
  ASSUME ProverInv, NEW i \in DOMAIN tasks, tasks[i].pc # "done",
         tasks' = [tasks EXCEPT ![i] = Task(i, "done")],
         NEW proof \in {to_bytes(ProofOutputs(tasks[i].inputs)), None},
         SendResult(i, proof),
         UNCHANGED <<job_id, prover_jobs, handled, exited, staging, detectorVars, proving_key>>
  PROVE  ProverInv'
<1>1. tasks \in Seq(TaskRecord) /\ i \in 1..Len(tasks) /\ tasks[i] \in TaskRecord
  BY DEF ProverInv, EventLoopTypeOK
<1>2. /\ Task(i, "done") \in TaskRecord
      /\ Task(i, "done").pc = "done"
      /\ Task(i, "done").job_id = tasks[i].job_id
      /\ Task(i, "done").inputs = tasks[i].inputs
      /\ tasks[i].job_id \in JobId /\ tasks[i].inputs \in Window
  BY <1>1 DEF Task, TaskRecord
<1>3. /\ tasks' \in Seq(TaskRecord) /\ Len(tasks') = Len(tasks)
      /\ tasks'[i] = Task(i, "done")
      /\ \A j \in 1..Len(tasks) : j # i => tasks'[j] = tasks[j]
  BY <1>1, <1>2
<1>4. job_rx' = Append(job_rx, [job_id |-> tasks[i].job_id, proof |-> proof])
  BY DEF SendResult
<1> DEFINE r == [job_id |-> tasks[i].job_id, proof |-> proof]
<1>5. r \in Result /\ r.job_id = tasks[i].job_id /\ r.proof = proof
  BY <1>2, <1>4, WindowType DEF Result
<1>6. UNCHANGED <<job_id, prover_jobs, handled, exited, staging, stage, output, emitting,
                  proving_key>>
  BY DEF detectorVars
<1>7. job_rx \in Seq(Result)
  BY DEF ProverInv, EventLoopTypeOK
<1> HIDE DEF r
<1>8. /\ job_rx' \in Seq(Result) /\ Len(job_rx') = Len(job_rx) + 1
      /\ job_rx'[Len(job_rx) + 1] = r
      /\ \A k \in 1..Len(job_rx) : job_rx'[k] = job_rx[k]
  BY <1>4, <1>5, <1>7 DEF r
<1>9. EventLoopTypeOK'
  BY <1>3, <1>6, <1>8 DEF ProverInv, EventLoopTypeOK
<1>10. JobInv'
  <2>1. \A j \in 1..Len(tasks) :
          /\ tasks'[j].job_id = tasks[j].job_id /\ tasks'[j].inputs = tasks[j].inputs
          /\ tasks'[j].pc # "done" => tasks[j].pc # "done"
    BY <1>2, <1>3
  <2>2. tasks[i].job_id = i /\ prover_jobs[i] = tasks[i].inputs
    BY <1>1, <1>6 DEF ProverInv, JobInv
  <2>3. \A k \in 1..Len(job_rx) :
          /\ job_rx[k].job_id \in 1..Len(tasks) /\ job_rx[k].job_id # i
          /\ tasks[job_rx[k].job_id].pc = "done"
    BY <1>6 DEF ProverInv, JobInv
  <2>4. Len(tasks') = job_id'
    BY <1>3, <1>6 DEF ProverInv, JobInv
  <2>5. \A j \in 1..Len(tasks') :
          /\ tasks'[j].job_id = j
          /\ tasks'[j].pc # "done" => prover_jobs'[j] = tasks'[j].inputs
    BY <1>3, <1>6, <2>1 DEF ProverInv, JobInv
  <2>6. ASSUME NEW k \in 1..Len(job_rx')
        PROVE  LET j == job_rx'[k].job_id IN
               /\ j \in 1..Len(tasks')
               /\ tasks'[j].pc = "done"
               /\ prover_jobs'[j] = tasks'[j].inputs
               /\ job_rx'[k].proof \in {to_bytes(ProofOutputs(tasks'[j].inputs)), None}
               /\ \A m \in 1..Len(job_rx') : job_rx'[m].job_id = j => m = k
    <3>1. CASE k \in 1..Len(job_rx)
      <4> DEFINE j == job_rx[k].job_id
      <4>1. /\ j \in 1..Len(tasks) /\ j # i /\ tasks[j].pc = "done"
            /\ prover_jobs[j] = tasks[j].inputs
            /\ job_rx[k].proof \in {to_bytes(ProofOutputs(tasks[j].inputs)), None}
            /\ \A m \in 1..Len(job_rx) : job_rx[m].job_id = j => m = k
        BY <2>3, <3>1 DEF ProverInv, JobInv
      <4>2. job_rx'[k] = job_rx[k] /\ tasks'[j] = tasks[j]
        BY <1>3, <1>8, <3>1, <4>1
      <4>3. \A m \in 1..Len(job_rx') : job_rx'[m].job_id = j => m = k
        BY <1>5, <1>7, <1>8, <2>2, <4>1
      <4>4. QED
        BY <1>3, <1>6, <4>1, <4>2, <4>3
    <3>2. CASE k = Len(job_rx) + 1
      <4>1. job_rx'[k] = r /\ r.job_id = i
        BY <1>5, <1>8, <2>2, <3>2
      <4>2. \A m \in 1..Len(job_rx') : job_rx'[m].job_id = i => m = k
        BY <1>7, <1>8, <2>3, <3>2
      <4>3. r.proof \in {to_bytes(ProofOutputs(tasks'[i].inputs)), None}
        BY <1>1, <1>4, <1>5, <2>1
      <4>4. QED
        BY <1>1, <1>2, <1>3, <1>6, <2>2, <4>1, <4>2, <4>3
    <3>3. QED
      BY <1>7, <1>8, <3>1, <3>2
  <2>7. QED
    BY <2>4, <2>5, <2>6 DEF JobInv
<1>11. DecodedAsExpected'
  BY <1>6 DEF ProverInv, DecodedAsExpected
<1>12. QED
  BY <1>9, <1>10, <1>11 DEF ProverInv

LEMMA StageStep ==
  ASSUME ProverInv, NEW w \in Window, stage_transition_proof(w)
  PROVE  ProverInv'
<1> DEFINE t == [pc |-> "key", job_id |-> job_id', inputs |-> w]
<1>1. /\ job_id \in Nat /\ MaxJobs \in Nat /\ job_id' = job_id + 1
      /\ Len(tasks) = job_id /\ job_id < MaxJobs
      /\ tasks \in Seq(TaskRecord) /\ job_rx \in Seq(Result)
  BY EventLoopAssumption
     DEF ProverInv, EventLoopTypeOK, JobInv, JobId, stage_transition_proof, NextJobId
<1>2. job_id' \in JobId
  BY <1>1 DEF JobId
<1>3. /\ t \in TaskRecord /\ t.job_id = job_id + 1 /\ t.inputs = w /\ t.pc = "key"
      /\ tasks' = Append(tasks, t)
  BY <1>1, <1>2 DEF TaskRecord, stage_transition_proof
<1> HIDE DEF t
<1>4. /\ tasks' \in Seq(TaskRecord) /\ Len(tasks') = job_id + 1
      /\ tasks'[job_id + 1] = t
      /\ \A j \in 1..job_id : tasks'[j] = tasks[j]
  BY <1>1, <1>3
<1>5. /\ prover_jobs' = [prover_jobs EXCEPT ![job_id + 1] = w]
      /\ prover_jobs \in [JobId -> Window \cup {None}]
      /\ staging' = w.expected_output_slot
      /\ UNCHANGED <<job_rx, handled, exited, stage, output, emitting, proving_key>>
  BY <1>1 DEF ProverInv, EventLoopTypeOK, stage_transition_proof, detectorVars
<1>6. EventLoopTypeOK'
  BY <1>2, <1>4, <1>5, WindowType DEF ProverInv, EventLoopTypeOK
<1>7. JobInv'
  <2>1. /\ prover_jobs'[job_id + 1] = w
        /\ \A j \in 1..job_id : prover_jobs'[j] = prover_jobs[j]
    <3>1. job_id + 1 \in JobId /\ 1..job_id \subseteq JobId /\ job_id + 1 \notin 1..job_id
      BY <1>1, <1>2 DEF JobId
    <3>2. QED
      BY <1>5, <3>1
  <2>2. \A j \in 1..Len(tasks') : j \in 1..job_id \/ j = job_id + 1
    BY <1>1, <1>4
  <2>3. \A j \in 1..Len(tasks') :
          /\ tasks'[j].job_id = j
          /\ tasks'[j].pc # "done" => prover_jobs'[j] = tasks'[j].inputs
    BY <1>1, <1>3, <1>4, <2>1, <2>2 DEF ProverInv, JobInv
  <2>4. ASSUME NEW k \in 1..Len(job_rx)
        PROVE  LET j == job_rx[k].job_id IN
               /\ j \in 1..Len(tasks')
               /\ tasks'[j].pc = "done"
               /\ prover_jobs'[j] = tasks'[j].inputs
               /\ job_rx[k].proof \in {to_bytes(ProofOutputs(tasks'[j].inputs)), None}
               /\ \A m \in 1..Len(job_rx) : job_rx[m].job_id = j => m = k
    <3> DEFINE j == job_rx[k].job_id
    <3>1. /\ j \in 1..Len(tasks) /\ tasks[j].pc = "done"
          /\ prover_jobs[j] = tasks[j].inputs
          /\ job_rx[k].proof \in {to_bytes(ProofOutputs(tasks[j].inputs)), None}
          /\ \A m \in 1..Len(job_rx) : job_rx[m].job_id = j => m = k
      BY DEF ProverInv, JobInv
    <3>2. tasks'[j] = tasks[j] /\ prover_jobs'[j] = prover_jobs[j] /\ j \in 1..Len(tasks')
      BY <1>1, <1>4, <2>1, <3>1
    <3>3. QED
      BY <3>1, <3>2
  <2>5. Len(tasks') = job_id' /\ job_rx' = job_rx
    BY <1>1, <1>4, <1>5
  <2>6. QED
    BY <2>3, <2>4, <2>5 DEF JobInv
<1>8. DecodedAsExpected'
  BY <1>5 DEF ProverInv, DecodedAsExpected
<1>9. QED
  BY <1>6, <1>7, <1>8 DEF ProverInv

\* The result taken finds its job, and no result left behind is of the same job.
LEMMA HandleStep ==
  ASSUME ProverInv, HandleResult
  PROVE  ProverInv' /\ exited' = FALSE /\ handled \subseteq handled'
<1> DEFINE result == Head(job_rx)
           j == result.job_id
           window == prover_jobs[j]
<1>1. /\ job_rx \in Seq(Result) /\ job_rx # <<>> /\ Len(job_rx) \in Nat
      /\ result = job_rx[1] /\ 1 \in 1..Len(job_rx)
      /\ job_rx' = Tail(job_rx)
  BY DEF ProverInv, EventLoopTypeOK, HandleResult
<1>2. /\ job_rx' \in Seq(Result) /\ Len(job_rx') = Len(job_rx) - 1
      /\ \A k \in 1..Len(job_rx') : k + 1 \in 1..Len(job_rx) /\ job_rx'[k] = job_rx[k + 1]
  BY <1>1
<1>3. /\ j \in 1..Len(tasks) /\ tasks[j].pc = "done"
      /\ window = tasks[j].inputs
      /\ result.proof \in {to_bytes(ProofOutputs(tasks[j].inputs)), None}
      /\ \A m \in 1..Len(job_rx) : job_rx[m].job_id = j => m = 1
  BY <1>1 DEF ProverInv, JobInv
<1>4. window \in Window /\ window # None
  <2>1. tasks[j] \in TaskRecord
    BY <1>3 DEF ProverInv, EventLoopTypeOK
  <2>2. QED
    BY <1>3, <2>1, WindowType DEF TaskRecord
<1>5. /\ prover_jobs' = [prover_jobs EXCEPT ![j] = None]
      /\ exited' = \/ window = None
                   \/ result.proof # None /\ WrongSize(result.proof)
      /\ handled' = IF exited' \/ result.proof = None THEN handled
                    ELSE handled \cup
                      {[window |-> window, proof_outputs |-> from_bytes(result.proof)]}
      /\ UNCHANGED <<job_id, staging, stage, output, emitting, tasks, proving_key>>
  BY DEF HandleResult, detectorVars, taskVars
<1>6. exited' = FALSE
  <2>1. ~WrongSize(to_bytes(ProofOutputs(tasks[j].inputs)))
    BY DEF WrongSize, to_bytes
  <2> HIDE DEF j, window, result
  <2>2. QED
    BY <1>3, <1>4, <1>5, <2>1
<1>7. EventLoopTypeOK'
  <2>1. prover_jobs' \in [JobId -> Window \cup {None}]
    BY <1>5 DEF ProverInv, EventLoopTypeOK
  <2>2. QED
    BY <1>2, <1>5, <1>6, <2>1 DEF ProverInv, EventLoopTypeOK
<1>8. JobInv'
  <2>1. \A i \in 1..Len(tasks) : i # j => prover_jobs'[i] = prover_jobs[i]
    <3>1. 1..Len(tasks) \subseteq JobId
      BY EventLoopAssumption DEF ProverInv, EventLoopTypeOK, JobInv, JobId
    <3>2. prover_jobs \in [JobId -> Window \cup {None}]
      BY DEF ProverInv, EventLoopTypeOK
    <3>3. QED
      BY <1>5, <3>1, <3>2
  <2>2. \A i \in 1..Len(tasks) :
          /\ tasks[i].job_id = i
          /\ tasks[i].pc # "done" => prover_jobs'[i] = tasks[i].inputs
    BY <1>3, <2>1 DEF ProverInv, JobInv
  <2>3. ASSUME NEW k \in 1..Len(job_rx')
        PROVE  LET i == job_rx'[k].job_id IN
               /\ i \in 1..Len(tasks)
               /\ tasks[i].pc = "done"
               /\ prover_jobs'[i] = tasks[i].inputs
               /\ job_rx'[k].proof \in {to_bytes(ProofOutputs(tasks[i].inputs)), None}
               /\ \A m \in 1..Len(job_rx') : job_rx'[m].job_id = i => m = k
    <3> DEFINE i == job_rx[k + 1].job_id
    <3>1. /\ i \in 1..Len(tasks) /\ tasks[i].pc = "done"
          /\ prover_jobs[i] = tasks[i].inputs
          /\ job_rx[k + 1].proof \in {to_bytes(ProofOutputs(tasks[i].inputs)), None}
          /\ \A m \in 1..Len(job_rx) : job_rx[m].job_id = i => m = k + 1
      BY <1>2 DEF ProverInv, JobInv
    <3>2. i # j
      BY <1>1, <3>1
    <3>3. prover_jobs'[i] = prover_jobs[i]
      BY <2>1, <3>1, <3>2
    <3>4. \A m \in 1..Len(job_rx') : job_rx'[m].job_id = i => m = k
      <4>1. ASSUME NEW m \in 1..Len(job_rx'), job_rx'[m].job_id = i
            PROVE  m = k
        <5>1. m + 1 = k + 1
          BY <1>2, <3>1, <4>1
        <5>2. QED
          BY <1>1, <1>2, <5>1
      <4>2. QED
        BY <4>1
    <3>5. job_rx'[k] = job_rx[k + 1]
      BY <1>2
    <3>6. QED
      BY <3>1, <3>3, <3>4, <3>5
  <2>4. Len(tasks) = job_id
    BY DEF ProverInv, JobInv
  <2>5. tasks' = tasks /\ job_id' = job_id
    BY <1>5
  <2> HIDE DEF j, window, result
  <2>6. QED
    BY <2>2, <2>3, <2>4, <2>5 DEF JobInv
<1>9. DecodedAsExpected' /\ handled \subseteq handled'
  <2>1. CASE result.proof = None
    <3>1. handled' = handled
      BY <1>5, <2>1
    <3>2. QED
      BY <3>1 DEF ProverInv, DecodedAsExpected
  <2>2. CASE result.proof # None
    <3>1. from_bytes(result.proof) = ProofOutputs(window)
      BY <1>3, <1>4, <2>2, RoundTrip
    <3>2. handled' = handled \cup {[window |-> window, proof_outputs |-> ProofOutputs(window)]}
      BY <1>5, <1>6, <2>2, <3>1
    <3> HIDE DEF j, window, result
    <3>3. QED
      BY <3>2 DEF ProverInv, DecodedAsExpected
  <2>3. QED
    BY <2>1, <2>2
<1>10. QED
  BY <1>6, <1>7, <1>8, <1>9 DEF ProverInv

LEMMA ProverStep ==
  ASSUME ProverInv, EventLoopNext \/ UNCHANGED eventLoopVars
  PROVE  ProverInv' /\ handled \subseteq handled'
<1>1. ASSUME NEW w \in Window, stage_transition_proof(w)
      PROVE  ProverInv' /\ handled' = handled
  BY <1>1, StageStep DEF stage_transition_proof
<1>2. CASE SendStage \/ ReceiveOutput \/ DetectorNext
  <2>1. /\ UNCHANGED <<job_id, prover_jobs, job_rx, handled, exited, tasks, proving_key>>
        /\ staging' \in Slot \cup {None} /\ stage' \in Slot \cup {None}
        /\ output' \in BOOLEAN /\ emitting' \in BOOLEAN
    BY <1>2 DEF SendStage, ReceiveOutput, DetectorNext, TakeStage, DetectorEmits,
                DetectorSends, loopVars, taskVars, ProverInv, EventLoopTypeOK
  <2>2. EventLoopTypeOK'
    BY <2>1 DEF ProverInv, EventLoopTypeOK
  <2>3. JobInv' /\ DecodedAsExpected'
    BY <2>1 DEF ProverInv, JobInv, DecodedAsExpected
  <2>4. QED
    BY <2>1, <2>2, <2>3 DEF ProverInv
<1>3. CASE HandleResult
  BY <1>3, HandleStep
<1>4. ASSUME NEW i \in DOMAIN tasks, TaskStep(i)
      PROVE  ProverInv' /\ handled' = handled
  <2>0. CASE EncodeFails(i)
    BY <2>0, TaskEnds DEF EncodeFails
  <2>1. CASE SetupKey(i)
    BY <2>1, TaskMoves DEF SetupKey, loopVars, ProverInv, EventLoopTypeOK
  <2>2. CASE KeyIsSet(i)
    BY <2>2, TaskMoves DEF KeyIsSet, loopVars
  <2>3. CASE SetupPanics(i)
    BY <2>3, TaskMoves DEF SetupPanics, loopVars, ProverInv, EventLoopTypeOK
  <2>4. CASE UseKey(i)
    BY <2>4, TaskMoves DEF UseKey, loopVars, ProverInv, EventLoopTypeOK
  <2>5. CASE Prove(i)
    BY <2>5, TaskEnds DEF Prove
  <2>6. QED
    BY <1>4, <2>0, <2>1, <2>2, <2>3, <2>4, <2>5 DEF TaskStep
<1>5. CASE UNCHANGED eventLoopVars
  <2>1. UNCHANGED <<job_id, prover_jobs, job_rx, handled, exited, staging, stage, output,
                    emitting, tasks, proving_key>>
    BY <1>5 DEF eventLoopVars, loopVars, detectorVars, taskVars
  <2>2. EventLoopTypeOK'
    BY <2>1 DEF ProverInv, EventLoopTypeOK
  <2>3. JobInv' /\ DecodedAsExpected'
    BY <2>1 DEF ProverInv, JobInv, DecodedAsExpected
  <2>4. QED
    BY <2>1, <2>2, <2>3 DEF ProverInv
<1>6. QED
  BY <1>1, <1>2, <1>3, <1>4, <1>5 DEF EventLoopNext

LEMMA ProverInit ==
  ASSUME EventLoopInit
  PROVE  ProverInv
<1>1. 0 \in JobId /\ MaxJobs \in Nat
  BY EventLoopAssumption DEF JobId
<1>2. EventLoopTypeOK
  BY <1>1 DEF EventLoopInit, EventLoopTypeOK
<1>3. JobInv
  BY DEF EventLoopInit, JobInv
<1>4. DecodedAsExpected
  BY DEF EventLoopInit, DecodedAsExpected
<1>5. QED
  BY <1>2, <1>3, <1>4 DEF ProverInv

-----------------------------------------------------------------------------
(* The saver. The bridge goes forward only, so a conversion is known by its   *)
(* input block, and the bundle that is fetched is the one the notice is of.   *)

\* Every conversion is of a window whose proof the loop handled.
Proved(c) ==
  \E h \in handled :
    /\ h.window.input_slot = c.input_block_number
    /\ h.window.expected_output_slot = c.output_block_number

ChainInv ==
  /\ \A c \in converted : c.output_block_number <= bridge_head /\ Proved(c)
  /\ \A c, d \in converted : c.input_block_number = d.input_block_number => c = d
  /\ replay \in converted \cup {Nothing}
  /\ received \subseteq converted
  /\ fetching \subseteq received
  /\ \A e \in saving \cup entities : e.bundle = e.notice /\ e.notice \in received

\* While the saver lives, what it was told of is on its way or saved.
CareInv ==
  /\ saver \in {"starting", "running"} =>
       \A c \in received : c \in fetching \/ c \in saved \/ \E e \in saving : e.notice = c
  /\ saver = "starting" => saving = {}
  /\ saver = "exit0" => received \subseteq saved

IInv == TypeOK /\ ProverInv /\ ChainInv /\ CareInv

allSaverVars == <<proofSaverVars, bridge_head>>

LEMMA ConversionType ==
  \A c \in Conversion :
    /\ c.input_block_number \in Block /\ c.output_block_number \in Block
    /\ c.input_block_number < c.output_block_number
BY DEF Conversion

LEMMA InitInv ==
  ASSUME Init
  PROVE  IInv
<1>1. ProverInv
  BY ProverInit DEF Init
<1>2. 0 \in Block
  BY SaverAssumption DEF Block
<1>3. TypeOK
  BY <1>1, <1>2 DEF Init, ProofSaverInit, TypeOK, SaverStates, ProverInv
<1>4. ChainInv /\ CareInv
  BY DEF Init, ProofSaverInit, ChainInv, CareInv
<1>5. QED
  BY <1>1, <1>3, <1>4 DEF IInv

\* A step of the prover leaves the saver and its chain of conversions alone.
LEMMA ProverKeepsSaver ==
  ASSUME IInv, ProverInv', handled \subseteq handled', UNCHANGED allSaverVars
  PROVE  IInv'
<1>1. UNCHANGED <<converted, topic, replay, saver, client, fetching, saving, received,
                  saved, entities, bridge_head>>
  BY DEF allSaverVars, proofSaverVars, bridgeVars, saverVars, golemVars
<1>2. TypeOK'
  BY <1>1 DEF IInv, TypeOK, ProverInv
<1>3. ChainInv'
  BY <1>1 DEF IInv, ChainInv, Proved
<1>4. CareInv'
  BY <1>1 DEF IInv, CareInv
<1>5. QED
  BY <1>2, <1>3, <1>4 DEF IInv

LEMMA ConvertStep ==
  ASSUME IInv, NEW c \in Conversion, Convert(c)
  PROVE  IInv'
<1>1. /\ c.input_block_number = bridge_head
      /\ bridge_head' = c.output_block_number
      /\ topic = "open"
      /\ converted' = converted \cup {c}
      /\ replay' = c
      /\ UNCHANGED <<topic, saver, client, saving, saved, entities>>
      /\ UNCHANGED eventLoopVars
  BY DEF Convert, Announce, golemVars
<1>2. \/ /\ saver = "running"
         /\ fetching' = fetching \cup {c} /\ received' = received \cup {c}
      \/ UNCHANGED <<fetching, received>>
  BY DEF Convert, Announce, Receive
<1>3. /\ c.output_block_number \in Block /\ c.input_block_number < c.output_block_number
      /\ bridge_head \in Int /\ c.output_block_number \in Int
      /\ \A d \in converted : /\ d.output_block_number <= bridge_head
                              /\ d.input_block_number < d.output_block_number
                              /\ d.input_block_number \in Int
                              /\ d.output_block_number \in Int
  BY ConversionType DEF IInv, TypeOK, ChainInv, Block
<1>4. UNCHANGED handled /\ ProverInv'
  BY <1>1, ProverStep DEF IInv, eventLoopVars, loopVars
<1>5. Proved(c)'
  <2>1. PICK h \in handled : /\ h.proof_outputs.input_slot = c.input_block_number
                            /\ h.proof_outputs.output_slot = c.output_block_number
    BY DEF Convert
  <2>2. h.proof_outputs = ProofOutputs(h.window)
    BY DEF IInv, ProverInv, DecodedAsExpected
  <2>3. h.window.input_slot = c.input_block_number
        /\ h.window.expected_output_slot = c.output_block_number
    BY <2>1, <2>2 DEF ProofOutputs
  <2>4. QED
    BY <1>4, <2>3 DEF Proved
<1>6. TypeOK'
  <2>1. EventLoopTypeOK'
    BY <1>4 DEF ProverInv
  <2>2. QED
    BY <1>1, <1>2, <1>3, <2>1 DEF IInv, TypeOK
<1>7. ChainInv'
  <2>1. \A d \in converted' : d.output_block_number <= bridge_head' /\ Proved(d)'
    <3>1. \A d \in converted : Proved(d)'
      BY <1>4 DEF IInv, ChainInv, Proved
    <3>2. \A d \in converted : d.output_block_number <= c.output_block_number
      BY <1>1, <1>3
    <3>3. QED
      BY <1>1, <1>3, <1>5, <3>1, <3>2
  <2>2. \A d, e \in converted' : d.input_block_number = e.input_block_number => d = e
    <3>1. \A d \in converted : d.input_block_number # c.input_block_number
      BY <1>1, <1>3
    <3>2. QED
      BY <1>1, <3>1 DEF IInv, ChainInv
  <2>3. /\ replay' \in converted' \cup {Nothing} /\ received' \subseteq converted'
        /\ fetching' \subseteq received'
        /\ \A e \in saving' \cup entities' : e.bundle = e.notice /\ e.notice \in received'
    BY <1>1, <1>2 DEF IInv, ChainInv
  <2>4. QED
    BY <2>1, <2>2, <2>3 DEF ChainInv
<1>8. CareInv'
  BY <1>1, <1>2 DEF IInv, CareInv
<1>9. QED
  BY <1>4, <1>6, <1>7, <1>8 DEF IInv

\* The saver's steps leave the loop alone; what is converted is theirs to read.
LEMMA SaverFrame ==
  ASSUME IInv, UNCHANGED <<eventLoopVars, bridge_head>>, converted' = converted,
         replay' \in {replay, Nothing}
  PROVE  /\ ProverInv' /\ EventLoopTypeOK' /\ handled' = handled
         /\ \A c \in converted' : c.output_block_number <= bridge_head' /\ Proved(c)'
         /\ \A c, d \in converted' : c.input_block_number = d.input_block_number => c = d
         /\ replay' \in converted' \cup {Nothing}
<1>1. ProverInv' /\ handled' = handled
  BY ProverStep DEF IInv, eventLoopVars, loopVars
<1>2. EventLoopTypeOK'
  BY <1>1 DEF ProverInv
<1>3. QED
  BY <1>1, <1>2 DEF IInv, ChainInv, Proved

LEMMA FetchStep ==
  ASSUME IInv, NEW c \in fetching, FetchOk(c) \/ FetchErr(c),
         UNCHANGED <<eventLoopVars, bridge_head>>
  PROVE  IInv'
<1>1. /\ UNCHANGED <<converted, topic, replay, client, received, saved, entities>>
      /\ saver = "running"
  BY DEF FetchOk, FetchErr, bridgeVars, golemVars
<1>2. c \in received /\ c \in converted /\ c \in Conversion
  BY DEF IInv, ChainInv, TypeOK
<1> DEFINE e == [notice |-> c, bundle |-> c]
<1>3. \/ saver' = "exit1" /\ fetching' = {} /\ saving' = saving
      \/ saver' = saver /\ fetching' = fetching \ {c} /\ saving' = saving \cup {e}
  <2>1. CASE FetchErr(c)
    BY <2>1 DEF FetchErr, Exit
  <2>2. CASE FetchOk(c) /\ ~client
    BY <2>2 DEF FetchOk, Exit
  <2>3. CASE FetchOk(c) /\ client
    <3>1. PICK bundle \in Bundles(c) :
            /\ saving' = saving \cup {[notice |-> c, bundle |-> bundle]}
            /\ fetching' = fetching \ {c} /\ saver' = saver
      BY <2>3 DEF FetchOk
    <3>2. bundle = c
      BY <1>2, <3>1 DEF Bundles, IInv, ChainInv
    <3>3. QED
      BY <3>1, <3>2
  <2>4. QED
    BY <2>1, <2>2, <2>3
<1>4. e \in Entity /\ e.notice = c /\ e.bundle = c
  BY <1>2 DEF Entity
<1> HIDE DEF e
<1>5. TypeOK'
  BY <1>1, <1>3, <1>4, SaverFrame DEF IInv, TypeOK, SaverStates
<1>6. ChainInv'
  <2>1. /\ received' \subseteq converted' /\ fetching' \subseteq received'
        /\ \A s \in saving' \cup entities' : s.bundle = s.notice /\ s.notice \in received'
    BY <1>1, <1>2, <1>3, <1>4 DEF IInv, ChainInv
  <2>2. QED
    BY <1>1, <2>1, SaverFrame DEF ChainInv
<1>7. CareInv'
  BY <1>1, <1>3, <1>4 DEF IInv, CareInv
<1>8. QED
  BY <1>1, <1>5, <1>6, <1>7, SaverFrame DEF IInv

LEMMA SaveStep ==
  ASSUME IInv, NEW e \in saving, SaveOk(e) \/ SaveErr(e),
         UNCHANGED <<eventLoopVars, bridge_head>>
  PROVE  IInv'
<1>1. /\ UNCHANGED <<converted, topic, replay, client, received>>
      /\ saving' = saving \ {e}
  BY DEF SaveOk, SaveErr, bridgeVars, golemVars
<1>2. e.notice \in received /\ e \in Entity
  BY DEF IInv, ChainInv, TypeOK
<1>3. \/ /\ entities' = entities \cup {e} /\ saved' = saved \cup {e.notice}
         /\ UNCHANGED <<saver, fetching>>
      \/ /\ UNCHANGED <<entities, saved>>
         /\ \/ saver = "running" /\ saver' = "exit1" /\ fetching' = {}
            \/ saver # "running" /\ UNCHANGED <<saver, fetching>>
  BY DEF SaveOk, SaveErr, Exit, golemVars
<1>4. TypeOK'
  BY <1>1, <1>2, <1>3, SaverFrame DEF IInv, TypeOK, SaverStates
<1>5. ChainInv'
  <2>1. /\ received' \subseteq converted' /\ fetching' \subseteq received'
        /\ \A s \in saving' \cup entities' : s.bundle = s.notice /\ s.notice \in received'
    BY <1>1, <1>2, <1>3 DEF IInv, ChainInv
  <2>2. QED
    BY <1>1, <2>1, SaverFrame DEF ChainInv
<1>6. CareInv'
  BY <1>1, <1>2, <1>3 DEF IInv, CareInv
<1>7. QED
  BY <1>1, <1>4, <1>5, <1>6, SaverFrame DEF IInv

LEMMA SaverStep ==
  ASSUME IInv, Saver
  PROVE  IInv'
<1>1. CASE Subscribe
  <2>1. /\ UNCHANGED <<converted, topic, replay, saving, saved, entities>>
        /\ saver = "starting" /\ saver' = "running" /\ client' \in BOOLEAN
        /\ UNCHANGED <<eventLoopVars, bridge_head>>
    BY <1>1 DEF Subscribe, Saver, bridgeVars, golemVars
  <2>2. \/ UNCHANGED <<fetching, received>>
        \/ /\ replay \in converted
           /\ fetching' = fetching \cup {replay} /\ received' = received \cup {replay}
    BY <1>1 DEF Subscribe, Receive, IInv, ChainInv
  <2>3. TypeOK'
    BY <2>1, <2>2, SaverFrame DEF IInv, TypeOK, SaverStates
  <2>4. ChainInv'
    <3>1. /\ received' \subseteq converted' /\ fetching' \subseteq received'
          /\ \A s \in saving' \cup entities' : s.bundle = s.notice /\ s.notice \in received'
      BY <2>1, <2>2 DEF IInv, ChainInv
    <3>2. QED
      BY <2>1, <3>1, SaverFrame DEF ChainInv
  <2>5. CareInv'
    BY <2>1, <2>2 DEF IInv, CareInv
  <2>6. QED
    BY <2>1, <2>3, <2>4, <2>5, SaverFrame DEF IInv
<1>2. CASE OtherNotice \/ TopicCompletes \/ TopicFails \/ \E e \in entities : Expire(e)
  <2>1. /\ UNCHANGED <<converted, client, saving, received, saved>>
        /\ UNCHANGED <<eventLoopVars, bridge_head>>
        /\ replay' \in {replay, Nothing}
        /\ topic' \in {"open", "completed", "errored"} /\ entities' \subseteq entities
        /\ \/ UNCHANGED <<saver, fetching>>
           \/ saver' = "exit1" /\ fetching' = {}
    BY <1>2 DEF OtherNotice, TopicCompletes, TopicFails, Exit, Expire, Saver, bridgeVars,
                saverVars, golemVars, IInv, TypeOK
  <2>2. TypeOK'
    BY <2>1, SaverFrame DEF IInv, TypeOK, SaverStates
  <2>3. ChainInv'
    <3>1. /\ received' \subseteq converted' /\ fetching' \subseteq received'
          /\ \A s \in saving' \cup entities' : s.bundle = s.notice /\ s.notice \in received'
      BY <2>1 DEF IInv, ChainInv
    <3>2. QED
      BY <2>1, <3>1, SaverFrame DEF ChainInv
  <2>4. CareInv'
    BY <2>1 DEF IInv, CareInv
  <2>5. QED
    BY <2>1, <2>2, <2>3, <2>4, SaverFrame DEF IInv
<1>3. CASE Complete
  <2>1. /\ UNCHANGED <<converted, topic, replay, client, saving, received, saved, entities>>
        /\ UNCHANGED <<eventLoopVars, bridge_head>>
        /\ saver = "running" /\ saver' = "exit0"
        /\ fetching = {} /\ saving = {} /\ fetching' = {}
    BY <1>3 DEF Complete, Exit, Saver, bridgeVars, golemVars
  <2>2. TypeOK'
    BY <2>1, SaverFrame DEF IInv, TypeOK, SaverStates
  <2>3. ChainInv'
    <3>1. /\ received' \subseteq converted' /\ fetching' \subseteq received'
          /\ \A s \in saving' \cup entities' : s.bundle = s.notice /\ s.notice \in received'
      BY <2>1 DEF IInv, ChainInv
    <3>2. QED
      BY <2>1, <3>1, SaverFrame DEF ChainInv
  <2>4. CareInv'
    BY <2>1 DEF IInv, CareInv
  <2>5. QED
    BY <2>1, <2>2, <2>3, <2>4, SaverFrame DEF IInv
<1>4. CASE InnerStep
  <2>1. UNCHANGED <<eventLoopVars, bridge_head>>
    BY DEF Saver
  <2>2. QED
    BY <1>4, <2>1, FetchStep, SaveStep DEF InnerStep
<1>5. QED
  BY <1>1, <1>2, <1>3, <1>4 DEF Saver

LEMMA NextInv ==
  ASSUME IInv, [Next]_vars
  PROVE  IInv'
<1>1. CASE Prover
  <2>1. ProverInv' /\ handled \subseteq handled'
    BY <1>1, ProverStep DEF Prover, IInv
  <2>2. QED
    BY <1>1, <2>1, ProverKeepsSaver DEF Prover, allSaverVars
<1>2. ASSUME NEW c \in Conversion, Convert(c)
      PROVE  IInv'
  BY <1>2, ConvertStep
<1>3. CASE Saver
  BY <1>3, SaverStep
<1>4. CASE UNCHANGED vars
  <2>1. ProverInv' /\ handled \subseteq handled'
    BY <1>4, ProverStep DEF vars, IInv
  <2>2. QED
    BY <1>4, <2>1, ProverKeepsSaver DEF vars, allSaverVars
<1>5. QED
  BY <1>1, <1>2, <1>3, <1>4 DEF Next

LEMMA Invariance == Spec => []IInv
<1>1. Init => IInv
  BY InitInv
<1>2. IInv /\ [Next]_vars => IInv'
  BY NextInv
<1>3. QED
  BY <1>1, <1>2, PTL DEF Spec

-----------------------------------------------------------------------------
(* Theorems.                                                                *)

\* The loop's table, channels and tasks and the saver's sets are well typed, for
\* any number of slots, blocks and jobs.
THEOREM TypeCorrect == Spec => []TypeOK
<1>1. IInv => TypeOK
  BY DEF IInv
<1>2. QED
  BY <1>1, Invariance, PTL

\* The unwraps of handle_prover_success and handle_prover_failure never fail: every
\* result finds its job, and no other result has the same.
THEOREM ResultsFindJobs == Spec => []ResultsHaveJobs
<1>1. IInv => ResultsHaveJobs
  <2>1. ASSUME IInv, NEW k \in 1..Len(job_rx)
        PROVE  /\ prover_jobs[job_rx[k].job_id] # None
               /\ \A m \in 1..Len(job_rx) : job_rx[k].job_id = job_rx[m].job_id => k = m
    <3> DEFINE j == job_rx[k].job_id
    <3>1. /\ j \in 1..Len(tasks) /\ prover_jobs[j] = tasks[j].inputs
          /\ \A m \in 1..Len(job_rx) : job_rx[m].job_id = j => m = k
      BY <2>1 DEF IInv, ProverInv, JobInv
    <3>2. tasks \in Seq(TaskRecord)
      BY <2>1 DEF IInv, ProverInv, EventLoopTypeOK
    <3>3. tasks[j] \in TaskRecord
      BY <3>1, <3>2
    <3>4. tasks[j].inputs \in Window
      BY <3>3 DEF TaskRecord
    <3>5. QED
      BY <3>1, <3>4, WindowType
  <2>2. QED
    BY <2>1 DEF ResultsHaveJobs
<1>2. QED
  BY <1>1, Invariance, PTL

\* What the loop decodes from a proof's public values is what the program committed
\* for the window kept in the table: to_bytes and from_bytes agree on every field.
THEOREM Decoding == Spec => []DecodedAsExpected
<1>1. IInv => DecodedAsExpected
  BY DEF IInv, ProverInv
<1>2. QED
  BY <1>1, Invariance, PTL

\* Every entity the query may return holds the proof of a window that contains the
\* block asked for, whatever was saved or has expired.
THEOREM Answers == Spec => []AnswersAreProved
<1>1. IInv => AnswersAreProved
  <2>1. ASSUME IInv, NEW b \in Block, NEW e \in getEthConsensusProofBundleEntity(b)
        PROVE  /\ e.bundle.input_block_number <= b /\ b <= e.bundle.output_block_number
               /\ Proved(e.bundle)
    <3>1. /\ e \in entities
          /\ e.notice.input_block_number <= b /\ b <= e.notice.output_block_number
      BY <2>1 DEF getEthConsensusProofBundleEntity
    <3>2. e.bundle = e.notice /\ e.notice \in converted
      BY <2>1, <3>1 DEF IInv, ChainInv
    <3>3. QED
      BY <2>1, <3>1, <3>2 DEF IInv, ChainInv
  <2>2. QED
    BY <2>1 DEF AnswersAreProved, Proved
<1>2. QED
  BY <1>1, Invariance, PTL

\* When proofSaver.ts exits with 0, every proof it was told of has been saved.
THEOREM Completion == Spec => []ExitZeroMeansSaved
<1>1. IInv => ExitZeroMeansSaved
  BY DEF IInv, CareInv, ExitZeroMeansSaved
<1>2. QED
  BY <1>1, Invariance, PTL
-----------------------------------------------------------------------------
(* What the table and the channel keep between them.                        *)

\* No unwrap has ended the loop, the table holds no job that was not started, and a
\* job of it whose task is done has its result on the way to the loop.
JobsAreHeld ==
  /\ exited = FALSE
  /\ \A j \in JobId : prover_jobs[j] # None =>
       /\ j \in 1..Len(tasks)
       /\ tasks[j].pc = "done" => \E k \in 1..Len(job_rx) : job_rx[k].job_id = j

LEMMA HeldByStage ==
  ASSUME ProverInv, JobsAreHeld, NEW w \in Window, stage_transition_proof(w)
  PROVE  JobsAreHeld'
<1> DEFINE t == [pc |-> "key", job_id |-> job_id', inputs |-> w]
<1>1. /\ job_id \in Nat /\ job_id' = job_id + 1 /\ Len(tasks) = job_id
      /\ tasks \in Seq(TaskRecord) /\ prover_jobs \in [JobId -> Window \cup {None}]
  BY DEF ProverInv, EventLoopTypeOK, JobInv, JobId, stage_transition_proof, NextJobId
<1>2. t.pc = "key" /\ tasks' = Append(tasks, t)
  BY DEF stage_transition_proof
<1> HIDE DEF t
<1>3. /\ Len(tasks') = job_id + 1 /\ tasks'[job_id + 1].pc = "key"
      /\ \A j \in 1..job_id : tasks'[j] = tasks[j]
  BY <1>1, <1>2
<1>4. /\ prover_jobs' = [prover_jobs EXCEPT ![job_id + 1] = w]
      /\ UNCHANGED <<job_rx, exited>>
  BY <1>1 DEF stage_transition_proof
<1>5. ASSUME NEW j \in JobId, prover_jobs'[j] # None
      PROVE  /\ j \in 1..Len(tasks')
             /\ tasks'[j].pc = "done" => \E k \in 1..Len(job_rx) : job_rx[k].job_id = j
  <2>1. CASE j = job_id + 1
    BY <1>1, <1>3, <2>1
  <2>2. CASE j # job_id + 1
    <3>1. prover_jobs[j] # None
      BY <1>1, <1>4, <1>5, <2>2
    <3>2. /\ j \in 1..Len(tasks)
          /\ tasks[j].pc = "done" => \E k \in 1..Len(job_rx) : job_rx[k].job_id = j
      BY <3>1 DEF JobsAreHeld
    <3>3. j \in 1..Len(tasks') /\ tasks'[j] = tasks[j]
      BY <1>1, <1>3, <3>2
    <3>4. QED
      BY <3>2, <3>3
  <2>3. QED
    BY <2>1, <2>2
<1>6. QED
  BY <1>4, <1>5 DEF JobsAreHeld

\* A job whose result is taken leaves the table, and every other result moves up.
LEMMA HeldByHandling ==
  ASSUME ProverInv, JobsAreHeld, HandleResult
  PROVE  JobsAreHeld'
<1>1. exited' = FALSE
  BY HandleStep
<1>2. /\ job_rx \in Seq(Result) /\ job_rx # <<>> /\ job_rx' = Tail(job_rx)
      /\ tasks' = tasks /\ prover_jobs \in [JobId -> Window \cup {None}]
      /\ prover_jobs' = [prover_jobs EXCEPT ![Head(job_rx).job_id] = None]
  BY DEF ProverInv, EventLoopTypeOK, HandleResult, taskVars
<1>3. /\ Head(job_rx) = job_rx[1] /\ Len(job_rx) \in Nat
      /\ Len(job_rx') = Len(job_rx) - 1
      /\ \A k \in 1..Len(job_rx) : k # 1 =>
           k - 1 \in 1..Len(job_rx') /\ job_rx'[k - 1] = job_rx[k]
  BY <1>2
<1>4. ASSUME NEW j \in JobId, prover_jobs'[j] # None
      PROVE  /\ j \in 1..Len(tasks)
             /\ tasks[j].pc = "done" =>
                  \E k \in 1..Len(job_rx') : job_rx'[k].job_id = j
  <2>1. j # job_rx[1].job_id /\ prover_jobs[j] # None
    BY <1>2, <1>3, <1>4
  <2>2. /\ j \in 1..Len(tasks)
        /\ tasks[j].pc = "done" => \E k \in 1..Len(job_rx) : job_rx[k].job_id = j
    BY <2>1 DEF JobsAreHeld
  <2>3. ASSUME tasks[j].pc = "done"
        PROVE  \E k \in 1..Len(job_rx') : job_rx'[k].job_id = j
    <3>1. PICK k \in 1..Len(job_rx) : job_rx[k].job_id = j
      BY <2>2, <2>3
    <3>2. k # 1
      BY <2>1, <3>1
    <3>3. k - 1 \in 1..Len(job_rx') /\ job_rx'[k - 1].job_id = j
      BY <1>3, <3>1, <3>2
    <3>4. QED
      BY <3>3
  <2>4. QED
    BY <2>2, <2>3
<1>5. QED
  BY <1>1, <1>2, <1>4 DEF JobsAreHeld

LEMMA HeldByTask ==
  ASSUME ProverInv, JobsAreHeld, NEW i \in DOMAIN tasks, TaskStep(i)
  PROVE  JobsAreHeld'
<1>1. /\ tasks \in Seq(TaskRecord) /\ i \in 1..Len(tasks)
      /\ job_rx \in Seq(Result) /\ Len(job_rx) \in Nat
      /\ tasks[i].job_id = i
  BY DEF ProverInv, EventLoopTypeOK, JobInv
<1>2. PICK pc \in {"setup", "proving", "dead", "done"} :
        /\ tasks' = [tasks EXCEPT ![i] = Task(i, pc)]
        /\ pc = "done" => \E proof : SendResult(i, proof)
        /\ pc # "done" => job_rx' = job_rx
        /\ UNCHANGED <<prover_jobs, exited>>
  BY DEF TaskStep, EncodeFails, SetupKey, KeyIsSet, SetupPanics, UseKey, Prove, loopVars
<1>3. /\ Len(tasks') = Len(tasks) /\ tasks'[i].pc = pc
      /\ \A j \in 1..Len(tasks) : j # i => tasks'[j] = tasks[j]
  BY <1>1, <1>2 DEF Task
<1>4. /\ Len(job_rx') \in Nat
      /\ \A k \in 1..Len(job_rx) : k \in 1..Len(job_rx') /\ job_rx'[k] = job_rx[k]
      /\ pc = "done" => \E k \in 1..Len(job_rx') : job_rx'[k].job_id = i
  <2>1. CASE pc # "done"
    BY <1>1, <1>2, <2>1
  <2>2. CASE pc = "done"
    <3>1. PICK proof : job_rx' = Append(job_rx, [job_id |-> i, proof |-> proof])
      BY <1>1, <1>2, <2>2 DEF SendResult
    <3> DEFINE r == [job_id |-> i, proof |-> proof]
    <3>2. r.job_id = i /\ job_rx' = Append(job_rx, r)
      BY <3>1
    <3> HIDE DEF r
    <3>3. /\ Len(job_rx') = Len(job_rx) + 1 /\ job_rx'[Len(job_rx) + 1] = r
          /\ \A k \in 1..Len(job_rx) : job_rx'[k] = job_rx[k]
      BY <1>1, <3>2
    <3>4. QED
      BY <1>1, <3>2, <3>3
  <2>3. QED
    BY <2>1, <2>2
<1>5. ASSUME NEW j \in JobId, prover_jobs'[j] # None
      PROVE  /\ j \in 1..Len(tasks')
             /\ tasks'[j].pc = "done" =>
                  \E k \in 1..Len(job_rx') : job_rx'[k].job_id = j
  <2>1. /\ j \in 1..Len(tasks)
        /\ tasks[j].pc = "done" => \E k \in 1..Len(job_rx) : job_rx[k].job_id = j
    BY <1>2, <1>5 DEF JobsAreHeld
  <2>2. CASE j = i
    BY <1>3, <1>4, <2>1, <2>2
  <2>3. CASE j # i
    BY <1>3, <1>4, <2>1, <2>3
  <2>4. QED
    BY <2>2, <2>3
<1>6. QED
  BY <1>2, <1>5 DEF JobsAreHeld

LEMMA HeldByStep ==
  ASSUME ProverInv, JobsAreHeld, EventLoopNext \/ UNCHANGED eventLoopVars
  PROVE  JobsAreHeld'
<1>1. CASE SendStage \/ ReceiveOutput \/ DetectorNext \/ UNCHANGED eventLoopVars
  <2>1. UNCHANGED <<prover_jobs, job_rx, exited, tasks>>
    BY <1>1 DEF SendStage, ReceiveOutput, DetectorNext, TakeStage, DetectorEmits,
                DetectorSends, eventLoopVars, loopVars, taskVars
  <2>2. QED
    BY <2>1 DEF JobsAreHeld
<1>2. QED
  BY <1>1, HeldByStage, HeldByHandling, HeldByTask DEF EventLoopNext

LEMMA SaverKeepsLoop ==
  ASSUME Saver
  PROVE  UNCHANGED eventLoopVars
BY DEF Saver

\* The loop never ends by an unwrap, the table holds only jobs that were started, and
\* one whose task has ended with a result holds until the loop has taken that result:
\* stage_transition_proof, finality_update_job and the handlers lose no job, whatever
\* the order they run in. Only a task whose key set-up panicked leaves its job behind.
THEOREM NoJobIsLost == Spec => []JobsAreHeld
<1>1. Init => JobsAreHeld
  BY DEF Init, EventLoopInit, JobsAreHeld
<1>2. IInv /\ JobsAreHeld /\ [Next]_vars => JobsAreHeld'
  <2>1. SUFFICES ASSUME IInv, JobsAreHeld, [Next]_vars
                 PROVE  JobsAreHeld'
    OBVIOUS
  <2>2. EventLoopNext \/ UNCHANGED eventLoopVars
    BY <2>1, SaverKeepsLoop DEF Next, Prover, Convert, vars
  <2>3. QED
    BY <2>1, <2>2, HeldByStep DEF IInv
<1>3. QED
  BY <1>1, <1>2, Invariance, PTL DEF Spec
=============================================================================
