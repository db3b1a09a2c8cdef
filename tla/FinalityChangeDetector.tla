----------------------- MODULE FinalityChangeDetector -----------------------
(***************************************************************************)
(* golem-symbiotic-consensus-mpt/src/api/finality_change_detector.rs:      *)
(* the task that watches beacon finality and emits validated proof inputs, *)
(* the validation actor it hands jobs to, the one-place channels between    *)
(* them, and the client (the bridge pipeline) at the other end.             *)
(*                                                                         *)
(* Slots are checkpoint slots. A proof input is abstracted to its window:   *)
(* the update it starts from and the update it is expected to end in.       *)
(***************************************************************************)
EXTENDS Integers

CONSTANTS
  Slot,         \* beacon checkpoint slots
  Hash,         \* light client store hashes
  None,         \* Option::None, an empty channel, an idle actor
  Err,          \* a failed validation
  Dead          \* the actor's task has panicked

Update == [slot : Slot, store_hash : Hash]

\* prepare_consensus_mpt_proof_inputs rejects windows that do not move forward.
Window == {w \in [input : Update, output : Update] : w.output.slot > w.input.slot}

Dual == [current : Window, next : Window \cup {None}]

Job == [input : Update, next : Update \cup {None}]

ASSUME DetectorAssumption ==
  /\ Slot \subseteq Nat
  /\ None \notin Update \cup Window \cup Dual \cup Job \cup {Err, Dead}
  /\ Err \notin Dual
  /\ Dead \notin Job

VARIABLES
  \* the detector's task
  head,                  \* slot and store_hash, always assigned together
  latest_slot,           \* finality slot accepted last
  in_flight,             \* a validation request is outstanding
  stale,                 \* an update arrived while it was
  next_expected_output,  \* output of the staged proof, or None
  pending,               \* inputs whose send on the output channel is awaited
  exited,                \* the loop broke and the process exited
  \* the validation actor
  job,                   \* job channel
  actor,                 \* job being validated, None, or Dead
  result,                \* result channel
  \* channels to and from the client
  stage, advance, output,
  \* the client, and the chain
  bridge,                \* the bridge head as the client knows it
  staged,                \* expected output of the proof being made, or None
  offer,                 \* proof inputs received last
  finalized              \* the beacon chain's finalized slot

detectorVars == <<head, latest_slot, in_flight, stale, next_expected_output,
                  pending, exited>>
actorVars    == <<job, actor, result>>
channelVars  == <<stage, advance, output>>
clientVars   == <<bridge, staged, offer, finalized>>
vars == <<detectorVars, actorVars, channelVars, clientVars>>

-----------------------------------------------------------------------------
(* The detector.  Its select! is polled only while no send is awaited.      *)

Polling == pending = None /\ ~exited

\* EventLoop::new starts the detector at the cold start checkpoint; a restart
\* may inject the output of a proof that is already being made.
Init ==
  /\ head \in Update
  /\ latest_slot = head.slot
  /\ in_flight = FALSE
  /\ stale = FALSE
  /\ next_expected_output \in {u \in Update : u.slot > head.slot} \cup {None}
  /\ pending = None
  /\ exited = FALSE
  /\ job = None /\ actor = None /\ result = None
  /\ stage = None /\ advance = None /\ output = None
  /\ bridge = head
  /\ staged = next_expected_output
  /\ offer = None
  /\ finalized \in {s \in Slot :
       s >= IF staged = None THEN head.slot ELSE staged.slot}

\* Mutant: the filter that its own comment calls perhaps unnecessary is gone.
FilteredNextUnfiltered == next_expected_output

FilteredNext ==
  IF next_expected_output # None /\ next_expected_output.slot # head.slot
  THEN next_expected_output ELSE None

\* The job channel is closed once the actor is dead: the loop breaks and the
\* process exits. Otherwise the send waits for room in the channel.
try_start_validation_job ==
  IF actor = Dead
  THEN /\ exited' = TRUE
       /\ in_flight' = FALSE
       /\ UNCHANGED job
  ELSE /\ job = None
       /\ job' = [input |-> head, next |-> FilteredNext]
       /\ in_flight' = TRUE
       /\ UNCHANGED exited

\* Mutant: a stage does not mark the outstanding job stale.
StageUpdateKeepsFresh ==
  /\ Polling
  /\ stage # None
  /\ stage' = None
  /\ next_expected_output' = stage
  /\ UNCHANGED <<head, latest_slot, in_flight, stale, pending, exited, actorVars,
                 advance, output, clientVars>>

StageUpdate ==
  /\ Polling
  /\ stage # None
  /\ stage' = None
  /\ next_expected_output' = stage
  /\ stale' = (stale \/ in_flight)
  /\ UNCHANGED <<head, latest_slot, in_flight, pending, exited, actorVars,
                 advance, output, clientVars>>

AdvanceTo(latest, next) ==
  /\ Polling
  /\ advance # None
  /\ advance' = None
  /\ head' = advance
  /\ latest_slot' = latest
  /\ stale' = (stale \/ in_flight)
  /\ next_expected_output' = next
  /\ UNCHANGED <<in_flight, pending, exited, actorVars, stage, output, clientVars>>

Scrubbed ==
  IF next_expected_output # None /\ next_expected_output.slot = advance.slot
  THEN None ELSE next_expected_output

\* Mutant: the commented-out guard of the code, latest_slot is only ever raised.
AdvanceUpdateKeepsLatest ==
  AdvanceTo(IF latest_slot < advance.slot THEN advance.slot ELSE latest_slot, Scrubbed)

\* Mutant: every advance forgets the staged proof.
AdvanceUpdateForgetsNext == AdvanceTo(advance.slot, None)

AdvanceUpdate == AdvanceTo(advance.slot, Scrubbed)

\* Mutant: an error leaves the request outstanding.
ResultErrKeepsInFlight ==
  /\ Polling
  /\ result = Err
  /\ result' = None
  /\ UNCHANGED <<detectorVars, job, actor, channelVars, clientVars>>

\* An error is ignored; the stale flag keeps its value.
ResultErr ==
  /\ Polling
  /\ result = Err
  /\ result' = None
  /\ in_flight' = FALSE
  /\ UNCHANGED <<head, latest_slot, stale, next_expected_output, pending, exited,
                 job, actor, channelVars, clientVars>>

\* A stale result is dropped and a new job is started at once.
ResultStale ==
  /\ Polling
  /\ result \notin {None, Err}
  /\ stale
  /\ result' = None
  /\ stale' = FALSE
  /\ try_start_validation_job
  /\ UNCHANGED <<head, latest_slot, next_expected_output, pending, actor,
                 channelVars, clientVars>>

\* The window starts at the current slot and its output is ahead of latest_slot.
Progress(w) == w.input.slot = head.slot /\ w.output.slot > latest_slot

NextAhead(d) == d.next # None => d.next.output.slot > latest_slot

\* A fresh result that shows progress is sent on; the send may have to wait.
ResultSend ==
  /\ Polling
  /\ result \notin {None, Err}
  /\ ~stale
  /\ Progress(result.current)
  /\ NextAhead(result)
  /\ result' = None
  /\ in_flight' = FALSE
  /\ pending' = result
  /\ UNCHANGED <<head, latest_slot, stale, next_expected_output, exited,
                 job, actor, channelVars, clientVars>>

\* The next window lags: nothing is sent, yet latest_slot moves.
ResultSkip ==
  /\ Polling
  /\ result \notin {None, Err}
  /\ ~stale
  /\ Progress(result.current)
  /\ ~NextAhead(result)
  /\ result' = None
  /\ in_flight' = FALSE
  /\ latest_slot' = result.current.output.slot
  /\ UNCHANGED <<head, stale, next_expected_output, pending, exited,
                 job, actor, channelVars, clientVars>>

ResultIgnore ==
  /\ Polling
  /\ result \notin {None, Err}
  /\ ~stale
  /\ ~Progress(result.current)
  /\ result' = None
  /\ in_flight' = FALSE
  /\ UNCHANGED <<head, latest_slot, stale, next_expected_output, pending, exited,
                 job, actor, channelVars, clientVars>>

\* Mutant: off by one in the accepted slot.
OutputSendOffByOne ==
  /\ pending # None
  /\ output = None
  /\ output' = pending
  /\ latest_slot' = pending.current.output.slot + 1
  /\ pending' = None
  /\ UNCHANGED <<head, in_flight, stale, next_expected_output, exited, actorVars,
                 stage, advance, clientVars>>

\* The awaited send completes when the output channel has room.
OutputSend ==
  /\ pending # None
  /\ output = None
  /\ output' = pending
  /\ latest_slot' = pending.current.output.slot
  /\ pending' = None
  /\ UNCHANGED <<head, in_flight, stale, next_expected_output, exited, actorVars,
                 stage, advance, clientVars>>

\* Mutant: a tick starts a job although one is outstanding.
TickAlways ==
  /\ Polling
  /\ try_start_validation_job
  /\ UNCHANGED <<head, latest_slot, stale, next_expected_output, pending, actor,
                 result, channelVars, clientVars>>

Tick ==
  /\ Polling
  /\ ~in_flight
  /\ try_start_validation_job
  /\ UNCHANGED <<head, latest_slot, stale, next_expected_output, pending, actor,
                 result, channelVars, clientVars>>

-----------------------------------------------------------------------------
(* The validation actor.                                                    *)

ActorReceive ==
  /\ actor = None
  /\ job # None
  /\ actor' = job
  /\ job' = None
  /\ UNCHANGED <<detectorVars, result, channelVars, clientVars>>

\* Providers may report any finality slot up to the chain's, lower ones than
\* before included; a validated window always moves forward.
Reachable(u) == {w \in Window : w.input = u /\ w.output.slot <= finalized}

\* A job succeeds when each of its windows does, and is an error otherwise.
ActorValidate(d) ==
  /\ actor \notin {None, Dead}
  /\ result = None
  /\ \/ d = Err
     \/ /\ d # Err
        /\ d.current \in Reachable(actor.input)
        /\ IF actor.next = None THEN d.next = None
                                ELSE d.next \in Reachable(actor.next)
  /\ result' = d
  /\ actor' = None
  /\ UNCHANGED <<detectorVars, job, channelVars, clientVars>>

\* A panic while a job is validated (an unwrap of try_from_env, of a provider's
\* answer) ends the actor's task and drops its ends of the two channels.
ActorPanic ==
  /\ actor \notin {None, Dead}
  /\ actor' = Dead
  /\ UNCHANGED <<detectorVars, job, result, channelVars, clientVars>>

-----------------------------------------------------------------------------
(* The client: it receives proof inputs, stages a proof of a window that     *)
(* starts at its bridge head, and advances the head when the proof succeeds. *)

ReceiveOutput ==
  /\ output # None
  /\ offer' = output
  /\ output' = None
  /\ UNCHANGED <<detectorVars, actorVars, stage, advance, bridge, staged, finalized>>

Offered == IF offer = None THEN {} ELSE {offer.current, offer.next} \ {None}

stage_transition_proof(w) ==
  /\ staged = None
  /\ stage = None
  /\ w \in Offered
  /\ w.input = bridge
  /\ staged' = w.output
  /\ stage' = w.output
  /\ UNCHANGED <<detectorVars, actorVars, advance, output, bridge, offer, finalized>>

ProofFails ==
  /\ staged # None
  /\ staged' = None
  /\ UNCHANGED <<detectorVars, actorVars, channelVars, bridge, offer, finalized>>

ProofSucceeds ==
  /\ staged # None
  /\ advance = None
  /\ bridge' = staged
  /\ advance' = staged
  /\ staged' = None
  /\ UNCHANGED <<detectorVars, actorVars, stage, output, offer, finalized>>

\* The beacon chain finalizes another checkpoint.
Finalize(s) ==
  /\ s > finalized
  /\ finalized' = s
  /\ UNCHANGED <<detectorVars, actorVars, channelVars, bridge, staged, offer>>

-----------------------------------------------------------------------------
DetectorNext ==
  \/ StageUpdate \/ AdvanceUpdate
  \/ ResultErr \/ ResultStale \/ ResultSend \/ ResultSkip \/ ResultIgnore
  \/ OutputSend \/ Tick

ActorNext ==
  \/ ActorReceive \/ ActorPanic
  \/ \E d \in Dual \cup {Err} : ActorValidate(d)

ClientNext ==
  \/ ReceiveOutput \/ ProofFails \/ ProofSucceeds
  \/ \E w \in Window : stage_transition_proof(w)
  \/ \E s \in Slot : Finalize(s)

Next == DetectorNext \/ ActorNext \/ ClientNext

Spec == Init /\ [][Next]_vars

-----------------------------------------------------------------------------
(* Properties.                                                              *)

\* Every reachable state of the select! loop, the actor, their channels and the client
\* is well typed.
TypeOK ==
  /\ head \in Update
  /\ latest_slot \in Slot
  /\ in_flight \in BOOLEAN
  /\ stale \in BOOLEAN
  /\ next_expected_output \in Update \cup {None}
  /\ pending \in Dual \cup {None}
  /\ exited \in BOOLEAN
  /\ job \in Job \cup {None}
  /\ actor \in Job \cup {None, Dead}
  /\ result \in Dual \cup {None, Err}
  /\ stage \in Update \cup {None}
  /\ advance \in Update \cup {None}
  /\ output \in Dual \cup {None}
  /\ bridge \in Update
  /\ staged \in Update \cup {None}
  /\ offer \in Dual \cup {None}
  /\ finalized \in Slot

\* in_flight tells the truth: it is set exactly when one job is outstanding, in
\* the job channel, in the actor's hands or in the result channel. So a job is
\* always sent into an empty channel and the detector never waits on its actor.
OneOutstandingJob ==
  /\ in_flight <=> (job # None \/ actor # None \/ result # None)
  /\ job = None \/ actor = None
  /\ job = None \/ result = None
  /\ actor = None \/ result = None

\* What a job started now would ask for.
Wanted == [input |-> head, next |-> FilteredNext]

\* d holds the windows that j asks for.
Answers(d, j) ==
  /\ d.current.input = j.input
  /\ j.next = None => d.next = None
  /\ j.next # None => d.next # None /\ d.next.input = j.next

\* Unless it is marked stale, the outstanding job asks for the windows that the
\* inputs of this moment call for, whatever was staged or advanced, and in
\* whatever order, since the job was sent.
FreshJobIsWanted ==
  ~stale => /\ job # None => job = Wanted
            /\ actor \notin {None, Dead} => actor = Wanted
            /\ result \notin {None, Err} => Answers(result, Wanted)

\* Proof inputs that wait for room in the output channel are the ones the
\* detector's inputs call for (the hash too, which the code compares nowhere),
\* their two windows start at different slots, and both end ahead of the slot
\* accepted last.
EmissionIsCurrent ==
  pending # None =>
    /\ Answers(pending, Wanted)
    /\ pending.next # None => pending.next.input.slot # pending.current.input.slot
    /\ Progress(pending.current)
    /\ NextAhead(pending)

\* Once the channels are drained the detector agrees with the client: it starts
\* the current window at the bridge head and the next one at the output of the
\* proof being made, although stages and advances travel in different channels
\* and overtake each other.
DrainedAgreement ==
  /\ advance = None => head = bridge
  /\ stage = None /\ staged # None => next_expected_output = staged

\* The detector, with its actor, its flags and its jobs in flight, implements
\* the emitter that computes both windows atomically when it emits.
Emitter == INSTANCE WindowEmitter WITH
             next <- next_expected_output, latest <- latest_slot

EmitterSpec == Emitter!Spec

-----------------------------------------------------------------------------
(* Liveness.                                                                *)

\* Providers answer with the chain's finality, for both windows.
ActorValidateHonestly ==
  \E d \in Dual :
    /\ d.current.output.slot = finalized
    /\ d.next # None => d.next.output.slot = finalized
    /\ ActorValidate(d)

\* The runtime polls every ready task and select! picks among ready branches at
\* random; EventLoop::run keeps receiving. Providers may lag or fail, but not
\* from some point on in every answer.
Fairness ==
  /\ WF_vars(Tick) /\ WF_vars(OutputSend)
  /\ SF_vars(StageUpdate) /\ SF_vars(AdvanceUpdate)
  /\ WF_vars(ResultErr \/ ResultStale \/ ResultSend \/ ResultSkip \/ ResultIgnore)
  /\ WF_vars(ActorReceive)
  /\ WF_vars(\E d \in Dual \cup {Err} : ActorValidate(d))
  /\ SF_vars(ActorValidateHonestly)
  /\ WF_vars(ReceiveOutput)

FairSpec == Spec /\ Fairness

NoStagesForEver == <>[][\A w \in Window : ~stage_transition_proof(w)]_vars

\* No window from the staged output to the chain's finality exists yet. A job
\* asks for that window too and fails as a whole while there is none, also when
\* the staged proof has failed: the code clears next_expected_output nowhere but
\* in an advance to its slot.
NextWaitsForFinality ==
  next_expected_output # None /\ next_expected_output.slot >= finalized

\* Unless the client stages proofs for ever (each stage makes the outstanding
\* job stale), every finalized slot is accepted, or the staged output is not
\* behind finality, or the actor is dead: neither the stale flag that survives an
\* error, nor the busy output channel, nor a proof that failed keeps the detector
\* from accepting finality once it is past the staged output.
FinalityAccepted ==
  NoStagesForEver =>
    \A s \in Slot :
      finalized >= s ~> latest_slot >= s \/ NextWaitsForFinality \/ actor = Dead

-----------------------------------------------------------------------------
(* What comments and docs of the file say and the code does not do.         *)

\* "Indicates if we had some update, while our last dual proof inputs were being
\* calculated by the actor": a job that is just being started is not stale.
FreshJobNotStale == [][~in_flight /\ in_flight' => ~stale']_vars

\* latest_slot is "the last emitted slot": without an advance it moves only
\* when proof inputs are emitted.
LatestSlotIsEmitted ==
  [][latest_slot' # latest_slot /\ head' = head => pending # None /\ output' = pending]_vars

\* "the output slot of one window becomes the input slot of the next": the next
\* window starts after the current one.
NextWindowFollows ==
  pending # None /\ pending.next # None =>
    pending.next.input.slot > pending.current.input.slot

\* "Runs indefinitely until the process exits or a critical error occurs": when
\* the actor's task is gone the process exits instead of idling.
ActorDeathExits == actor = Dead ~> exited

\* "On failure, the bridge must resort to the latest current window proof
\* inputs": only a proof that is being made, never one that failed, keeps a
\* finalized slot from being accepted.
FallsBackOnFailure ==
  NoStagesForEver =>
    \A s \in Slot :
      finalized >= s ~> latest_slot >= s \/ staged # None \/ actor = Dead

=============================================================================
