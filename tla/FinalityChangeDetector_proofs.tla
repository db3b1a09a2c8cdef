-------------------- MODULE FinalityChangeDetector_proofs --------------------
(***************************************************************************)
(* Proofs about the finality change detector, for every set of slots and    *)
(* of hashes.                                                               *)
(***************************************************************************)
EXTENDS FinalityChangeDetector, TLAPS

(* The parts of a pair of windows, and of one window.                       *)
LEMMA DualParts ==
  ASSUME NEW d \in Dual
  PROVE  /\ d.current \in Window
         /\ d.next \in Window \cup {None}
         /\ d.current.input \in Update
         /\ d.current.output \in Update
         /\ d.current.output.slot \in Slot
BY DEF Dual, Window, Update

(* Every variable keeps its type under every handler of the detector, the   *)
(* actor and the client.                                                    *)
THEOREM TypeCorrect == Spec => []TypeOK
<1>1. Init => TypeOK
  BY DEF Init, TypeOK, Update
<1>2. TypeOK /\ [Next]_vars => TypeOK'
  <2> SUFFICES ASSUME TypeOK, [Next]_vars
               PROVE  TypeOK'
    OBVIOUS
  <2> USE DEF TypeOK, detectorVars, actorVars, channelVars, clientVars
  <2>1. CASE StageUpdate
    BY <2>1 DEF StageUpdate
  <2>2. CASE AdvanceUpdate
    BY <2>2 DEF AdvanceUpdate, AdvanceTo, Scrubbed, Update
  <2>3. CASE ResultErr
    <3>1. /\ result' \in Dual \cup {None, Err}
          /\ in_flight' \in BOOLEAN
      BY <2>3 DEF ResultErr
    <3>2. UNCHANGED <<head, latest_slot, stale, next_expected_output, pending, exited,
                      job, actor, stage, advance, output, bridge, staged, offer, finalized>>
      BY <2>3 DEF ResultErr
    <3> QED
      BY <3>1, <3>2
  <2>4. FilteredNext \in Update \cup {None}
    BY DEF FilteredNext
  <2>5. try_start_validation_job =>
          job' \in Job \cup {None} /\ in_flight' \in BOOLEAN /\ exited' \in BOOLEAN
    <3>1. [input |-> head, next |-> FilteredNext] \in Job
      BY <2>4 DEF Job
    <3> QED
      BY <3>1, Zenon DEF try_start_validation_job
  <2>6. CASE ResultStale
    BY <2>5, <2>6 DEF ResultStale
  <2>7. CASE ResultSend
    BY <2>7 DEF ResultSend
  <2>8. CASE ResultSkip
    BY <2>8, DualParts DEF ResultSkip
  <2>9. CASE ResultIgnore
    BY <2>9 DEF ResultIgnore
  <2>10. CASE OutputSend
    BY <2>10, DualParts DEF OutputSend
  <2>11. CASE Tick
    BY <2>5, <2>11 DEF Tick
  <2>12. CASE ActorReceive
    BY <2>12 DEF ActorReceive
  <2>13. CASE ActorPanic
    BY <2>13 DEF ActorPanic
  <2>14. ASSUME NEW d \in Dual \cup {Err}, ActorValidate(d)
         PROVE  TypeOK'
    BY <2>14 DEF ActorValidate
  <2>15. CASE ReceiveOutput
    BY <2>15 DEF ReceiveOutput
  <2>16. CASE ProofFails
    BY <2>16 DEF ProofFails
  <2>17. CASE ProofSucceeds
    BY <2>17 DEF ProofSucceeds
  <2>18. ASSUME NEW w \in Window, stage_transition_proof(w)
         PROVE  TypeOK'
    BY <2>18 DEF stage_transition_proof, Window
  <2>19. ASSUME NEW s \in Slot, Finalize(s)
         PROVE  TypeOK'
    BY <2>19 DEF Finalize
  <2>20. CASE UNCHANGED vars
    BY <2>20 DEF vars
  <2> QED
    BY <2>1, <2>2, <2>3, <2>6, <2>7, <2>8, <2>9, <2>10, <2>11, <2>12, <2>13, <2>14,
       <2>15, <2>16, <2>17, <2>18, <2>19, <2>20
    DEF Next, DetectorNext, ActorNext, ClientNext
<1> QED
  BY <1>1, <1>2, PTL DEF Spec

(* A step of the client, or of the chain, touches neither the detector's    *)
(* variables nor its actor's.                                               *)
LEMMA ClientLeavesDetector ==
  ClientNext => UNCHANGED <<detectorVars, actorVars>>
BY DEF ClientNext, ReceiveOutput, ProofFails, ProofSucceeds, stage_transition_proof,
       Finalize

(* Whatever the order of events, in_flight is set exactly when one job is    *)
(* outstanding, so a job is always sent into an empty channel.               *)
THEOREM JobAccounting == Spec => []OneOutstandingJob
<1>1. Init => OneOutstandingJob
  BY DEF Init, OneOutstandingJob
<1>2. TypeOK /\ OneOutstandingJob /\ [Next]_vars => OneOutstandingJob'
  <2> SUFFICES ASSUME TypeOK, OneOutstandingJob, [Next]_vars
               PROVE  OneOutstandingJob'
    OBVIOUS
  <2> USE DEF OneOutstandingJob, detectorVars, actorVars
  <2>0. [input |-> head, next |-> FilteredNext] # None
    <3>1. FilteredNext \in Update \cup {None}
      BY DEF FilteredNext, TypeOK
    <3> QED
      BY <3>1, DetectorAssumption DEF TypeOK, Job
  <2>1. CASE StageUpdate \/ AdvanceUpdate \/ OutputSend
    BY <2>1 DEF StageUpdate, AdvanceUpdate, AdvanceTo, Scrubbed, OutputSend
  <2>2. CASE ResultErr
    BY <2>2, DetectorAssumption DEF ResultErr
  <2>3. CASE ResultSend \/ ResultSkip \/ ResultIgnore
    BY <2>3 DEF ResultSend, ResultSkip, ResultIgnore
  <2>4. CASE ResultStale
    <3>1. actor = None /\ job = None
      BY <2>4 DEF ResultStale
    <3>2. actor # Dead
      BY <3>1, DetectorAssumption
    <3> QED
      BY <2>0, <2>4, <3>1, <3>2 DEF ResultStale, try_start_validation_job
  <2>5. CASE Tick
    <3>1. actor = None /\ job = None /\ result = None
      BY <2>5 DEF Tick
    <3>2. actor # Dead
      BY <3>1, DetectorAssumption
    <3> QED
      BY <2>0, <2>5, <3>1, <3>2 DEF Tick, try_start_validation_job
  <2>6. CASE ActorReceive
    BY <2>6 DEF ActorReceive
  <2>7. CASE ActorPanic
    BY <2>7, DetectorAssumption DEF ActorPanic
  <2>8. ASSUME NEW d \in Dual \cup {Err}, ActorValidate(d)
        PROVE  OneOutstandingJob'
    <3>1. d # None
      BY DetectorAssumption
    <3> QED
      BY <2>8, <3>1 DEF ActorValidate
  <2>9. CASE UNCHANGED <<detectorVars, actorVars>>
    BY <2>9
  <2> QED
    BY <2>1, <2>2, <2>3, <2>4, <2>5, <2>6, <2>7, <2>8, <2>9, ClientLeavesDetector
    DEF Next, DetectorNext, ActorNext, vars
<1> QED
  BY <1>1, <1>2, TypeCorrect, PTL DEF Spec

(* What a new job would ask for depends on the detector's two inputs only.   *)
LEMMA WantedStable ==
  UNCHANGED <<head, next_expected_output>> =>
    UNCHANGED Wanted /\ UNCHANGED FilteredNext
BY DEF Wanted, FilteredNext

(* An outstanding job that is not marked stale was computed from the inputs  *)
(* the detector holds now.                                                   *)
THEOREM Freshness == Spec => []FreshJobIsWanted
<1>1. Init => FreshJobIsWanted
  BY DetectorAssumption DEF Init, FreshJobIsWanted
<1>2. TypeOK /\ OneOutstandingJob /\ FreshJobIsWanted /\ [Next]_vars => FreshJobIsWanted'
  <2> SUFFICES ASSUME TypeOK, OneOutstandingJob, FreshJobIsWanted, [Next]_vars
               PROVE  FreshJobIsWanted'
    OBVIOUS
  <2> USE DEF detectorVars, actorVars
  <2>1. CASE StageUpdate \/ AdvanceUpdate
    \* Either a job is outstanding and becomes stale, or there is none.
    BY <2>1 DEF StageUpdate, AdvanceUpdate, AdvanceTo, Scrubbed, FreshJobIsWanted, OneOutstandingJob
  <2>2. CASE ResultErr \/ ResultSend \/ ResultSkip \/ ResultIgnore
    <3>1. result # None
      BY <2>2, DetectorAssumption DEF ResultErr, ResultSend, ResultSkip, ResultIgnore
    <3> QED
      BY <2>2, <3>1 DEF ResultErr, ResultSend, ResultSkip, ResultIgnore,
                        FreshJobIsWanted, OneOutstandingJob
  <2>3. CASE ResultStale
    <3>1. /\ actor = None /\ actor' = None /\ result' = None
          /\ UNCHANGED <<head, next_expected_output>>
      BY <2>3 DEF ResultStale, OneOutstandingJob
    <3>2. job' = Wanted
      BY <2>3, <3>1, DetectorAssumption
      DEF ResultStale, try_start_validation_job, Wanted
    <3> QED
      BY <3>1, <3>2, WantedStable DEF FreshJobIsWanted
  <2>4. CASE Tick
    <3>1. /\ actor = None /\ actor' = None /\ result' = None
          /\ UNCHANGED <<head, next_expected_output>>
      BY <2>4 DEF Tick, OneOutstandingJob
    <3>2. job' = Wanted
      BY <2>4, <3>1, DetectorAssumption DEF Tick, try_start_validation_job, Wanted
    <3> QED
      BY <3>1, <3>2, WantedStable DEF FreshJobIsWanted
  <2>5. CASE OutputSend
    BY <2>5, WantedStable DEF OutputSend, FreshJobIsWanted, Answers
  <2>6. CASE ActorReceive
    BY <2>6, WantedStable DEF ActorReceive, FreshJobIsWanted, OneOutstandingJob
  <2>7. CASE ActorPanic
    BY <2>7, WantedStable DEF ActorPanic, FreshJobIsWanted, OneOutstandingJob
  <2>8. ASSUME NEW d \in Dual \cup {Err}, ActorValidate(d)
        PROVE  FreshJobIsWanted'
    <3> USE <2>8
    <3>1. /\ UNCHANGED <<Wanted, stale>>
          /\ job = None /\ job' = None /\ actor' = None /\ result' = d
      BY WantedStable DEF ActorValidate, OneOutstandingJob
    <3>2. d # Err /\ ~stale => Answers(d, Wanted)
      <4> SUFFICES ASSUME d # Err, ~stale
                   PROVE  Answers(d, Wanted)
        OBVIOUS
      <4>1. actor = Wanted
        BY DEF ActorValidate, FreshJobIsWanted
      <4>2. actor.next # None => d.next # None
        BY DetectorAssumption DEF ActorValidate, Reachable
      <4> QED
        BY <4>1, <4>2 DEF ActorValidate, Reachable, Answers
    <3> QED
      BY <3>1, <3>2 DEF FreshJobIsWanted, Answers
  <2>9. CASE UNCHANGED <<detectorVars, actorVars>>
    BY <2>9, WantedStable DEF FreshJobIsWanted, Answers
  <2> QED
    BY <2>1, <2>2, <2>3, <2>4, <2>5, <2>6, <2>7, <2>8, <2>9, ClientLeavesDetector
    DEF Next, DetectorNext, ActorNext, vars
<1> QED
  BY <1>1, <1>2, TypeCorrect, JobAccounting, PTL DEF Spec

(* Proof inputs that wait to be sent are the ones the inputs of this moment  *)
(* call for, with distinct windows that both end ahead of latest_slot: while  *)
(* the send is awaited no update is served, so they cannot become stale.      *)
THEOREM EmissionCurrency == Spec => []EmissionIsCurrent
<1>1. Init => EmissionIsCurrent
  BY DEF Init, EmissionIsCurrent
<1>2. TypeOK /\ FreshJobIsWanted /\ EmissionIsCurrent /\ [Next]_vars => EmissionIsCurrent'
  <2> SUFFICES ASSUME TypeOK, FreshJobIsWanted, EmissionIsCurrent, [Next]_vars
               PROVE  EmissionIsCurrent'
    OBVIOUS
  <2> USE DEF detectorVars, actorVars
  <2>1. CASE ResultSend
    <3>1. /\ pending' = result
          /\ UNCHANGED <<head, next_expected_output, latest_slot>>
          /\ Progress(result.current)
          /\ NextAhead(result)
      BY <2>1 DEF ResultSend
    <3>2. Answers(result, Wanted)
      BY <2>1 DEF ResultSend, FreshJobIsWanted
    <3>3. result.next # None => result.next.input.slot # result.current.input.slot
      BY <3>2 DEF Answers, Wanted, FilteredNext
    <3> QED
      BY <3>1, <3>2, <3>3, WantedStable
      DEF EmissionIsCurrent, Answers, Progress, NextAhead
  <2>2. CASE pending' = None
    BY <2>2 DEF EmissionIsCurrent
  <2>3. CASE UNCHANGED <<pending, head, next_expected_output, latest_slot>>
    BY <2>3, WantedStable DEF EmissionIsCurrent, Answers, Progress, NextAhead
  <2>4. \/ ResultSend
        \/ pending' = None
        \/ UNCHANGED <<pending, head, next_expected_output, latest_slot>>
    <3>1. CASE DetectorNext
      BY <3>1 DEF DetectorNext, StageUpdate, AdvanceUpdate, AdvanceTo, Scrubbed, ResultErr, ResultStale,
                  ResultSkip, ResultIgnore, OutputSend, Tick, Polling
    <3>2. CASE ActorNext
      BY <3>2 DEF ActorNext, ActorReceive, ActorPanic, ActorValidate
    <3>3. CASE ClientNext
      BY <3>3, ClientLeavesDetector
    <3> QED
      BY <3>1, <3>2, <3>3 DEF Next, vars
  <2> QED
    BY <2>1, <2>2, <2>3, <2>4
<1> QED
  BY <1>1, <1>2, TypeCorrect, Freshness, PTL DEF Spec

(* The loop never breaks, so the process::exit after it is never reached:    *)
(* the actor dies only while it holds a job, in_flight then stays set, and   *)
(* the detector sends a job only when it is not.                             *)
NeverExits == ~exited

THEOREM ErrorExitUnreachable == Spec => []NeverExits
<1>1. Init => NeverExits
  BY DEF Init, NeverExits
<1>2. OneOutstandingJob /\ NeverExits /\ [Next]_vars => NeverExits'
  <2> SUFFICES ASSUME OneOutstandingJob, NeverExits, [Next]_vars
               PROVE  NeverExits'
    OBVIOUS
  <2> USE DEF NeverExits, detectorVars
  <2>1. CASE ResultStale \/ Tick
    <3>1. actor = None
      BY <2>1 DEF ResultStale, Tick, OneOutstandingJob
    <3> QED
      BY <2>1, <3>1, DetectorAssumption DEF ResultStale, Tick, try_start_validation_job
  <2>2. CASE StageUpdate \/ AdvanceUpdate \/ ResultErr \/ ResultSend \/ ResultSkip
               \/ ResultIgnore \/ OutputSend
    BY <2>2 DEF StageUpdate, AdvanceUpdate, AdvanceTo, Scrubbed, ResultErr, ResultSend, ResultSkip,
                ResultIgnore, OutputSend
  <2>3. CASE ActorNext
    BY <2>3 DEF ActorNext, ActorReceive, ActorPanic, ActorValidate
  <2>4. CASE ClientNext
    BY <2>4, ClientLeavesDetector
  <2>5. CASE UNCHANGED vars
    BY <2>5 DEF vars
  <2> QED
    BY <2>1, <2>2, <2>3, <2>4, <2>5 DEF Next, DetectorNext
<1> QED
  BY <1>1, <1>2, JobAccounting, PTL DEF Spec

-----------------------------------------------------------------------------
(* DrainedAgreement is not inductive: it needs what is in the channels while  *)
(* they are not drained, and that the proof being made ends ahead of the      *)
(* bridge head, so that no advance can scrub it.                              *)
AgreementInv ==
  /\ DrainedAgreement
  /\ advance # None => advance = bridge
  /\ stage # None /\ staged # None => stage = staged
  /\ staged # None => staged.slot > bridge.slot

(* After any interleaving of stages, failures, successes and advances, a     *)
(* detector whose channels are drained holds the client's bridge head and    *)
(* the output of the proof the client is making.                             *)
THEOREM Agreement == Spec => []DrainedAgreement
<1>1. Init => AgreementInv
  BY DEF Init, AgreementInv, DrainedAgreement
<1>2. TypeOK /\ AgreementInv /\ [Next]_vars => AgreementInv'
  <2> SUFFICES ASSUME TypeOK, AgreementInv, [Next]_vars
               PROVE  AgreementInv'
    OBVIOUS
  <2> USE DEF AgreementInv, DrainedAgreement, detectorVars, actorVars, channelVars,
              clientVars
  <2>1. CASE StageUpdate
    BY <2>1 DEF StageUpdate
  <2>2. CASE AdvanceUpdate
    <3>1. staged # None => staged.slot # advance.slot
      BY <2>2, DetectorAssumption DEF AdvanceUpdate, AdvanceTo, Scrubbed, TypeOK, Update
    <3> QED
      BY <2>2, <3>1 DEF AdvanceUpdate, AdvanceTo, Scrubbed
  <2>3. CASE ProofFails
    BY <2>3 DEF ProofFails
  <2>4. CASE ProofSucceeds
    BY <2>4 DEF ProofSucceeds
  <2>5. ASSUME NEW w \in Window, stage_transition_proof(w)
        PROVE  AgreementInv'
    <3>1. w.output \in Update /\ w.output # None /\ w.output.slot > w.input.slot
      BY DetectorAssumption DEF Window
    <3> QED
      BY <2>5, <3>1 DEF stage_transition_proof
  <2>6. CASE UNCHANGED <<head, next_expected_output, stage, advance, bridge, staged>>
    BY <2>6
  <2>7. \/ StageUpdate \/ AdvanceUpdate \/ ProofFails \/ ProofSucceeds
        \/ \E w \in Window : stage_transition_proof(w)
        \/ UNCHANGED <<head, next_expected_output, stage, advance, bridge, staged>>
    <3>1. CASE DetectorNext
      BY <3>1 DEF DetectorNext, ResultErr, ResultStale, ResultSend, ResultSkip,
                  ResultIgnore, OutputSend, Tick
    <3>2. CASE ActorNext
      BY <3>2 DEF ActorNext, ActorReceive, ActorPanic, ActorValidate
    <3>3. CASE ClientNext
      BY <3>3 DEF ClientNext, ReceiveOutput, Finalize
    <3> QED
      BY <3>1, <3>2, <3>3 DEF Next, vars
  <2> QED
    BY <2>1, <2>2, <2>3, <2>4, <2>5, <2>6, <2>7
<1>3. AgreementInv => DrainedAgreement
  BY DEF AgreementInv
<1> QED
  BY <1>1, <1>2, <1>3, TypeCorrect, PTL DEF Spec

-----------------------------------------------------------------------------
(* The detector implements the atomic emitter: every step is a step of       *)
(* WindowEmitter or leaves its variables alone. An emission maps to Emit by  *)
(* EmissionIsCurrent, a skipped one to Skip by FreshJobIsWanted.              *)
THEOREM Refinement == Spec => EmitterSpec
<1> USE DEF detectorVars, actorVars, channelVars, clientVars
<1>1. Init => Emitter!Init
  BY DEF Init, Emitter!Init, Emitter!Update, Update
<1>2. TypeOK /\ FreshJobIsWanted /\ EmissionIsCurrent /\ [Next]_vars
        => [Emitter!Next]_(Emitter!vars)
  <2> SUFFICES ASSUME TypeOK, FreshJobIsWanted, EmissionIsCurrent, [Next]_vars
               PROVE  Emitter!Next \/ UNCHANGED Emitter!vars
    OBVIOUS
  <2> USE DEF Emitter!vars
  <2>1. CASE StageUpdate
    <3>1. stage \in Emitter!Update
      BY <2>1 DEF StageUpdate, TypeOK, Update, Emitter!Update
    <3>2. Emitter!Stage(stage)
      BY <2>1 DEF StageUpdate, Emitter!Stage
    <3> QED
      BY <3>1, <3>2 DEF Emitter!Next
  <2>2. CASE AdvanceUpdate
    <3>1. advance \in Emitter!Update
      BY <2>2 DEF AdvanceUpdate, AdvanceTo, Scrubbed, TypeOK, Update, Emitter!Update
    <3>2. Emitter!Advance(advance)
      BY <2>2 DEF AdvanceUpdate, AdvanceTo, Scrubbed, Emitter!Advance, Emitter!Filtered
    <3> QED
      BY <3>1, <3>2 DEF Emitter!Next
  <2>3. CASE OutputSend
    <3>1. pending \in Emitter!Dual
      <4>1. pending \in Dual
        BY <2>3 DEF OutputSend, TypeOK
      <4> QED
        BY <4>1 DEF Dual, Window, Update, Emitter!Dual, Emitter!Window, Emitter!Update
    <3>2. Emitter!Filtered(next_expected_output, head.slot) = FilteredNext
      BY DEF Emitter!Filtered, FilteredNext
    <3>3. Emitter!Emit(pending)
      BY <2>3, <3>2
      DEF OutputSend, EmissionIsCurrent, Answers, Wanted, FilteredNext, Progress,
          NextAhead, Emitter!Emit
    <3> QED
      BY <3>1, <3>3 DEF Emitter!Next
  <2>4. CASE ResultSkip
    <3>1. result \in Dual
      BY <2>4 DEF ResultSkip, TypeOK
    <3>2. result.current.output.slot \in Slot
      BY <3>1, DualParts
    <3>3. FilteredNext # None
      BY <2>4 DEF ResultSkip, NextAhead, FreshJobIsWanted, Answers, Wanted
    <3>4. Emitter!Skip(result.current.output.slot)
      BY <2>4, <3>3
      DEF ResultSkip, Progress, FilteredNext, Emitter!Skip, Emitter!Filtered
    <3> QED
      BY <3>2, <3>4 DEF Emitter!Next
  <2>5. CASE ReceiveOutput
    BY <2>5 DEF ReceiveOutput, Emitter!Take, Emitter!Next
  <2>6. CASE ResultErr \/ ResultStale \/ ResultSend \/ ResultIgnore \/ Tick
    BY <2>6 DEF ResultErr, ResultStale, ResultSend, ResultIgnore, Tick
  <2>7. CASE ActorNext
    BY <2>7 DEF ActorNext, ActorReceive, ActorPanic, ActorValidate
  <2>8. CASE ClientNext /\ ~ReceiveOutput
    BY <2>8 DEF ClientNext, ProofFails, ProofSucceeds, stage_transition_proof, Finalize
  <2>9. CASE UNCHANGED vars
    BY <2>9 DEF vars
  <2> QED
    BY <2>1, <2>2, <2>3, <2>4, <2>5, <2>6, <2>7, <2>8, <2>9 DEF Next, DetectorNext
<1> QED
  BY <1>1, <1>2, TypeCorrect, Freshness, EmissionCurrency, PTL
  DEF Spec, EmitterSpec, Emitter!Spec

=============================================================================
