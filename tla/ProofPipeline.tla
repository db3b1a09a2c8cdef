---------------------------- MODULE ProofPipeline ----------------------------
(***************************************************************************)
(* The way of a proof from the prover to GolemDB: the event loop proves     *)
(* windows in any order, the bridge (external) converts proofs of windows    *)
(* that follow each other, and the saver keeps what was converted. One       *)
(* block stands for each slot.                                               *)
(***************************************************************************)
EXTENDS EventLoop, ProofSaver

VARIABLE bridge_head  \* output of the transition the bridge took last

vars == <<eventLoopVars, proofSaverVars, bridge_head>>

Init == EventLoopInit /\ ProofSaverInit /\ bridge_head = 0

\* The bridge goes on from its head with a transition whose proof is handled.
Convert(c) ==
  /\ c.input_block_number = bridge_head
  /\ \E h \in handled :
       /\ h.proof_outputs.input_slot = c.input_block_number
       /\ h.proof_outputs.output_slot = c.output_block_number
  /\ bridge_head' = c.output_block_number
  /\ Announce(c)
  /\ UNCHANGED eventLoopVars

Prover == EventLoopNext /\ UNCHANGED <<proofSaverVars, bridge_head>>

Saver ==
  /\ \/ Subscribe \/ OtherNotice \/ TopicCompletes \/ TopicFails \/ Complete \/ InnerStep
     \/ \E e \in entities : Expire(e)
  /\ UNCHANGED <<eventLoopVars, bridge_head>>

Next ==
  \/ Prover
  \/ \E c \in Conversion : Convert(c)
  \/ Saver

\* Each request of the saver is answered or fails; the sends of the loop and of the
\* tasks are fair as in EventLoop.
Spec ==
  /\ Init /\ [][Next]_vars
  /\ EventLoopFairness
  /\ \A c \in Conversion : WF_proofSaverVars(FetchOk(c) \/ FetchErr(c))
  /\ \A e \in Entity : WF_proofSaverVars(SaveOk(e) \/ SaveErr(e))

-----------------------------------------------------------------------------
(* Properties.                                                              *)

\* Every reachable state of the pipeline is well typed.
TypeOK ==
  /\ EventLoopTypeOK
  /\ converted \subseteq Conversion
  /\ topic \in {"open", "completed", "errored"}
  /\ replay \in Conversion \cup {Nothing}
  /\ saver \in SaverStates
  /\ client \in BOOLEAN
  /\ fetching \subseteq Conversion
  /\ received \subseteq Conversion /\ saved \subseteq received
  /\ saving \subseteq Entity /\ entities \subseteq Entity
  /\ bridge_head \in Block

\* Whatever entity the query returns first for a block, the bundle in it is of a
\* window that was proved and that holds the block, although the bundle was fetched
\* by its input block alone and the query asks for the notice's bounds.
AnswersAreProved ==
  \A b \in Block : \A e \in getEthConsensusProofBundleEntity(b) :
    /\ e.bundle.input_block_number <= b /\ b <= e.bundle.output_block_number
    /\ \E h \in handled :
         /\ h.window.input_slot = e.bundle.input_block_number
         /\ h.window.expected_output_slot = e.bundle.output_block_number

\* The saver exits with 0 only when each proof it was told of has been saved: none
\* was being fetched or sent when the topic completed, and none was given up.
ExitZeroMeansSaved == saver = "exit0" => received \subseteq saved

\* Each proof the saver is told of is saved, or the process ends with an error, even
\* when conversions come faster than they are saved.
ReceivedIsSaved ==
  \A c \in Conversion : c \in received ~> c \in saved \/ saver = "exit1"
=============================================================================
