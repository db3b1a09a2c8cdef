------------------------------ MODULE DvnWorker ------------------------------
(***************************************************************************)
(* offchain/dvn-worker: the worker that turns PacketSent logs of the source *)
(* chain into verifications on the destination chain. Every delivery of a   *)
(* log starts a handler; handlers are not awaited and interleave at every   *)
(* await.                                                                    *)
(***************************************************************************)
EXTENDS SymbioticDvn

CONSTANTS
  Delivery,       \* calls of the listener's callback
  MaxBlock,       \* bound on the source chain's height
  Confirmations,  \* blocks on top of a final one (64 in the code)
  None            \* no packet, no signature, no proof yet

ASSUME WorkerAssumption ==
  /\ MaxBlock \in Nat
  /\ Confirmations \in Nat \ {0}
  /\ None \notin Packet \cup Signature \cup ZkProof

VARIABLES
  block,    \* height of the source chain
  sentAt,   \* block of each packet's PacketSent log, -1 before it is sent
  pc,       \* where each handler stands
  packet,   \* the packet each handler works on
  sig, zk,  \* what each handler got from the relay and from GolemDB
  pending   \* handlers whose transaction is sent and not mined

sourceVars  == <<block, sentAt>>
handlerVars == <<pc, packet, sig, zk, pending>>
vars == <<dvnVars, sourceVars, handlerVars>>

Working == {"checkVerified", "checkFinality", "signature", "zkProof", "submit", "mining"}
Ended   == {"skipped", "notFinal", "failed", "verified", "reverted", "lost"}

Init ==
  /\ DvnInit
  /\ block = 0
  /\ sentAt = [p \in Packet |-> -1]
  /\ pc = [d \in Delivery |-> "idle"]
  /\ packet = [d \in Delivery |-> None]
  /\ sig = [d \in Delivery |-> None]
  /\ zk = [d \in Delivery |-> None]
  /\ pending = {}

\* Handler d moves from one await to the next.
Go(d, from, to) == pc[d] = from /\ pc' = [pc EXCEPT ![d] = to]

-----------------------------------------------------------------------------
(* The source chain (external).                                             *)

SendPacket(p) ==
  /\ sentAt[p] = -1
  /\ sentAt' = [sentAt EXCEPT ![p] = block]
  /\ UNCHANGED <<dvnVars, block, handlerVars>>

NewBlock ==
  /\ block < MaxBlock
  /\ block' = block + 1
  /\ UNCHANGED <<dvnVars, sentAt, handlerVars>>

-----------------------------------------------------------------------------
(* The worker.                                                              *)

\* The provider hands a log to the callback, possibly more than once.
listenForPacketSentEvents(d, p) ==
  /\ sentAt[p] >= 0
  /\ Go(d, "idle", "checkVerified")
  /\ packet' = [packet EXCEPT ![d] = p]
  /\ UNCHANGED <<dvnVars, sourceVars, sig, zk, pending>>

CheckVerified(d) ==
  /\ Go(d, "checkVerified",
        IF packet[d] \in verified THEN "skipped" ELSE "checkFinality")
  /\ UNCHANGED <<dvnVars, sourceVars, packet, sig, zk, pending>>

\* Mutant: one confirmation too few.
getBlockFinalityEarly(p) == block - sentAt[p] >= Confirmations - 1

getBlockFinality(p) == block - sentAt[p] >= Confirmations

\* A block that is not final ends the handler: nothing is queued.
CheckFinality(d) ==
  /\ Go(d, "checkFinality",
        IF getBlockFinality(packet[d]) THEN "signature" ELSE "notFinal")
  /\ UNCHANGED <<dvnVars, sourceVars, packet, sig, zk, pending>>

\* Mutant: the mock names the epoch before the first.
MockSignatureEpochZero == [real |-> FALSE, epoch |-> 0]

\* Any error of the relay falls back to a mock signature for epoch 1.
MockSignature == [real |-> FALSE, epoch |-> 1]

\* Operators sign with the validator set of an epoch already committed.
Committed == {e \in Epoch : capture[e] > 0}

requestSignature(d) ==
  /\ Go(d, "signature", "zkProof")
  /\ \E s \in {MockSignature} \cup {[real |-> TRUE, epoch |-> e] : e \in Committed} :
       sig' = [sig EXCEPT ![d] = s]
  /\ UNCHANGED <<dvnVars, sourceVars, packet, zk, pending>>

\* Without GolemDB, or on any error, the stub proof is used.
getZkProof(d) ==
  /\ Go(d, "zkProof", "submit")
  /\ \E z \in ZkProof : zk' = [zk EXCEPT ![d] = z]
  /\ UNCHANGED <<dvnVars, sourceVars, packet, sig, pending>>

\* Mutant: the worker looks at the epoch first and waits when it is over.
SendTransactionWaits(d) ==
  /\ Go(d, "submit", "mining")
  /\ ~EpochExpired(sig[d].epoch)
  /\ pending' = pending \cup {d}
  /\ UNCHANGED <<dvnVars, sourceVars, packet, sig, zk>>

\* The gas limit is given, so nothing is estimated: the transaction is sent
\* even when it is going to revert.
SendTransaction(d) ==
  /\ Go(d, "submit", "mining")
  /\ pending' = pending \cup {d}
  /\ UNCHANGED <<dvnVars, sourceVars, packet, sig, zk>>

\* The transaction is mined, whether or not its handler still waits for it.
Mine(d) ==
  /\ d \in pending
  /\ pending' = pending \ {d}
  /\ submitVerification(packet[d], sig[d], zk[d])
  /\ pc' = IF pc[d] # "mining" THEN pc
           ELSE [pc EXCEPT ![d] =
                  IF Accepts(packet[d], sig[d], zk[d]) THEN "verified" ELSE "reverted"]
  /\ UNCHANGED <<sourceVars, packet, sig, zk>>

\* A read of either chain fails, the transaction is not accepted by the node (the
\* handlers share a wallet and may pick the same nonce), or the wait for it fails:
\* the handler logs the error and ends.
HandlerFails(d) ==
  /\ pc[d] \in {"checkVerified", "checkFinality", "submit", "mining"}
  /\ pc' = [pc EXCEPT ![d] = "failed"]
  /\ UNCHANGED <<dvnVars, sourceVars, packet, sig, zk, pending>>

\* The process stops and starts again: it listens from the latest block, and the
\* handlers that were under way are gone.
Restart ==
  /\ \E d \in Delivery : pc[d] \in Working
  /\ pc' = [d \in Delivery |-> IF pc[d] \in Working THEN "lost" ELSE pc[d]]
  /\ UNCHANGED <<dvnVars, sourceVars, packet, sig, zk, pending>>

Handler(d) ==
  \/ CheckVerified(d) \/ CheckFinality(d) \/ requestSignature(d) \/ getZkProof(d)
  \/ SendTransaction(d) \/ Mine(d)

Environment ==
  /\ TimePasses \/ \E e \in Epoch : CommitEpoch(e)
  /\ UNCHANGED <<sourceVars, handlerVars>>

WorkerNext ==
  \/ NewBlock
  \/ \E d \in Delivery, p \in Packet : listenForPacketSentEvents(d, p)
  \/ \E d \in Delivery : Handler(d) \/ HandlerFails(d)
  \/ Restart
  \/ Environment

Next == WorkerNext \/ \E p \in Packet : SendPacket(p)

Spec == Init /\ [][Next]_vars

-----------------------------------------------------------------------------
(* Properties.                                                              *)

\* Every reachable state of the handlers, the contract and both chains is well typed.
TypeOK ==
  /\ verified \subseteq Packet
  /\ verifiedLog \in Seq([packet : Packet, epoch : Epoch, at : Nat])
  /\ now \in Nat
  /\ capture \in [Epoch -> Nat]
  /\ block \in Nat
  /\ sentAt \in [Packet -> Int]
  /\ pc \in [Delivery -> Working \cup Ended \cup {"idle"}]
  /\ packet \in [Delivery -> Packet \cup {None}]
  /\ sig \in [Delivery -> Signature \cup {None}]
  /\ zk \in [Delivery -> ZkProof \cup {None}]
  /\ pending \subseteq Delivery

\* However many handlers of one packet saw it unverified before any of them
\* submitted, the contract emits Verified for it once.
VerifiedOnce ==
  \A i, j \in 1..Len(verifiedLog) :
    verifiedLog[i].packet = verifiedLog[j].packet => i = j

\* With the worker as submitter a packet is verified only when its block is
\* final, although the contract never looks at the source chain and the check
\* was made several awaits before the transaction was mined.
VerifiedIsFinal ==
  \A p \in verified : sentAt[p] >= 0 /\ sentAt[p] + Confirmations <= block

\* No verification outlives its epoch: once the next epoch is committed, every
\* verification under the old one was mined before the expiry.
VerifiedBeforeExpiry ==
  \A i \in 1..Len(verifiedLog) :
    LET r == verifiedLog[i] IN
    CaptureTimestamp(r.epoch + 1) > 0 =>
      r.at < CaptureTimestamp(r.epoch + 1) + VERIFICATION_EXPIRY

\* A handler that has the operators' signature and an accepted proof does not
\* end in vain: the packet is verified (by it or by a rival), unless the epoch
\* expired meanwhile, the submission failed or the worker stopped.
ReadyHandlerVerifies ==
  \A d \in Delivery :
    pc[d] = "submit" /\ sig[d].real /\ zk[d] \in ZkAccepted ~>
      \/ packet[d] \in verified
      \/ pc[d] = "reverted" /\ EpochExpired(sig[d].epoch)
      \/ pc[d] \in {"failed", "lost"}
=============================================================================
