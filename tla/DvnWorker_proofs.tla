--------------------------- MODULE DvnWorker_proofs ---------------------------
(***************************************************************************)
(* Proofs about the DVN worker and the verification contract, for every     *)
(* number of packets and deliveries, every bound and every expiry.           *)
(***************************************************************************)
EXTENDS DvnWorker, TLAPS

\* A handler that got anywhere works on a packet that was sent, and one that has
\* a signature, or a transaction under way, has what the contract will look at.
HandlerInputs ==
  \A d \in Delivery :
    /\ pc[d] # "idle" => packet[d] \in Packet /\ sentAt[packet[d]] >= 0
    /\ d \in pending => pc[d] # "idle"
    /\ pc[d] \in {"zkProof", "submit", "mining"} \/ d \in pending => sig[d] \in Signature

\* Handlers beyond the finality check, stopped ones with a transaction under way
\* included, passed it.
PastCheck(d) == pc[d] \in {"signature", "zkProof", "submit", "mining"} \/ d \in pending

HandlersPastCheck ==
  \A d \in Delivery : PastCheck(d) => sentAt[packet[d]] + Confirmations <= block

(* What holds of one entry of a log, and of a log with one entry more.       *)
LEMMA LogEntry ==
  ASSUME NEW R, NEW log \in Seq(R)
  PROVE  \A i \in 1..Len(log) : log[i] \in R
OBVIOUS

LEMMA LogExtends ==
  ASSUME NEW R, NEW log \in Seq(R), NEW r \in R
  PROVE  Append(log, r) \in Seq(R)
OBVIOUS

\* A verification came before its epoch's expiry, as far as the chain knows.
InTime(r) ==
  CaptureTimestamp(r.epoch + 1) > 0 =>
    r.at < CaptureTimestamp(r.epoch + 1) + VERIFICATION_EXPIRY

(* A transaction changes the contract only when all of its checks pass.      *)
LEMMA MineCases ==
  ASSUME NEW d \in Delivery, Mine(d)
  PROVE  \/ /\ Accepts(packet[d], sig[d], zk[d])
            /\ verified' = verified \cup {packet[d]}
            /\ verifiedLog' =
                 Append(verifiedLog, [packet |-> packet[d], epoch |-> sig[d].epoch, at |-> now])
         \/ UNCHANGED <<verified, verifiedLog>>
BY DEF Mine, submitVerification

(* Every step but the mining of a transaction leaves the contract alone.     *)
LEMMA OnlyMineVerifies ==
  ASSUME [Next]_vars, \A d \in Delivery : ~Mine(d)
  PROVE  UNCHANGED <<verified, verifiedLog>>
<1> USE DEF dvnVars
<1>1. ASSUME NEW d \in Delivery, Handler(d) \/ HandlerFails(d)
      PROVE  UNCHANGED <<verified, verifiedLog>>
  BY <1>1 DEF Handler, HandlerFails, CheckVerified, CheckFinality, requestSignature,
              getZkProof, SendTransaction
<1>2. CASE Restart
  BY <1>2 DEF Restart
<1>3. CASE Environment
  BY <1>3 DEF Environment, TimePasses, CommitEpoch
<1> QED
  BY <1>1, <1>2, <1>3 DEF Next, WorkerNext, vars, SendPacket, NewBlock, listenForPacketSentEvents

(* Every variable keeps its type, and the handlers their inputs.             *)
LEMMA Typing == Spec => [](TypeOK /\ HandlerInputs)
<1> USE DvnAssumption, WorkerAssumption DEF TypeOK, HandlerInputs, Epoch
<1>1. Init => TypeOK /\ HandlerInputs
  BY DEF Init, DvnInit
<1>2. TypeOK /\ HandlerInputs /\ [Next]_vars => (TypeOK /\ HandlerInputs)'
  <2> SUFFICES ASSUME TypeOK, HandlerInputs, [Next]_vars
               PROVE  (TypeOK /\ HandlerInputs)'
    OBVIOUS
  <2> USE DEF dvnVars, sourceVars, handlerVars, Go, Working, Ended
  <2>1. ASSUME NEW p \in Packet, SendPacket(p)
        PROVE  (TypeOK /\ HandlerInputs)'
    BY <2>1 DEF SendPacket
  <2>2. CASE NewBlock
    BY <2>2 DEF NewBlock
  <2>3. ASSUME NEW d \in Delivery, NEW p \in Packet, listenForPacketSentEvents(d, p)
        PROVE  (TypeOK /\ HandlerInputs)'
    BY <2>3 DEF listenForPacketSentEvents
  <2>4. ASSUME NEW d \in Delivery, CheckVerified(d)
        PROVE  (TypeOK /\ HandlerInputs)'
    BY <2>4 DEF CheckVerified
  <2>5. ASSUME NEW d \in Delivery, CheckFinality(d)
        PROVE  (TypeOK /\ HandlerInputs)'
    BY <2>5 DEF CheckFinality
  <2>6. ASSUME NEW d \in Delivery, requestSignature(d)
        PROVE  (TypeOK /\ HandlerInputs)'
    <3>1. PICK s : /\ s = MockSignature \/ \E e \in Committed : s = [real |-> TRUE, epoch |-> e]
                   /\ sig' = [sig EXCEPT ![d] = s]
      BY <2>6 DEF requestSignature
    <3>2. MockSignature \in Signature
      BY DEF MockSignature, Signature
    <3>3. \A e \in Committed : [real |-> TRUE, epoch |-> e] \in Signature
      BY DEF Committed, Signature
    <3>4. s \in Signature
      BY <3>1, <3>2, <3>3
    <3> QED
      BY <2>6, <3>1, <3>4 DEF requestSignature
  <2>7. ASSUME NEW d \in Delivery, getZkProof(d)
        PROVE  (TypeOK /\ HandlerInputs)'
    BY <2>7 DEF getZkProof
  <2>8. ASSUME NEW d \in Delivery, SendTransaction(d)
        PROVE  (TypeOK /\ HandlerInputs)'
    BY <2>8 DEF SendTransaction
  <2>9. ASSUME NEW d \in Delivery, Mine(d)
        PROVE  (TypeOK /\ HandlerInputs)'
    <3>1. packet[d] \in Packet /\ sig[d] \in Signature
      BY <2>9 DEF Mine
    <3>2. [packet |-> packet[d], epoch |-> sig[d].epoch, at |-> now]
            \in [packet : Packet, epoch : Epoch, at : Nat]
      BY <3>1 DEF Signature
    <3>3. /\ verified' \subseteq Packet
          /\ verifiedLog' \in Seq([packet : Packet, epoch : Epoch, at : Nat])
      <4>1. CASE UNCHANGED <<verified, verifiedLog>>
        BY <4>1
      <4>2. CASE /\ verified' = verified \cup {packet[d]}
                 /\ verifiedLog' =
                      Append(verifiedLog, [packet |-> packet[d], epoch |-> sig[d].epoch, at |-> now])
        BY <3>1, <3>2, <4>2, LogExtends
      <4> QED
        BY <2>9, <4>1, <4>2, MineCases
    <3>4. pc' \in [Delivery -> Working \cup Ended \cup {"idle"}]
          /\ pending' \subseteq pending
          /\ \A e \in Delivery : pc'[e] # pc[e] => pc'[e] \in Ended /\ pc[e] = "mining"
      BY <2>9 DEF Mine
    <3>5. UNCHANGED <<now, capture, block, sentAt, packet, sig, zk>>
      BY <2>9 DEF Mine, submitVerification
    <3>6. TypeOK'
      BY <3>3, <3>4, <3>5
    <3>7. HandlerInputs'
      BY <3>4, <3>5
    <3> QED
      BY <3>6, <3>7
  <2>10. ASSUME NEW d \in Delivery, HandlerFails(d)
         PROVE  (TypeOK /\ HandlerInputs)'
    BY <2>10 DEF HandlerFails
  <2>11. CASE Restart
    BY <2>11 DEF Restart
  <2>12. CASE TimePasses /\ UNCHANGED <<sourceVars, handlerVars>>
    BY <2>12 DEF TimePasses
  <2>13. ASSUME NEW e \in Epoch, CommitEpoch(e), UNCHANGED <<sourceVars, handlerVars>>
         PROVE  (TypeOK /\ HandlerInputs)'
    BY <2>13 DEF CommitEpoch
  <2>14. CASE UNCHANGED vars
    BY <2>14 DEF vars
  <2> QED
    BY <2>1, <2>2, <2>3, <2>4, <2>5, <2>6, <2>7, <2>8, <2>9, <2>10, <2>11, <2>12,
       <2>13, <2>14
    DEF Next, WorkerNext, Handler, Environment
<1> QED
  BY <1>1, <1>2, PTL DEF Spec

(* Every variable keeps its type under every step of worker, contract and    *)
(* chains.                                                                   *)
THEOREM TypeCorrect == Spec => []TypeOK
BY Typing, PTL

(* The contract's own check makes the verification of a packet unique, however *)
(* many handlers of it read verified before any of them submitted.            *)
THEOREM Uniqueness == Spec => []VerifiedOnce
<1> DEFINE Logged == \A i \in 1..Len(verifiedLog) : verifiedLog[i].packet \in verified
<1>1. Init => Logged /\ VerifiedOnce
  BY DEF Init, DvnInit, VerifiedOnce
<1>2. TypeOK /\ Logged /\ VerifiedOnce /\ [Next]_vars => (Logged /\ VerifiedOnce)'
  <2> SUFFICES ASSUME TypeOK, Logged, VerifiedOnce, [Next]_vars
               PROVE  (Logged /\ VerifiedOnce)'
    OBVIOUS
  <2>1. CASE UNCHANGED <<verified, verifiedLog>>
    BY <2>1 DEF VerifiedOnce
  <2>2. ASSUME NEW p, NEW e, p \notin verified,
               verified' = verified \cup {p},
               verifiedLog' = Append(verifiedLog, [packet |-> p, epoch |-> e, at |-> now])
        PROVE  (Logged /\ VerifiedOnce)'
    <3> DEFINE n == Len(verifiedLog)
    <3>1. n \in Nat /\ Len(verifiedLog') = n + 1
      BY <2>2 DEF TypeOK
    <3>2. /\ \A i \in 1..n : verifiedLog'[i] = verifiedLog[i]
          /\ verifiedLog'[n + 1] = [packet |-> p, epoch |-> e, at |-> now]
      BY <2>2 DEF TypeOK
    <3>3. \A i \in 1..n : verifiedLog'[i].packet \in verified
      BY <3>2
    <3>4. verifiedLog'[n + 1].packet = p
      BY <3>2
    <3>5. Logged'
      BY <2>2, <3>1, <3>3, <3>4
    <3>6. \A i, j \in 1..(n + 1) :
            verifiedLog'[i].packet = verifiedLog'[j].packet => i = j
      <4> SUFFICES ASSUME NEW i \in 1..(n + 1), NEW j \in 1..(n + 1),
                          verifiedLog'[i].packet = verifiedLog'[j].packet
                   PROVE  i = j
        OBVIOUS
      <4>1. CASE i \in 1..n /\ j \in 1..n
        BY <4>1, <3>2 DEF VerifiedOnce
      <4>2. CASE i = n + 1 /\ j = n + 1
        BY <4>2
      <4>3. CASE (i \in 1..n /\ j = n + 1) \/ (i = n + 1 /\ j \in 1..n)
        BY <2>2, <3>3, <3>4, <4>3
      <4> QED
        BY <3>1, <4>1, <4>2, <4>3
    <3> QED
      BY <3>1, <3>5, <3>6 DEF VerifiedOnce
  <2> QED
    BY <2>1, <2>2, OnlyMineVerifies, MineCases DEF Accepts
<1> QED
  BY <1>1, <1>2, Typing, PTL DEF Spec

(* A verified packet's block is final: the finality check made several awaits *)
(* before the transaction is mined stays true until then.                     *)
THEOREM Finality == Spec => []VerifiedIsFinal
<1> USE DvnAssumption, WorkerAssumption
<1>1. Init => HandlersPastCheck /\ VerifiedIsFinal
  BY DEF Init, DvnInit, HandlersPastCheck, PastCheck, VerifiedIsFinal
<1>2. TypeOK /\ HandlerInputs /\ HandlersPastCheck /\ VerifiedIsFinal /\ [Next]_vars
        => (HandlersPastCheck /\ VerifiedIsFinal)'
  <2> SUFFICES ASSUME TypeOK, HandlerInputs, HandlersPastCheck, VerifiedIsFinal, [Next]_vars
               PROVE  (HandlersPastCheck /\ VerifiedIsFinal)'
    OBVIOUS
  <2>0. sentAt \in [Packet -> Int] /\ block \in Nat /\ verified \subseteq Packet
    BY DEF TypeOK
  <2>1. \A p \in Packet : sentAt[p] >= 0 => sentAt'[p] = sentAt[p]
    <3> USE DEF dvnVars, sourceVars
    <3>1. ASSUME NEW q \in Packet, SendPacket(q)
          PROVE  \A p \in Packet : sentAt[p] >= 0 => sentAt'[p] = sentAt[p]
      BY <3>1 DEF SendPacket, TypeOK
    <3>2. ASSUME NEW d \in Delivery, Handler(d) \/ HandlerFails(d)
          PROVE  sentAt' = sentAt
      BY <3>2 DEF Handler, HandlerFails, CheckVerified, CheckFinality, requestSignature,
                  getZkProof, SendTransaction, Mine
    <3> QED
      BY <3>1, <3>2
      DEF Next, WorkerNext, vars, NewBlock, listenForPacketSentEvents, Restart, Environment
  <2>2. block' \in Nat /\ block' >= block
    <3> USE DEF dvnVars, sourceVars, TypeOK
    <3>1. ASSUME NEW d \in Delivery, Handler(d) \/ HandlerFails(d)
          PROVE  block' = block
      BY <3>1 DEF Handler, HandlerFails, CheckVerified, CheckFinality, requestSignature,
                  getZkProof, SendTransaction, Mine
    <3> QED
      BY <3>1
      DEF Next, WorkerNext, vars, SendPacket, NewBlock, listenForPacketSentEvents, Restart, Environment
  <2>3. \A d \in Delivery :
          PastCheck(d)' =>
            /\ packet'[d] = packet[d] /\ pc[d] # "idle"
            /\ PastCheck(d) \/ getBlockFinality(packet[d])
    <3> SUFFICES ASSUME NEW d \in Delivery, PastCheck(d)'
                 PROVE  /\ packet'[d] = packet[d] /\ pc[d] # "idle"
                        /\ PastCheck(d) \/ getBlockFinality(packet[d])
      OBVIOUS
    <3> USE DEF PastCheck, TypeOK, HandlerInputs, Go, dvnVars, sourceVars, handlerVars
    <3>1. ASSUME NEW e \in Delivery, CheckFinality(e)
          PROVE  /\ packet'[d] = packet[d] /\ pc[d] # "idle"
                 /\ PastCheck(d) \/ getBlockFinality(packet[d])
      BY <3>1 DEF CheckFinality
    <3>2. ASSUME NEW e \in Delivery, NEW p \in Packet, listenForPacketSentEvents(e, p)
          PROVE  packet'[d] = packet[d] /\ pc[d] # "idle" /\ PastCheck(d)
      BY <3>2 DEF listenForPacketSentEvents
    <3>3. ASSUME NEW e \in Delivery,
                 CheckVerified(e) \/ requestSignature(e) \/ getZkProof(e) \/ SendTransaction(e)
          PROVE  packet'[d] = packet[d] /\ pc[d] # "idle" /\ PastCheck(d)
      BY <3>3 DEF CheckVerified, requestSignature, getZkProof, SendTransaction
    <3>4. ASSUME NEW e \in Delivery, Mine(e) \/ HandlerFails(e)
          PROVE  packet'[d] = packet[d] /\ pc[d] # "idle" /\ PastCheck(d)
      BY <3>4 DEF Mine, HandlerFails
    <3>5. CASE Restart
      BY <3>5 DEF Restart, Working
    <3>6. CASE UNCHANGED handlerVars
      BY <3>6
    <3> QED
      BY <3>1, <3>2, <3>3, <3>4, <3>5, <3>6
      DEF Next, WorkerNext, Handler, Environment, SendPacket, NewBlock, vars
  <2>4. HandlersPastCheck'
    <3> SUFFICES ASSUME NEW d \in Delivery, PastCheck(d)'
                 PROVE  sentAt'[packet'[d]] + Confirmations <= block'
      BY DEF HandlersPastCheck
    <3>1. packet'[d] = packet[d] /\ packet[d] \in Packet /\ sentAt[packet[d]] >= 0
      BY <2>3 DEF HandlerInputs
    <3>2. sentAt[packet[d]] + Confirmations <= block
      BY <2>0, <2>3, <3>1 DEF HandlersPastCheck, getBlockFinality
    <3> QED
      BY <2>0, <2>1, <2>2, <3>1, <3>2
  <2>5. VerifiedIsFinal'
    <3>1. \A p \in verified : sentAt'[p] >= 0 /\ sentAt'[p] + Confirmations <= block'
      BY <2>0, <2>1, <2>2 DEF VerifiedIsFinal
    <3>2. ASSUME NEW d \in Delivery, Mine(d)
          PROVE  sentAt'[packet[d]] >= 0 /\ sentAt'[packet[d]] + Confirmations <= block'
      <4>1. d \in pending /\ packet[d] \in Packet /\ sentAt[packet[d]] >= 0
        BY <3>2 DEF Mine, HandlerInputs
      <4>2. sentAt[packet[d]] + Confirmations <= block
        BY <4>1 DEF HandlersPastCheck, PastCheck
      <4> QED
        BY <2>0, <2>1, <2>2, <4>1, <4>2
    <3>3. ASSUME NEW d \in Delivery, Mine(d)
          PROVE  verified' \subseteq verified \cup {packet[d]}
      BY <3>3, MineCases
    <3> QED
      BY <3>1, <3>2, <3>3, OnlyMineVerifies DEF VerifiedIsFinal
  <2> QED
    BY <2>4, <2>5
<1> QED
  BY <1>1, <1>2, Typing, PTL DEF Spec

(* A verification under an epoch was mined before that epoch's expiry, also   *)
(* when the next epoch is committed only afterwards.                          *)
THEOREM Expiry == Spec => []VerifiedBeforeExpiry
<1> USE DvnAssumption, WorkerAssumption
<1> DEFINE LogPast == \A i \in 1..Len(verifiedLog) : verifiedLog[i].at <= now
<1>1. Init => LogPast /\ VerifiedBeforeExpiry
  BY DEF Init, DvnInit, VerifiedBeforeExpiry
<1>2. TypeOK /\ HandlerInputs /\ LogPast /\ VerifiedBeforeExpiry /\ [Next]_vars
        => (LogPast /\ VerifiedBeforeExpiry)'
  <2> SUFFICES ASSUME TypeOK, HandlerInputs, LogPast, VerifiedBeforeExpiry, [Next]_vars
               PROVE  (LogPast /\ VerifiedBeforeExpiry)'
    OBVIOUS
  <2>1. /\ now \in Nat /\ capture \in [Epoch -> Nat]
        /\ Len(verifiedLog) \in Nat
        /\ \A i \in 1..Len(verifiedLog) : verifiedLog[i].at \in Nat
    <3>1. \A i \in 1..Len(verifiedLog) : verifiedLog[i] \in [packet : Packet, epoch : Epoch, at : Nat]
      BY LogEntry DEF TypeOK
    <3>2. \A i \in 1..Len(verifiedLog) : verifiedLog[i].at \in Nat
      BY <3>1
    <3>3. now \in Nat /\ capture \in [Epoch -> Nat] /\ Len(verifiedLog) \in Nat
      BY DEF TypeOK
    <3> QED
      BY <3>2, <3>3
  <2>2. \A e : CaptureTimestamp(e) \in Nat
    BY <2>1 DEF CaptureTimestamp
  <2>3. ASSUME NEW d \in Delivery, Mine(d)
        PROVE  (LogPast /\ VerifiedBeforeExpiry)'
    <3>1. now' = now /\ capture' = capture
      BY <2>3 DEF Mine, submitVerification
    <3>2. CASE UNCHANGED <<verified, verifiedLog>>
      BY <3>1, <3>2 DEF VerifiedBeforeExpiry, CaptureTimestamp
    <3>3. CASE /\ Accepts(packet[d], sig[d], zk[d])
               /\ verifiedLog' =
                    Append(verifiedLog, [packet |-> packet[d], epoch |-> sig[d].epoch, at |-> now])
      <4> DEFINE n == Len(verifiedLog)
      <4>1. /\ n \in Nat /\ Len(verifiedLog') = n + 1
            /\ \A i \in 1..n : verifiedLog'[i] = verifiedLog[i]
            /\ verifiedLog'[n + 1].epoch = sig[d].epoch
            /\ verifiedLog'[n + 1].at = now
        BY <3>3 DEF TypeOK
      <4>2. \A e : CaptureTimestamp(e)' = CaptureTimestamp(e)
        BY <3>1 DEF CaptureTimestamp
      <4>3. CaptureTimestamp(sig[d].epoch + 1) > 0 =>
              now < CaptureTimestamp(sig[d].epoch + 1) + VERIFICATION_EXPIRY
        BY <2>1, <2>2, <3>3 DEF Accepts, EpochExpired
      <4>4. LogPast'
        BY <2>1, <3>1, <4>1
      <4>5. \A i \in 1..n : InTime(verifiedLog[i])
        BY DEF VerifiedBeforeExpiry, InTime
      <4>6. \A i \in 1..(n + 1) : InTime(verifiedLog'[i])
        <5>1. InTime(verifiedLog'[n + 1])
          BY <4>1, <4>3 DEF InTime
        <5> QED
          BY <4>1, <4>5, <5>1
      <4>7. VerifiedBeforeExpiry'
        BY <4>1, <4>2, <4>6 DEF VerifiedBeforeExpiry, InTime
      <4> QED
        BY <4>4, <4>7
    <3> QED
      BY <2>3, <3>2, <3>3, MineCases
  <2>4. ASSUME NEW e \in Epoch, CommitEpoch(e)
        PROVE  (LogPast /\ VerifiedBeforeExpiry)'
    <3>1. UNCHANGED <<verifiedLog, now>> /\ capture[e] = 0 /\ capture' = [capture EXCEPT ![e] = now]
      BY <2>4 DEF CommitEpoch
    <3>2. \A f : CaptureTimestamp(f)' = IF f = e THEN now ELSE CaptureTimestamp(f)
      BY <2>1, <3>1 DEF CaptureTimestamp
    <3> QED
      BY <2>1, <2>2, <3>1, <3>2 DEF VerifiedBeforeExpiry
  <2>5. CASE TimePasses
    BY <2>1, <2>2, <2>5 DEF TimePasses, VerifiedBeforeExpiry, CaptureTimestamp
  <2>6. CASE UNCHANGED dvnVars
    BY <2>6 DEF dvnVars, VerifiedBeforeExpiry, CaptureTimestamp
  <2>7. ASSUME NEW d \in Delivery, Handler(d) \/ HandlerFails(d), ~Mine(d)
        PROVE  UNCHANGED dvnVars
    BY <2>7 DEF Handler, HandlerFails, CheckVerified, CheckFinality, requestSignature,
                getZkProof, SendTransaction
  <2> QED
    BY <2>3, <2>4, <2>5, <2>6, <2>7
    DEF Next, WorkerNext, vars, SendPacket, NewBlock, listenForPacketSentEvents, Restart, Environment
<1> QED
  BY <1>1, <1>2, Typing, PTL DEF Spec
=============================================================================
