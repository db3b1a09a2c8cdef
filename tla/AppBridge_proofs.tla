--------------------------- MODULE AppBridge_proofs ---------------------------
(***************************************************************************)
(* Proofs about the whole way of a deposit: the bridge implements the worker *)
(* with its contract, so what holds of them holds under any deposits, and    *)
(* what is delivered is final.                                               *)
(***************************************************************************)
EXTENDS AppBridge, DvnWorker_proofs, SetFacts

LEMMA BridgeSteps == [BridgeNext]_bridgeVars => [Next]_vars
<1>1. ASSUME NEW u \in User, NEW value \in Value[u], NEW p \in Packet, depositETH(u, value, p)
      PROVE  Next
  BY <1>1 DEF depositETH, Next
<1>2. ASSUME NEW p \in Packet, onLzReceive(p)
      PROVE  UNCHANGED vars
  BY <1>2 DEF onLzReceive
<1>3. QED
  BY <1>1, <1>2 DEF BridgeNext, bridgeVars, Next

\* Deposits and deliveries are, for the worker and the contract, packets that are
\* sent and steps of others: the bridge implements the DVN's specification.
THEOREM BridgeImplementsWorker == BridgeSpec => Spec
<1>1. BridgeInit => Init
  BY DEF BridgeInit
<1>2. QED
  BY <1>1, BridgeSteps, PTL DEF BridgeSpec, Spec

\* Whatever is deposited and delivered, a packet is verified at most once.
THEOREM BridgeUniqueness == BridgeSpec => []VerifiedOnce
BY BridgeImplementsWorker, Uniqueness, PTL

\* Packets AppDest was handed have been verified.
LEMMA DeliveredIsVerified == BridgeSpec => [](delivered \subseteq verified)
<1>1. BridgeInit => delivered \subseteq verified
  BY DEF BridgeInit
<1>2. delivered \subseteq verified /\ [BridgeNext]_bridgeVars => (delivered \subseteq verified)'
  <2> SUFFICES ASSUME delivered \subseteq verified, [BridgeNext]_bridgeVars
               PROVE  (delivered \subseteq verified)'
    OBVIOUS
  <2>1. verified \subseteq verified'
    <3>1. ASSUME NEW d \in Delivery, Mine(d)
          PROVE  verified \subseteq verified'
      BY <3>1, MineCases
    <3>2. CASE \A d \in Delivery : ~Mine(d)
      BY <3>2, OnlyMineVerifies, BridgeSteps
    <3>3. QED
      BY <3>1, <3>2
  <2>2. delivered' = delivered \/ \E p \in verified : delivered' = delivered \cup {p}
    BY DEF BridgeNext, depositETH, onLzReceive, destAppVars, bridgeVars
  <2>3. QED
    BY <2>1, <2>2
<1>3. QED
  BY <1>1, <1>2, PTL DEF BridgeSpec

\* What AppDest mints is of a deposit whose block is final, however long the worker
\* took and whatever was deposited meanwhile.
THEOREM MintedIsFinal ==
  BridgeSpec => [](\A p \in delivered : sentAt[p] >= 0 /\ sentAt[p] + Confirmations <= block)
<1>1. BridgeSpec => []VerifiedIsFinal
  BY BridgeImplementsWorker, Finality, PTL
<1>2. VerifiedIsFinal /\ delivered \subseteq verified =>
        \A p \in delivered : sentAt[p] >= 0 /\ sentAt[p] + Confirmations <= block
  BY DEF VerifiedIsFinal
<1>3. QED
  BY <1>1, <1>2, DeliveredIsVerified, PTL

-----------------------------------------------------------------------------
(* The books of both apps: what is locked and what is minted are the sums of *)
(* the amounts in the packets sent and delivered.                            *)

Deposit == [user : User, amount : Nat]

Amounts == [p \in Packet |-> message[p].amount]

Sent           == {p \in Packet : sentAt[p] >= 0}
SentBy(u)      == {p \in Sent : message[p].user = u}
DeliveredTo(u) == {p \in delivered : message[p].user = u}

\* Every packet that was sent, and no more than finitely many were, holds a deposit.
Books ==
  /\ balance \in Nat /\ totalLocked \in Nat
  /\ lockedTokens \in [User -> Nat] /\ BETH \in [User -> Nat]
  /\ message \in [Packet -> Deposit \cup {None}]
  /\ \A p \in Sent : message[p] \in Deposit
  /\ IsFiniteSet(Sent)

AmountsAdd ==
  \A u \in User :
    /\ lockedTokens[u] = SumFunctionOnSet(Amounts, SentBy(u))
    /\ BETH[u] = SumFunctionOnSet(Amounts, DeliveredTo(u))

BooksInv == Books /\ LockedIsHeld /\ AmountsAdd

\* What a step may rely on, of the worker and the contract.
DeliveredIsSent == TypeOK /\ VerifiedIsFinal /\ delivered \subseteq verified

LEMMA DeliveredAreSent == DeliveredIsSent => delivered \subseteq Sent /\ verified \subseteq Sent
BY DEF DeliveredIsSent, TypeOK, VerifiedIsFinal, Sent

LEMMA WorkerSendsNothing == WorkerNext => sentAt' = sentAt
BY DEF WorkerNext, NewBlock, listenForPacketSentEvents, Handler, CheckVerified, CheckFinality,
       requestSignature, getZkProof, SendTransaction, Mine, HandlerFails, Restart, Environment,
       sourceVars

LEMMA BooksInit == BridgeInit => BooksInv
<1> SUFFICES ASSUME BridgeInit PROVE BooksInv
  OBVIOUS
<1>1. Sent = {}
  BY DEF BridgeInit, Init, Sent
<1>2. Books
  BY <1>1, FS_EmptySet DEF BridgeInit, Books
<1>3. SumFunction(lockedTokens) = 0
  <2>1. DOMAIN lockedTokens = User /\ \A u \in User : lockedTokens[u] = 0
    BY DEF BridgeInit
  <2> QED
    BY <2>1, AppAssumption, SumZero DEF SumFunction
<1>4. AmountsAdd
  <2> SUFFICES ASSUME NEW u \in User
               PROVE  /\ lockedTokens[u] = SumFunctionOnSet(Amounts, SentBy(u))
                      /\ BETH[u] = SumFunctionOnSet(Amounts, DeliveredTo(u))
    BY DEF AmountsAdd
  <2>1. SentBy(u) = {} /\ DeliveredTo(u) = {} /\ lockedTokens[u] = 0 /\ BETH[u] = 0
    BY <1>1 DEF SentBy, DeliveredTo, BridgeInit
  <2> QED
    BY <2>1, SumEmpty
<1> QED
  BY <1>2, <1>3, <1>4 DEF BooksInv, LockedIsHeld, BridgeInit

\* A deposit adds its amount to the books and its packet to those sent.
LEMMA DepositKeepsBooks ==
  ASSUME BooksInv, DeliveredIsSent, NEW u \in User, NEW value \in Value[u], NEW p \in Packet,
         depositETH(u, value, p)
  PROVE  BooksInv'
<1> DEFINE amount == value - layerZeroFee
<1>1. /\ value \in Nat /\ amount \in Nat /\ layerZeroFee \in Nat
      /\ block \in Nat /\ sentAt \in [Packet -> Int]
      /\ balance \in Nat /\ totalLocked \in Nat /\ lockedTokens \in [User -> Nat]
      /\ BETH \in [User -> Nat] /\ message \in [Packet -> Deposit \cup {None}]
      /\ IsFiniteSet(Sent) /\ IsFiniteSet(User)
  BY AppAssumption DEF depositETH, BooksInv, Books, DeliveredIsSent, TypeOK
<1>2. /\ sentAt[p] = -1 /\ sentAt' = [sentAt EXCEPT ![p] = block]
      /\ message' = [message EXCEPT ![p] = [user |-> u, amount |-> amount]]
      /\ lockedTokens' = [lockedTokens EXCEPT ![u] = @ + amount]
      /\ balance' = balance + value - layerZeroFee
      /\ totalLocked' = totalLocked + amount
      /\ delivered' = delivered /\ BETH' = BETH
  BY DEF depositETH, SendPacket, Payload, Locked, destAppVars
<1> HIDE DEF amount
<1>3. p \notin Sent /\ Sent' = Sent \cup {p} /\ p \notin delivered
  BY <1>1, <1>2, DeliveredAreSent DEF Sent
<1>4. IsFiniteSet(Sent')
  BY <1>1, <1>3, FS_AddElement
<1>5. /\ message'[p] = [user |-> u, amount |-> amount]
      /\ \A q \in Packet \ {p} : message'[q] = message[q]
  BY <1>1, <1>2
<1>6. Books'
  <2>1. message' \in [Packet -> Deposit \cup {None}]
    BY <1>1, <1>2 DEF Deposit
  <2>2. \A q \in Sent' : message'[q] \in Deposit
    BY <1>1, <1>3, <1>5 DEF BooksInv, Books, Deposit, Sent
  <2>3. lockedTokens' \in [User -> Nat]
    BY <1>1, <1>2
  <2>4. balance' \in Nat /\ totalLocked' \in Nat
    BY <1>1, <1>2 DEF amount
  <2> QED
    BY <2>1, <2>2, <2>3, <2>4, <1>1, <1>2, <1>4 DEF Books
<1>7. LockedIsHeld'
  <2>1. DOMAIN lockedTokens = User /\ DOMAIN lockedTokens' = User
    BY <1>1, <1>2
  <2>2. /\ lockedTokens'[u] = lockedTokens[u] + amount
        /\ \A v \in User \ {u} : lockedTokens'[v] = lockedTokens[v]
        /\ \A v \in User : lockedTokens[v] \in Int
    BY <1>1, <1>2
  <2>3. SumFunctionOnSet(lockedTokens', User) = SumFunctionOnSet(lockedTokens, User) + amount
    BY <2>2, <1>1, SumUpdate
  <2>4. SumFunction(lockedTokens)' = SumFunction(lockedTokens) + amount
    BY <2>1, <2>3 DEF SumFunction
  <2>5. balance = totalLocked /\ totalLocked = SumFunction(lockedTokens)
    BY DEF BooksInv, LockedIsHeld
  <2>6. balance' = totalLocked'
    BY <2>5, <1>1, <1>2 DEF amount
  <2> QED
    BY <2>4, <2>5, <2>6, <1>2 DEF LockedIsHeld
<1>8. AmountsAdd'
  <2>1. \A q \in Packet \ {p} : Amounts'[q] = Amounts[q]
    BY <1>5 DEF Amounts
  <2>2. Amounts'[p] = amount
    BY <1>5 DEF Amounts
  <2>3. \A q \in Sent : Amounts[q] \in Nat /\ Amounts'[q] = Amounts[q]
    BY <2>1, <1>3 DEF BooksInv, Books, Sent, Deposit, Amounts
  <2> SUFFICES ASSUME NEW v \in User
               PROVE  /\ lockedTokens'[v] = SumFunctionOnSet(Amounts', SentBy(v)')
                      /\ BETH'[v] = SumFunctionOnSet(Amounts', DeliveredTo(v)')
    BY DEF AmountsAdd
  <2>4. /\ lockedTokens[v] = SumFunctionOnSet(Amounts, SentBy(v))
        /\ BETH[v] = SumFunctionOnSet(Amounts, DeliveredTo(v))
    BY DEF BooksInv, AmountsAdd
  <2>5. IsFiniteSet(SentBy(v)) /\ SentBy(v) \subseteq Sent /\ p \notin SentBy(v)
    BY <1>1, <1>3, FS_Subset DEF SentBy
  <2>6. IsFiniteSet(DeliveredTo(v)) /\ DeliveredTo(v) \subseteq Sent
    <3>1. DeliveredTo(v) \subseteq Sent
      BY DeliveredAreSent DEF DeliveredTo
    <3> QED
      BY <3>1, <1>1, FS_Subset
  <2>7. SumFunctionOnSet(Amounts', SentBy(v)) = SumFunctionOnSet(Amounts, SentBy(v))
    BY <2>3, <2>5, SumCongruent
  <2>8. SumFunctionOnSet(Amounts', DeliveredTo(v)) = SumFunctionOnSet(Amounts, DeliveredTo(v))
    BY <2>3, <2>6, SumCongruent
  <2>9. DeliveredTo(v)' = DeliveredTo(v)
    BY <1>2, <1>3, <1>5, <2>6 DEF DeliveredTo, Sent
  <2>10. CASE v = u
    <3>1. SentBy(v)' = SentBy(v) \cup {p}
      BY <2>10, <1>3, <1>5 DEF SentBy, Sent
    <3>2. \A q \in SentBy(v) \cup {p} : Amounts'[q] \in Int
      BY <2>2, <2>3, <2>5, <1>1
    <3>3. SumFunctionOnSet(Amounts', SentBy(v) \cup {p})
            = amount + SumFunctionOnSet(Amounts', SentBy(v))
      BY <3>2, <2>2, <2>5, SumAdd
    <3>4. lockedTokens'[v] = lockedTokens[v] + amount /\ lockedTokens[v] \in Nat
      BY <2>10, <1>1, <1>2
    <3> QED
      BY <3>1, <3>3, <3>4, <2>4, <2>7, <2>8, <2>9, <1>1, <1>2
  <2>11. CASE v # u
    <3>1. SentBy(v)' = SentBy(v)
      BY <2>11, <1>3, <1>5 DEF SentBy, Sent
    <3>2. lockedTokens'[v] = lockedTokens[v]
      BY <2>11, <1>1, <1>2
    <3> QED
      BY <3>1, <3>2, <2>4, <2>7, <2>8, <2>9, <1>2
  <2> QED
    BY <2>10, <2>11
<1> QED
  BY <1>6, <1>7, <1>8 DEF BooksInv

\* A delivery adds a deposit that was not delivered before.
LEMMA DeliveryKeepsBooks ==
  ASSUME BooksInv, DeliveredIsSent, NEW p \in Packet, onLzReceive(p)
  PROVE  BooksInv'
<1>1. /\ UNCHANGED <<balance, totalLocked, lockedTokens, message, sentAt>>
      /\ delivered' = delivered \cup {p} /\ p \notin delivered /\ p \in Sent
      /\ BETH' = [BETH EXCEPT ![message[p].user] = @ + message[p].amount]
  BY DeliveredAreSent DEF onLzReceive, vars, sourceVars, sourceAppVars
<1>2. /\ message[p].user \in User /\ message[p].amount \in Nat /\ BETH \in [User -> Nat]
      /\ IsFiniteSet(Sent)
  BY <1>1 DEF BooksInv, Books, Deposit
<1>3. Sent' = Sent /\ Amounts' = Amounts
  BY <1>1 DEF Sent, Amounts
<1>4. Books' /\ LockedIsHeld'
  BY <1>1, <1>2, <1>3 DEF BooksInv, Books, LockedIsHeld
<1>5. AmountsAdd'
  <2> SUFFICES ASSUME NEW v \in User
               PROVE  /\ lockedTokens'[v] = SumFunctionOnSet(Amounts', SentBy(v)')
                      /\ BETH'[v] = SumFunctionOnSet(Amounts', DeliveredTo(v)')
    BY DEF AmountsAdd
  <2>1. /\ lockedTokens[v] = SumFunctionOnSet(Amounts, SentBy(v))
        /\ BETH[v] = SumFunctionOnSet(Amounts, DeliveredTo(v))
    BY DEF BooksInv, AmountsAdd
  <2>2. SentBy(v)' = SentBy(v)
    BY <1>1, <1>3 DEF SentBy
  <2>3. IsFiniteSet(DeliveredTo(v)) /\ DeliveredTo(v) \subseteq Sent /\ p \notin DeliveredTo(v)
    <3>1. DeliveredTo(v) \subseteq Sent
      BY DeliveredAreSent DEF DeliveredTo
    <3> QED
      BY <3>1, <1>1, <1>2, FS_Subset DEF DeliveredTo
  <2>4. CASE message[p].user = v
    <3>1. DeliveredTo(v)' = DeliveredTo(v) \cup {p}
      BY <2>4, <1>1 DEF DeliveredTo
    <3>2. Amounts[p] = message[p].amount /\ \A q \in DeliveredTo(v) \cup {p} : Amounts[q] \in Int
      BY <1>1, <1>2, <2>3 DEF BooksInv, Books, Sent, Deposit, Amounts
    <3>3. SumFunctionOnSet(Amounts, DeliveredTo(v) \cup {p})
            = message[p].amount + SumFunctionOnSet(Amounts, DeliveredTo(v))
      BY <3>2, <2>3, SumAdd
    <3>4. BETH'[v] = BETH[v] + message[p].amount /\ BETH[v] \in Nat
      BY <2>4, <1>1, <1>2
    <3> QED
      BY <3>1, <3>3, <3>4, <2>1, <2>2, <1>1, <1>2, <1>3
  <2>5. CASE message[p].user # v
    <3>1. DeliveredTo(v)' = DeliveredTo(v)
      BY <2>5, <1>1 DEF DeliveredTo
    <3>2. BETH'[v] = BETH[v]
      BY <2>5, <1>1, <1>2
    <3> QED
      BY <3>1, <3>2, <2>1, <2>2, <1>1, <1>3
  <2> QED
    BY <2>4, <2>5
<1> QED
  BY <1>4, <1>5 DEF BooksInv

\* The worker's steps are not about the apps.
LEMMA WorkerKeepsBooks ==
  ASSUME BooksInv, sentAt' = sentAt, UNCHANGED <<sourceAppVars, destAppVars>>
  PROVE  BooksInv'
BY DEF BooksInv, Books, LockedIsHeld, AmountsAdd, Sent, SentBy, DeliveredTo, Amounts,
       sourceAppVars, destAppVars

LEMMA BooksHold == BridgeSpec => []BooksInv
<1>1. BooksInv /\ DeliveredIsSent /\ [BridgeNext]_bridgeVars => BooksInv'
  <2> SUFFICES ASSUME BooksInv, DeliveredIsSent, [BridgeNext]_bridgeVars PROVE BooksInv'
    OBVIOUS
  <2>1. ASSUME NEW u \in User, NEW value \in Value[u], NEW p \in Packet, depositETH(u, value, p)
        PROVE  BooksInv'
    BY <2>1, DepositKeepsBooks
  <2>2. ASSUME NEW p \in Packet, onLzReceive(p)
        PROVE  BooksInv'
    BY <2>2, DeliveryKeepsBooks
  <2>3. CASE WorkerNext /\ UNCHANGED <<sourceAppVars, destAppVars>>
    BY <2>3, WorkerKeepsBooks, WorkerSendsNothing
  <2>4. CASE UNCHANGED bridgeVars
    <3>1. sentAt' = sentAt /\ UNCHANGED <<sourceAppVars, destAppVars>>
      BY <2>4 DEF bridgeVars, vars, sourceVars
    <3> QED
      BY <3>1, WorkerKeepsBooks
  <2> QED
    BY <2>1, <2>2, <2>3, <2>4 DEF BridgeNext
<1>2. BridgeSpec => []TypeOK /\ []VerifiedIsFinal
  BY BridgeImplementsWorker, TypeCorrect, Finality, PTL
<1>3. TypeOK /\ VerifiedIsFinal /\ delivered \subseteq verified => DeliveredIsSent
  BY DEF DeliveredIsSent
<1> QED
  BY <1>1, <1>2, <1>3, BooksInit, DeliveredIsVerified, PTL DEF BridgeSpec

\* AppSource's books agree after every deposit, for any users, amounts and fee.
THEOREM BooksAgree == BridgeSpec => []LockedIsHeld
<1>1. BooksInv => LockedIsHeld
  BY DEF BooksInv
<1> QED
  BY <1>1, BooksHold, PTL

\* No user holds more BETH than the same user's deposits in final blocks add up to,
\* nor than AppSource has locked for this user, whatever the worker retried.
THEOREM MintedAreBacked == BridgeSpec => []MintedIsBacked
<1>1. BooksInv /\ DeliveredIsSent => MintedIsBacked
  <2> SUFFICES ASSUME BooksInv, DeliveredIsSent, NEW u \in User
               PROVE  /\ BETH[u] <= SumFunction([p \in FinalPackets(u) |-> message[p].amount])
                      /\ BETH[u] <= lockedTokens[u]
    BY DEF MintedIsBacked
  <2> DEFINE f == [p \in FinalPackets(u) |-> message[p].amount]
  <2>1. DeliveredTo(u) \subseteq FinalPackets(u) /\ FinalPackets(u) \subseteq SentBy(u)
    BY DEF DeliveredIsSent, VerifiedIsFinal, TypeOK, DeliveredTo, FinalPackets, SentBy, Sent
  <2>2. IsFiniteSet(SentBy(u)) /\ IsFiniteSet(FinalPackets(u))
    <3>1. IsFiniteSet(SentBy(u))
      BY FS_Subset DEF BooksInv, Books, SentBy
    <3> QED
      BY <3>1, <2>1, FS_Subset
  <2>3. \A p \in SentBy(u) : Amounts[p] \in Nat
    BY DEF BooksInv, Books, SentBy, Sent, Deposit, Amounts
  <2>4. SumFunction(f) = SumFunctionOnSet(Amounts, FinalPackets(u))
    <3>1. DOMAIN f = FinalPackets(u) /\ \A p \in FinalPackets(u) : f[p] = Amounts[p]
      BY <2>1 DEF Amounts, SentBy, Sent
    <3> HIDE DEF f
    <3> QED
      BY <3>1, <2>2, SumCongruent DEF SumFunction
  <2>5. /\ SumFunctionOnSet(Amounts, DeliveredTo(u)) <= SumFunctionOnSet(Amounts, FinalPackets(u))
        /\ SumFunctionOnSet(Amounts, DeliveredTo(u)) <= SumFunctionOnSet(Amounts, SentBy(u))
    BY <2>1, <2>2, <2>3, SumGrows
  <2>6. /\ BETH[u] = SumFunctionOnSet(Amounts, DeliveredTo(u))
        /\ lockedTokens[u] = SumFunctionOnSet(Amounts, SentBy(u))
    BY DEF BooksInv, AmountsAdd
  <2> QED
    BY <2>4, <2>5, <2>6
<1>2. BridgeSpec => []TypeOK /\ []VerifiedIsFinal
  BY BridgeImplementsWorker, TypeCorrect, Finality, PTL
<1>3. TypeOK /\ VerifiedIsFinal /\ delivered \subseteq verified => DeliveredIsSent
  BY DEF DeliveredIsSent
<1> QED
  BY <1>1, <1>2, <1>3, BooksHold, DeliveredIsVerified, PTL

\* The bridge is solvent: the BETH of all users together is never more than the ETH
\* that AppSource holds.
THEOREM Solvency == BridgeSpec => [](SumFunction(BETH) <= balance)
<1>1. BooksInv /\ MintedIsBacked => SumFunction(BETH) <= balance
  <2> SUFFICES ASSUME BooksInv, MintedIsBacked PROVE SumFunction(BETH) <= balance
    OBVIOUS
  <2>1. /\ DOMAIN BETH = User /\ DOMAIN lockedTokens = User /\ IsFiniteSet(User)
        /\ balance = SumFunction(lockedTokens)
    BY AppAssumption DEF BooksInv, Books, LockedIsHeld
  <2>2. \A u \in User : BETH[u] \in Int /\ lockedTokens[u] \in Int /\ BETH[u] <= lockedTokens[u]
    <3>1. BETH \in [User -> Nat] /\ lockedTokens \in [User -> Nat]
      BY DEF BooksInv, Books
    <3>2. \A u \in User : BETH[u] <= lockedTokens[u]
      BY DEF MintedIsBacked
    <3> QED
      BY <3>1, <3>2
  <2>3. SumFunctionOnSet(BETH, User) <= SumFunctionOnSet(lockedTokens, User)
    BY <2>1, <2>2, SumDominated
  <2> QED
    BY <2>1, <2>3 DEF SumFunction
<1> QED
  BY <1>1, BooksHold, MintedAreBacked, PTL

-----------------------------------------------------------------------------
(* The bridge is an escrow.                                                  *)

LEMMA WorkerBlocks == WorkerNext => block' = block \/ block' = block + 1
BY DEF WorkerNext, NewBlock, listenForPacketSentEvents, Handler, CheckVerified, CheckFinality,
       requestSignature, getZkProof, SendTransaction, Mine, HandlerFails, Restart, Environment,
       sourceVars

\* What the status of a packet depends on.
LEMMA StatusFacts ==
  ASSUME DeliveredIsSent, NEW p \in Packet
  PROVE  /\ sentAt[p] \in Int /\ block \in Nat /\ Confirmations \in Nat \ {0}
         /\ p \in delivered => sentAt[p] >= 0
BY DeliveredAreSent, WorkerAssumption DEF DeliveredIsSent, TypeOK, Sent

LEMMA DepositLocks ==
  ASSUME DeliveredIsSent, NEW u \in User, NEW value \in Value[u], NEW p \in Packet,
         depositETH(u, value, p)
  PROVE  Bridge!Next
<1>1. /\ sentAt[p] = -1 /\ sentAt' = [sentAt EXCEPT ![p] = block] /\ block' = block
      /\ delivered' = delivered /\ sentAt \in [Packet -> Int]
  BY DEF depositETH, SendPacket, destAppVars, DeliveredIsSent, TypeOK
<1>2. DepositStatus(p) = "none"
  BY <1>1 DEF DepositStatus
<1>3. DepositStatus(p)' = "locked"
  BY <1>1, StatusFacts DEF DepositStatus
<1>4. \A q \in Packet \ {p} : DepositStatus(q)' = DepositStatus(q)
  BY <1>1 DEF DepositStatus
<1>5. [q \in Packet |-> DepositStatus(q)]' =
        [[q \in Packet |-> DepositStatus(q)] EXCEPT ![p] = "locked"]
  BY <1>3, <1>4
<1>6. value \in Nat /\ value > layerZeroFee /\ layerZeroFee \in Nat
  BY AppAssumption DEF depositETH
<1>7. value - layerZeroFee \in
        {v - layerZeroFee : v \in {w \in UNION {Value[x] : x \in User} : w > layerZeroFee}}
  BY <1>6
<1>8. Bridge!Lock(p, u, value - layerZeroFee)
  BY <1>2, <1>5 DEF Bridge!Lock, depositETH, Payload, destAppVars
<1> QED
  BY <1>7, <1>8 DEF Bridge!Next

LEMMA DeliveryMints ==
  ASSUME DeliveredIsSent, NEW p \in Packet, onLzReceive(p)
  PROVE  Bridge!Next
<1>1. /\ sentAt' = sentAt /\ block' = block /\ delivered' = delivered \cup {p}
      /\ p \notin delivered /\ p \in verified
  BY DEF onLzReceive, vars, sourceVars
<1>2. sentAt[p] >= 0 /\ sentAt[p] + Confirmations <= block
  BY <1>1 DEF DeliveredIsSent, VerifiedIsFinal
<1>3. DepositStatus(p) = "final" /\ DepositStatus(p)' = "minted"
  BY <1>1, <1>2, StatusFacts DEF DepositStatus
<1>4. \A q \in Packet \ {p} : DepositStatus(q)' = DepositStatus(q)
  BY <1>1 DEF DepositStatus
<1>5. [q \in Packet |-> DepositStatus(q)]' =
        [[q \in Packet |-> DepositStatus(q)] EXCEPT ![p] = "minted"]
  BY <1>3, <1>4
<1>6. Bridge!Mint(p)
  BY <1>3, <1>5 DEF Bridge!Mint, onLzReceive, sourceAppVars
<1> QED
  BY <1>6 DEF Bridge!Next

LEMMA WorkerFinalizes ==
  ASSUME DeliveredIsSent, WorkerNext, UNCHANGED <<sourceAppVars, destAppVars>>
  PROVE  Bridge!Next
<1>1. sentAt' = sentAt /\ delivered' = delivered /\ (block' = block \/ block' = block + 1)
  BY WorkerSendsNothing, WorkerBlocks DEF destAppVars
<1>2. PICK D \in SUBSET Packet :
        \A p \in Packet : p \in D <=> DepositStatus(p) = "locked" /\ DepositStatus(p)' = "final"
  <2>1. {p \in Packet : DepositStatus(p) = "locked" /\ DepositStatus(p)' = "final"} \in SUBSET Packet
    OBVIOUS
  <2> QED
    BY <2>1
<1>3. ASSUME NEW p \in Packet
      PROVE  DepositStatus(p)' = IF p \in D THEN "final" ELSE DepositStatus(p)
  <2>1. \/ DepositStatus(p)' = DepositStatus(p)
        \/ DepositStatus(p) = "locked" /\ DepositStatus(p)' = "final"
    <3>1. /\ sentAt[p] \in Int /\ block \in Nat /\ Confirmations \in Nat
          /\ sentAt'[p] = sentAt[p] /\ (block' = block \/ block' = block + 1)
      BY <1>1, StatusFacts
    <3> QED
      BY <1>1, <3>1 DEF DepositStatus
  <2> QED
    BY <2>1, <1>2
<1>4. [p \in Packet |-> DepositStatus(p)]' =
        [p \in Packet |-> IF p \in D THEN "final" ELSE [q \in Packet |-> DepositStatus(q)][p]]
  BY <1>3
<1>5. Bridge!Finalize(D)
  BY <1>2, <1>4 DEF Bridge!Finalize, sourceAppVars, destAppVars
<1> QED
  BY <1>5 DEF Bridge!Next

\* However a deposit travels, through handlers that come too early, rival transactions,
\* expired epochs and restarts of the worker, what users see is an escrow: depositETH
\* locks, the source chain finalizes, onLzReceive mints, each deposit once and in this order.
THEOREM BridgeIsEscrow == BridgeSpec => EscrowSpec
<1>1. BridgeInit => Bridge!Init
  <2> SUFFICES ASSUME BridgeInit PROVE Bridge!Init
    OBVIOUS
  <2>1. [p \in Packet |-> DepositStatus(p)] = [p \in Packet |-> "none"]
    BY DEF BridgeInit, Init, DepositStatus
  <2> QED
    BY <2>1 DEF BridgeInit, Bridge!Init
<1>2. DeliveredIsSent /\ [BridgeNext]_bridgeVars => [Bridge!Next]_(Bridge!vars)
  <2> SUFFICES ASSUME DeliveredIsSent, [BridgeNext]_bridgeVars
               PROVE  Bridge!Next \/ UNCHANGED Bridge!vars
    OBVIOUS
  <2>1. CASE UNCHANGED bridgeVars
    BY <2>1 DEF bridgeVars, vars, sourceVars, sourceAppVars, destAppVars, Bridge!vars, DepositStatus
  <2> QED
    BY <2>1, DepositLocks, DeliveryMints, WorkerFinalizes DEF BridgeNext
<1>3. BridgeSpec => []TypeOK /\ []VerifiedIsFinal
  BY BridgeImplementsWorker, TypeCorrect, Finality, PTL
<1>4. TypeOK /\ VerifiedIsFinal /\ delivered \subseteq verified => DeliveredIsSent
  BY DEF DeliveredIsSent
<1> QED
  BY <1>1, <1>2, <1>3, <1>4, DeliveredIsVerified, PTL DEF BridgeSpec, EscrowSpec, Bridge!Spec
=============================================================================
