------------------------------ MODULE AppBridge ------------------------------
(***************************************************************************)
(* src/layerzero/app: a deposit in AppSource locks ETH and sends a packet,  *)
(* which the DVN worker has verified on the destination chain, where the     *)
(* endpoint (external) delivers it to AppDest, which mints BETH. Amounts are  *)
(* in units of the endpoint's fee.                                           *)
(***************************************************************************)
EXTENDS DvnWorker, FiniteSets, Functions

CONSTANTS
  User,
  Value,        \* Value[u]: what user u may send with a deposit
  layerZeroFee

ASSUME AppAssumption ==
  /\ Packet \subseteq Nat            \* a packet is named by its nonce
  /\ IsFiniteSet(User)              \* a user is named by an address
  /\ Value \in [User -> SUBSET Nat] /\ layerZeroFee \in Nat

VARIABLES
  balance,       \* ETH that AppSource holds
  totalLocked,
  lockedTokens,
  message,       \* the payload of each packet: user and amount
  delivered,     \* packets handed to AppDest
  BETH           \* minted balances

sourceAppVars == <<balance, totalLocked, lockedTokens, message>>
destAppVars == <<delivered, BETH>>
bridgeVars == <<vars, sourceAppVars, destAppVars>>

BridgeInit ==
  /\ Init
  /\ balance = 0 /\ totalLocked = 0 /\ lockedTokens = [u \in User |-> 0]
  /\ message = [p \in Packet |-> None]
  /\ delivered = {} /\ BETH = [u \in User |-> 0]

\* The endpoint numbers the packets.
NextPacket(p) == \A q \in Packet : sentAt[q] = -1 <=> q >= p

\* Mutant: the payload carries what was sent, not what is locked.
PayloadWithFee(u, value) == [user |-> u, amount |-> value]

Payload(u, value) == [user |-> u, amount |-> value - layerZeroFee]

\* Mutant: the fee is locked as well.
LockedWithFee(value) == totalLocked + value

Locked(value) == totalLocked + (value - layerZeroFee)

\* A deposit that is not above the fee, or whose send reverts, changes nothing. The
\* transaction is one step: calls made from within the endpoint's send are left out.
depositETH(u, value, p) ==
  /\ value > 0 /\ value > layerZeroFee
  /\ totalLocked' = Locked(value)
  /\ NextPacket(p) /\ SendPacket(p)
  /\ message' = [message EXCEPT ![p] = Payload(u, value)]
  /\ lockedTokens' = [lockedTokens EXCEPT ![u] = @ + (value - layerZeroFee)]
  /\ balance' = balance + value - layerZeroFee
  /\ UNCHANGED destAppVars

\* The endpoint calls AppDest once for each packet that the DVN has verified.
onLzReceive(p) ==
  /\ p \in verified \ delivered
  /\ delivered' = delivered \cup {p}
  /\ BETH' = [BETH EXCEPT ![message[p].user] = @ + message[p].amount]
  /\ UNCHANGED <<vars, sourceAppVars>>

BridgeNext ==
  \/ \E u \in User : \E value \in Value[u], p \in Packet : depositETH(u, value, p)
  \/ WorkerNext /\ UNCHANGED <<sourceAppVars, destAppVars>>
  \/ \E p \in Packet : onLzReceive(p)

\* The worker's event loop runs every handler whose await has been answered.
BridgeSpec ==
  /\ BridgeInit /\ [][BridgeNext]_bridgeVars
  /\ \A d \in Delivery : WF_vars(Handler(d))

-----------------------------------------------------------------------------
(* Properties.                                                              *)

\* AppSource's books agree, whoever deposited and however much went on fees: what
\* it holds is totalLocked, and the sum of lockedTokens.
LockedIsHeld ==
  /\ balance = totalLocked
  /\ totalLocked = SumFunction(lockedTokens)

\* The packets of a user's deposits that are in final blocks.
FinalPackets(u) ==
  {p \in Packet : sentAt[p] >= 0 /\ sentAt[p] + Confirmations <= block /\ message[p].user = u}

\* BETH in a user's hands is backed by what AppSource holds for the same user, sent
\* in packets of final blocks: through the worker's handlers and retries, the
\* contract's checks and the delivery, nothing is minted twice or for a deposit that
\* may be undone.
MintedIsBacked ==
  \A u \in User :
    /\ BETH[u] <= SumFunction([p \in FinalPackets(u) |-> message[p].amount])
    /\ BETH[u] <= lockedTokens[u]

\* How far a deposit has come: DVN and delivery are an implementation detail.
DepositStatus(p) ==
  IF sentAt[p] < 0 THEN "none"
  ELSE IF p \in delivered THEN "minted"
  ELSE IF sentAt[p] + Confirmations <= block THEN "final"
  ELSE "locked"

\* Apps, worker, contract and chains together implement an escrow: whatever handlers,
\* rival transactions and restarts do between a deposit and its delivery, each deposit is
\* minted at most once, after its block is final, to the user and in the amount locked.
Bridge == INSTANCE Escrow WITH
            Deposit <- Packet,
            Amount <- {value - layerZeroFee : value \in
                         {v \in UNION {Value[u] : u \in User} : v > layerZeroFee}},
            status <- [p \in Packet |-> DepositStatus(p)],
            claim <- message, locked <- lockedTokens, minted <- BETH

EscrowSpec == Bridge!Spec

-----------------------------------------------------------------------------
(* What the end-to-end test says and the contract does not do.              *)

\* "assertEq(appSource.getTLockedBalance(), 1 ether, ...)" after a deposit of 1 ether,
\* and 1 ether of bETH at the end: AppSource holds all that was sent with a deposit,
\* and the packet carries it.
DepositIsWhole ==
  [][\A u \in User : \A value \in Value[u], p \in Packet :
       depositETH(u, value, p) =>
         balance' = balance + value /\ message'[p].amount = value]_bridgeVars
=============================================================================
