---------------------------- MODULE SymbioticDvn ----------------------------
(***************************************************************************)
(* src/layerzero/dvn/SymbioticDvn.sol: the verification contract on the     *)
(* destination chain, with the Symbiotic settlement (external) that commits *)
(* validator set headers epoch by epoch.                                    *)
(***************************************************************************)
EXTENDS Integers, Sequences

CONSTANTS
  Packet,               \* packet ids
  MaxEpoch,             \* bound on the epochs the settlement commits
  MaxTime,              \* bound on the destination chain's clock
  VERIFICATION_EXPIRY,  \* seconds a signature outlives its epoch
  ZkAccepted            \* kinds of zk proof the deployed verifier accepts

ASSUME DvnAssumption ==
  /\ MaxEpoch \in Nat \ {0}
  /\ MaxTime \in Nat \ {0}
  /\ VERIFICATION_EXPIRY \in Nat \ {0}

Epoch == 1..MaxEpoch

\* A quorum signature as the relay hands it out: made by the operators for one
\* epoch, or the all-zero mock that verifies nowhere.
Signature == [real : BOOLEAN, epoch : Epoch]

ZkProof == {"golem", "stub"}

VARIABLES
  verified,     \* the contract's mapping, as the set of packets mapped to true
  verifiedLog,  \* Verified events, in order
  now,          \* block.timestamp
  capture       \* capture timestamp of each committed epoch, 0 if none

dvnVars == <<verified, verifiedLog, now, capture>>

DvnInit ==
  /\ verified = {}
  /\ verifiedLog = <<>>
  /\ now = 1
  /\ capture = [e \in Epoch |-> IF e = 1 THEN 1 ELSE 0]

\* getCaptureTimestampFromValSetHeaderAt: 0 for an epoch not committed.
CaptureTimestamp(e) == IF e \in Epoch THEN capture[e] ELSE 0

\* Mutant: the boundary second still counts as valid.
EpochExpiredLate(e) ==
  CaptureTimestamp(e + 1) > 0 /\ now > CaptureTimestamp(e + 1) + VERIFICATION_EXPIRY

EpochExpired(e) ==
  CaptureTimestamp(e + 1) > 0 /\ now >= CaptureTimestamp(e + 1) + VERIFICATION_EXPIRY

\* The signature covers H under the quorum of the epoch it was made for.
QuorumValid(sig) == sig.real /\ CaptureTimestamp(sig.epoch) > 0

\* Mutant: the contract relies on its callers to look at verified first.
AcceptsUnguarded(p, sig, zk) ==
  ~EpochExpired(sig.epoch) /\ QuorumValid(sig) /\ zk \in ZkAccepted

\* The checks of submitVerification; a failed one reverts the transaction.
Accepts(p, sig, zk) ==
  /\ p \notin verified
  /\ ~EpochExpired(sig.epoch)
  /\ QuorumValid(sig)
  /\ zk \in ZkAccepted

submitVerification(p, sig, zk) ==
  /\ IF Accepts(p, sig, zk)
       THEN /\ verified' = verified \cup {p}
            /\ verifiedLog' = Append(verifiedLog, [packet |-> p, epoch |-> sig.epoch, at |-> now])
       ELSE UNCHANGED <<verified, verifiedLog>>
  /\ UNCHANGED <<now, capture>>

\* External: the settlement commits the next epoch's header.
CommitEpoch(e) ==
  /\ capture[e] = 0
  /\ e > 1 => capture[e - 1] > 0
  /\ capture' = [capture EXCEPT ![e] = now]
  /\ UNCHANGED <<verified, verifiedLog, now>>

TimePasses ==
  /\ now < MaxTime
  /\ now' = now + 1
  /\ UNCHANGED <<verified, verifiedLog, capture>>
=============================================================================
