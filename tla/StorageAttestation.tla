------------------------- MODULE StorageAttestation -------------------------
(***************************************************************************)
(* What a proof says about the source contract: rpcs/execution/http.rs,     *)
(* addresses_attestation_pair_to_storage_slots and                          *)
(* _prepare_consensus_mpt_proof_inputs, collect the storage slots of the    *)
(* users who locked tokens in the window, and mpt.rs,                       *)
(* verify_storage_slot_proofs, checks them against an execution state root   *)
(* and folds them into a Merkle root. Blocks are named by their number, and *)
(* a state root by the block it is the root of.                             *)
(***************************************************************************)
EXTENDS Integers, FiniteSets

CONSTANTS
  Depositors,     \* Depositors[b]: the users of the TokensLocked events of block b
  MAX_TREE_DEPTH, \* of nori_hash's Merkle tree
  None

\* A user is an address, which is a number and sorted as one. What a tree is padded
\* with is the leaf of no storage slot.
ASSUME AttestationAssumption ==
  /\ \A b \in DOMAIN Depositors : Depositors[b] \subseteq Nat /\ IsFiniteSet(Depositors[b])
  /\ None \notin [user : Nat, value : Nat]

\* The users of the TokensLocked events of these blocks: the events are keyed by
\* storage slot, so each user counts once.
storage_slots(blocks) == UNION {Depositors[b] : b \in blocks}

\* The blocks of a window whose events a provider answers with. It is asked for one
\* chunk after another while its chain grows: of each it may lack the newest blocks.
EventReads(first, last) ==
  {first..last \ missed : missed \in SUBSET {b \in first..last : Depositors[b] # {}}}

\* lockedTokens[user] as block b leaves it, in deposits of one unit.
lockedTokens(user, b) == Cardinality({c \in DOMAIN Depositors : c <= b /\ user \in Depositors[c]})

\* eth_getProof at block b: the value of every slot asked for, in any order.
Answers(users, b) ==
  {[i \in 1..Cardinality(users) |-> [user |-> order[i], value |-> lockedTokens(order[i], b)]] :
     order \in {o \in [1..Cardinality(users) -> users] : users = {o[i] : i \in DOMAIN o}}}

\* storage_slots.sort_by, on the users' addresses.
sorted(slots) ==
  [i \in DOMAIN slots |-> CHOOSE s \in {slots[j] : j \in DOMAIN slots} :
     Cardinality({j \in DOMAIN slots : slots[j].user < s.user}) = i - 1]

\* compute_merkle_tree_depth_and_size: the leaves of a full tree of depth d, and the
\* least depth that holds n leaves.
padded_size[d \in Nat] == IF d = 0 THEN 1 ELSE 2 * padded_size[d - 1]

depth(n) ==
  CHOOSE d \in 0..n : n <= padded_size[d] /\ \A e \in 0..d-1 : padded_size[e] < n

\* MAX_TREE_DEPTH bounds how many users one window can attest.
Fits(leaves) == depth(Cardinality(leaves)) <= MAX_TREE_DEPTH

\* fold_merkle_left: the leaves, in order, padded to a full tree. Poseidon is free
\* of collisions, so a root stands for the leaves under it.
merkle_root(slots) ==
  [i \in 1..padded_size[depth(Cardinality(DOMAIN slots))] |->
     IF i \in DOMAIN slots THEN slots[i] ELSE None]

\* Mutant: the account proof is not checked against the state root.
VerifiesAnyAccount(b, proved, slots) == Fits(DOMAIN slots)

\* verify_storage_slot_proofs against the state root of block b: the account proof
\* of block proved, the size of the tree, and each slot under that account's storage.
Verifies(b, proved, slots) ==
  /\ proved = b
  /\ Fits(DOMAIN slots)
  /\ \A i \in DOMAIN slots : slots[i].value = lockedTokens(slots[i].user, proved)
=============================================================================
