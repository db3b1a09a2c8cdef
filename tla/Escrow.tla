------------------------------- MODULE Escrow -------------------------------
(***************************************************************************)
(* What the bridge promises its users, with no packets, handlers, epochs or  *)
(* transactions: a deposit is locked, its block becomes final, and then its   *)
(* amount is minted to the user who made it, once.                            *)
(***************************************************************************)
EXTENDS Integers

CONSTANTS
  User, Deposit,
  Amount,   \* amounts above the fee, less the fee
  None

VARIABLES
  status,   \* how far each deposit has come
  claim,    \* what each deposit entitles to, and whom
  locked,   \* tokens each user has locked
  minted    \* tokens minted to each user

vars == <<status, claim, locked, minted>>

Init ==
  /\ status = [d \in Deposit |-> "none"]
  /\ claim = [d \in Deposit |-> None]
  /\ locked = [u \in User |-> 0] /\ minted = [u \in User |-> 0]

Lock(d, u, amount) ==
  /\ status[d] = "none"
  /\ status' = [status EXCEPT ![d] = "locked"]
  /\ claim' = [claim EXCEPT ![d] = [user |-> u, amount |-> amount]]
  /\ locked' = [locked EXCEPT ![u] = @ + amount]
  /\ UNCHANGED minted

\* One block may make several deposits final.
Finalize(D) ==
  /\ \A d \in D : status[d] = "locked"
  /\ status' = [d \in Deposit |-> IF d \in D THEN "final" ELSE status[d]]
  /\ UNCHANGED <<claim, locked, minted>>

Mint(d) ==
  /\ status[d] = "final"
  /\ status' = [status EXCEPT ![d] = "minted"]
  /\ minted' = [minted EXCEPT ![claim[d].user] = @ + claim[d].amount]
  /\ UNCHANGED <<claim, locked>>

Next ==
  \/ \E d \in Deposit, u \in User, amount \in Amount : Lock(d, u, amount)
  \/ \E D \in SUBSET Deposit : Finalize(D)
  \/ \E d \in Deposit : Mint(d)

Spec == Init /\ [][Next]_vars
=============================================================================
