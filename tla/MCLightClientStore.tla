------------------------- MODULE MCLightClientStore -------------------------
(* Instance of LightClientStore for TLC: periods of three epochs of two      *)
(* slots. The checkpoints at slots 6, the first of its period, and 20 are     *)
(* missed and the blocks before them finalized; finality stalls at slot 8,    *)
(* and at slot 22 for longer than a period.                                   *)
EXTENDS LightClientStore

Period == [s \in Slot |-> s \div 6]

Finalized == [a \in Slot |-> 
  CASE a < 4 -> 0 [] a \in 4..5 -> 2 [] a \in 6..7 -> 4 [] a \in 8..9 -> 5
    [] a \in 10..13 -> 8 [] a \in 14..15 -> 12 [] a \in 16..17 -> 14
    [] a \in 18..19 -> 16 [] a \in 20..21 -> 18
    [] a \in 22..23 -> 19 [] OTHER -> 22]

Checkpoints == {s \in Slot : s % 2 = 0}

\* Three users; all of them lock tokens only in a window of ten blocks.
Locked == [b \in Slot |->
  CASE b = 2 -> {1} [] b = 4 -> {2, 3} [] b = 7 -> {3} [] b = 12 -> {1, 2} [] b = 18 -> {1}
    [] OTHER -> {}]
=============================================================================
