----------------------------- MODULE MCAppBridge -----------------------------
(* Instance of AppBridge for TLC: two users whose deposits differ, and values  *)
(* at and below the fee.                                                      *)
EXTENDS AppBridge

CONSTANTS u1, u2

Users  == {u1, u2}
Values == [u \in Users |-> IF u = u1 THEN {0, 1, 2} ELSE {1, 3}]
Nonces == 1..2
=============================================================================
