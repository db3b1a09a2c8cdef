--------------------------- MODULE WindowEmitter ---------------------------
(***************************************************************************)
(* What the finality change detector promises its client, with no          *)
(* validation actor, no flags and no jobs in flight: an emission looks as   *)
(* if both windows had been computed, atomically, from the inputs that the  *)
(* detector holds at the moment it emits.                                   *)
(***************************************************************************)
EXTENDS Integers

CONSTANTS
  Slot,         \* beacon checkpoint slots
  Hash,         \* light client store hashes
  None          \* absence: Rust's Option::None, or an empty one-place channel

\* A slot with the hash of the store at that slot: FinalityChangeDetectorUpdate.
Update == [slot : Slot, store_hash : Hash]

\* A validated transition, from its input to its expected output.
Window == [input : Update, output : Update]

Dual == [current : Window, next : Window \cup {None}]

\* The next window is not computed when it would start where the current one does.
Filtered(next, slot) == IF next # None /\ next.slot # slot THEN next ELSE None

VARIABLES
  head,         \* input of the current window
  next,         \* input of the next window: expected output of the staged proof
  latest,       \* finality slot accepted last
  output        \* one-place output channel

vars == <<head, next, latest, output>>

Init ==
  /\ head \in Update
  /\ next \in Update \cup {None}
  /\ latest = head.slot
  /\ output = None

Stage(u) ==
  /\ next' = u
  /\ UNCHANGED <<head, latest, output>>

Advance(u) ==
  /\ head' = u
  /\ latest' = u.slot
  /\ next' = Filtered(next, u.slot)
  /\ UNCHANGED output

\* Both windows start at the inputs held now, and each ends ahead of the slot
\* accepted last.
Emit(d) ==
  /\ output = None
  /\ d.current.input = head
  /\ d.current.output.slot > latest
  /\ IF Filtered(next, head.slot) = None
       THEN d.next = None
       ELSE /\ d.next # None
            /\ d.next.input = next
            /\ d.next.output.slot > latest
  /\ output' = d
  /\ latest' = d.current.output.slot
  /\ UNCHANGED <<head, next>>

\* The current window's slot is accepted although nothing is emitted: the next
\* window lagged behind.
Skip(s) ==
  /\ Filtered(next, head.slot) # None
  /\ s > latest
  /\ latest' = s
  /\ UNCHANGED <<head, next, output>>

Take ==
  /\ output # None
  /\ output' = None
  /\ UNCHANGED <<head, next, latest>>

Next ==
  \/ \E u \in Update : Stage(u) \/ Advance(u)
  \/ \E d \in Dual : Emit(d)
  \/ \E s \in Slot : Skip(s)
  \/ Take

Spec == Init /\ [][Next]_vars
=============================================================================
