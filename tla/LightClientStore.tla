-------------------------- MODULE LightClientStore --------------------------
(***************************************************************************)
(* The hash chain of light client stores. rpcs/consensus/mod.rs restores    *)
(* the store whose hash the last proof committed, fetches what the beacon   *)
(* chain has had since, and dry-runs the zk program on it (consensus.rs,    *)
(* consensus_program and consensus_mpt_program); an accepted run yields the *)
(* next slot and store hash. The light client itself is helios (external),  *)
(* and the beacon chain is a constant: how much of it a provider has seen   *)
(* is what varies.                                                          *)
(***************************************************************************)
EXTENDS StorageAttestation

CONSTANTS
  MaxSlot,    \* bound on slots
  period,     \* period[s]: the sync committee period of slot s
  finalized,  \* finalized[a]: the block finalized in the state of block a
  Checkpoint, \* the first slots of epochs
  MAX_REQUEST_LIGHT_CLIENT_UPDATES

Slot == 0..MaxSlot

ASSUME ChainAssumption ==
  /\ MaxSlot \in Nat /\ MAX_REQUEST_LIGHT_CLIENT_UPDATES \in Nat
  /\ period \in [Slot -> Nat] /\ finalized \in [Slot -> Slot]
  /\ \A a, b \in Slot : a <= b => period[a] <= period[b]
  /\ \A a \in Slot \ {0} : finalized[a] < a
  /\ Checkpoint \subseteq Slot /\ DOMAIN Depositors = Slot
  /\ None \notin Nat

VARIABLES
  now,     \* the current slot
  head,    \* the store whose slot and hash the next window starts from
  attempt, \* one provider's run of prepare_consensus_mpt_proof_inputs
  root,    \* the storage slots root of the window that is being proved, if any
  read     \* history: the blocks whose events its users were taken from

windowVars == <<root, read>>
vars == <<now, head, attempt, windowVars>>

-----------------------------------------------------------------------------
(* The light client. A committee is named by the period it serves in.       *)

Store == [slot : Slot, current : Nat, next : Nat \cup {None}]

Update == [attested : Slot, finalized : Slot, signature : Slot,
           next : Nat \cup {None}, majority : BOOLEAN]

\* An update attests the block of slot a, in the slot after. Only one that is
\* signed in the period it attests carries the next committee.
Signed(a, majority, next) ==
  [attested |-> a, finalized |-> finalized[a], signature |-> a + 1,
   next |-> next, majority |-> majority]

\* What slot t may have signed: any block but that of the genesis.
Attested(t) == {a \in Slot \ {0} : a < t}

\* The updates a provider may hold for period p at slot t: which it takes for the
\* best depends on what it has seen, and the best may lack a two-thirds majority.
Updates(p, t) ==
  {Signed(a, m, p + 1) :
     a \in {s \in Attested(t) : period[s] = p /\ period[s + 1] = p}, m \in BOOLEAN}

FinalityUpdates(t) == {Signed(a, m, None) : a \in Attested(t), m \in BOOLEAN}

\* The committee a signature is checked against.
signers(store, u) ==
  IF period[u.signature] = period[store.slot] THEN store.current ELSE store.next

\* verify_update and verify_finality_update at slot t.
Verify(u, t, store) ==
  /\ t >= u.signature /\ u.signature > u.attested /\ u.attested >= u.finalized
  /\ \/ period[u.signature] = period[store.slot]
     \/ store.next # None /\ period[u.signature] = period[store.slot] + 1
  /\ \/ u.attested > store.slot
     \/ store.next = None /\ u.next # None /\ period[u.attested] = period[store.slot]
  /\ signers(store, u) = period[u.signature]

\* apply_update and apply_finality_update. An update may verify and change nothing.
apply_update(store, u) ==
  LET newer  == u.finalized > store.slot
      learns == store.next = None /\ u.next # None /\ period[u.finalized] = period[u.attested]
      moved  == IF newer THEN u.finalized ELSE store.slot
  IN  IF ~(u.majority /\ (newer \/ learns)) THEN store
      ELSE IF store.next = None THEN [slot |-> moved, current |-> store.current, next |-> u.next]
      ELSE IF period[u.finalized] = period[store.slot] + 1
        THEN [slot |-> moved, current |-> store.next, next |-> u.next]
      ELSE [slot |-> moved, current |-> store.current, next |-> store.next]

\* A bootstrap gives the committee of its own period only.
Bootstrap(slot) == [slot |-> slot, current |-> period[slot], next |-> None]

\* Mutant: the store that moved on is returned.
get_store_advanced(store, u) == apply_update(store, u)

\* Mutant: the restored committee replaces the current one.
get_store_swapped(store, u) == [store EXCEPT !.current = apply_update(store, u).next]

\* get_store_with_next_sync_committee: the store keeps its slot.
get_store_with_next_sync_committee(store, u) ==
  [store EXCEPT !.next = apply_update(store, u).next]

\* Mutant: the first update is applied and used up whatever it finalizes.
RestoredAhead(slot, u) == apply_update(Bootstrap(slot), u)

\* prepare_consensus_proof_inputs: whether the first update is used up.
FirstIsBehind(u, slot) == u.finalized < slot

Restored(slot, u) ==
  IF FirstIsBehind(u, slot) THEN apply_update(Bootstrap(slot), u)
  ELSE get_store_with_next_sync_committee(Bootstrap(slot), u)

-----------------------------------------------------------------------------
(* One attempt.                                                             *)

\* Mutant: a store without a next committee passes.
ValidatedUnrecoverable(store) == store.slot > head.slot /\ store.slot \in Checkpoint

\* Validated: progress, to a checkpoint, with a known next committee.
Validated(store) ==
  /\ store.slot > head.slot
  /\ store.slot \in Checkpoint
  /\ store.next # None

\* An attempt with its locals. The last one is history: whether the data seen so far
\* is what an up-to-date provider of a chain with enough participation has.
At(pc, finality_update, first, p, store, good) ==
  [pc |-> pc, finality_update |-> finality_update, first |-> first, period |-> p,
   store |-> store, good |-> good]

Idle == At("idle", None, None, 0, None, TRUE)

Rejected(good) == At("rejected", None, None, 0, None, good)

\* Finality that f reports lags by less than a period: f is signed in the period of
\* the block it finalizes or in the next.
Recent(f) == period[f.signature] <= period[f.finalized] + 1

\* An update is good up to finality update f if it finalizes a block of its own
\* period, unless f does not either, and none that f does not; and if it is not of a
\* period beyond the one that follows f's block.
Good(u, f) ==
  /\ u.majority
  /\ u.finalized <= f.finalized
  /\ period[u.attested] <= period[f.finalized] + 1
  /\ period[u.finalized] = period[u.attested] \/ period[u.attested] > period[f.finalized]

\* The proven head at a checkpoint is bootstrapped from, then the finality update
\* is fetched.
FetchFinality ==
  /\ attempt.pc = "idle"
  /\ head.slot \in Checkpoint
  /\ \E f \in FinalityUpdates(now) :
       attempt' = At("finality", f, None, 0, None,
         /\ head.next # None /\ f.majority /\ Recent(f)
         /\ f.finalized > head.slot /\ f.finalized \in Checkpoint)
  /\ UNCHANGED <<now, head, windowVars>>

\* Then the updates, of which the first restores the store, and the program checks
\* that its hash is the one it is given.
FetchUpdates ==
  /\ attempt.pc = "finality"
  /\ \E u \in Updates(period[head.slot], now) :
       LET f    == attempt.finality_update
           good == attempt.good /\ Good(u, f)
       IN  attempt' =
             IF Verify(u, now, Bootstrap(head.slot)) /\ Restored(head.slot, u) = head
             THEN At("program", f, IF FirstIsBehind(u, head.slot) THEN None ELSE u,
                     period[head.slot] + 1, head, good)
             ELSE Rejected(good)
  /\ UNCHANGED <<now, head, windowVars>>

\* The list of updates: the first one if it was kept, then one for each period. It
\* is read as it is used, since the slot stands still while the program runs.
NextUpdates ==
  IF attempt.first # None THEN {attempt.first}
  ELSE IF attempt.period - period[head.slot] < MAX_REQUEST_LIGHT_CLIENT_UPDATES
    THEN Updates(attempt.period, now)
  ELSE {}

\* One update is verified and applied. Most of them finalize a block of a period
\* whose committee the store learnt from the one before.
ApplyUpdate ==
  /\ attempt.pc = "program"
  /\ \E u \in NextUpdates :
       LET f    == attempt.finality_update
           good == attempt.good /\ Good(u, f)
       IN  attempt' =
             IF Verify(u, now, attempt.store)
             THEN At("program", f, None,
                     IF attempt.first = None THEN attempt.period + 1 ELSE attempt.period,
                     apply_update(attempt.store, u), good)
             ELSE Rejected(good)
  /\ UNCHANGED <<now, head, windowVars>>

\* Mutant: the finality update is applied without being verified.
ApplyFinalityUnverified ==
  /\ attempt.pc = "program"
  /\ attempt.first = None
  /\ LET f    == attempt.finality_update
         good == attempt.good /\ attempt.period > period[f.finalized]
     IN  attempt' =
           IF Validated(apply_update(attempt.store, f))
           THEN At("window", f, None, 0, apply_update(attempt.store, f), good)
           ELSE Rejected(good)
  /\ UNCHANGED <<now, head, windowVars>>

\* The list ends where the provider's does. The finality update is verified and
\* applied, and the outputs are validated.
ApplyFinality ==
  /\ attempt.pc = "program"
  /\ attempt.first = None
  /\ LET f    == attempt.finality_update
         good == attempt.good /\ attempt.period > period[f.finalized]
     IN  attempt' =
           IF Verify(f, now, attempt.store) /\ Validated(apply_update(attempt.store, f))
           THEN At("window", f, None, 0, apply_update(attempt.store, f), good)
           ELSE Rejected(good)
  /\ UNCHANGED <<now, head, windowVars>>

\* The window's last block is the one the finality update finalizes. The users are
\* those of the events one provider answers with, whichever of the window's blocks it
\* has; their slots are read at the last block, and the whole program is run against
\* the state root of the block the store ended at. Nothing asks whether the events are
\* complete. Data is good only if the users it is about fit the tree.
DryRun ==
  /\ attempt.pc = "window"
  /\ LET last == attempt.finality_update.finalized IN
     \E blocks \in EventReads(head.slot, last) :
       \E answer \in Answers(storage_slots(blocks), last) :
         IF Verifies(attempt.store.slot, last, sorted(answer))
         THEN /\ attempt' = [attempt EXCEPT !.pc = "proving"]
              /\ root' = merkle_root(sorted(answer))
              /\ read' = blocks
         ELSE /\ attempt' = Rejected(attempt.good /\ Fits(storage_slots(blocks)))
              /\ UNCHANGED windowVars
  /\ UNCHANGED <<now, head>>

\* The proof succeeds: the next window starts from the outputs it was expected to
\* have.
Proved ==
  /\ attempt.pc = "proving"
  /\ head' = attempt.store
  /\ attempt' = Idle
  /\ root' = None /\ read' = {}
  /\ UNCHANGED now

\* A request fails or times out, the proof fails, or a rejected attempt is over.
GiveUp ==
  /\ attempt.pc # "idle"
  /\ attempt' = Idle
  /\ root' = None /\ read' = {}
  /\ UNCHANGED <<now, head>>

NewSlot ==
  /\ attempt.pc \in {"idle", "finality"}
  /\ now < MaxSlot
  /\ now' = now + 1
  /\ UNCHANGED <<head, attempt, windowVars>>

\* get_latest_finality_slot_and_store_hash: a cold start takes the latest
\* checkpoint's block and a first update, and validates nothing.
Init ==
  /\ now \in Slot
  /\ \E a \in Attested(now) : \E u \in Updates(period[finalized[a]], now) :
       /\ Verify(u, now, Bootstrap(finalized[a]))
       /\ head = get_store_with_next_sync_committee(Bootstrap(finalized[a]), u)
  /\ attempt = Idle
  /\ root = None /\ read = {}

Next ==
  \/ FetchFinality \/ FetchUpdates \/ ApplyUpdate \/ ApplyFinality \/ DryRun
  \/ Proved \/ GiveUp \/ NewSlot

Spec == Init /\ [][Next]_vars

-----------------------------------------------------------------------------
(* Properties.                                                              *)

Attempt ==
  [pc : {"idle", "finality", "program", "window", "proving", "rejected"},
   finality_update : Update \cup {None}, first : Update \cup {None},
   period : Nat, store : Store \cup {None}, good : BOOLEAN]

\* Every reachable head and attempt is well typed, over the whole of
\* prepare_consensus_mpt_proof_inputs.
TypeOK ==
  /\ now \in Slot
  /\ head \in Store
  /\ attempt \in Attempt
  /\ read \subseteq Slot

\* The committees of a proven store are those the chain has in its slot's period
\* and the next, however updates, majorities and period boundaries fell: a store
\* is never left with the committee of another period.
OnChain(store) ==
  /\ store.current = period[store.slot]
  /\ store.next \in {None, period[store.slot] + 1}

HeadIsOnChain == OnChain(head)

\* Recovery after a restart: from a head with a next committee, every good first
\* update verifies and restores the very store the last proof hashed, whether it
\* is behind the head or ahead of it.
HeadIsRecoverable ==
  head.next # None =>
    \A u \in Updates(period[head.slot], now) :
      u.majority /\ period[u.finalized] = period[head.slot] =>
        /\ Verify(u, now, Bootstrap(head.slot))
        /\ Restored(head.slot, u) = head

\* What an up-to-date provider answers is never rejected: a rejection is always
\* due to data that is late, ahead of the finality update or short of a majority, to
\* finality that lags by more than a period, or to more users than the tree holds.
GoodDataIsAccepted == attempt.pc = "rejected" => ~attempt.good

\* What a window attests is true, whichever provider it was prepared with and also
\* when the chain finalized another block between the two requests of one attempt: its
\* leaves are users who locked tokens from the block of its input slot to that of its
\* output slot, each once and in one order, with the balance at the last block. They are
\* all the users of the blocks that the provider had when it was asked for events; that
\* these are all of the window's blocks is checked nowhere.
WindowIsSound ==
  attempt.pc = "proving" =>
    LET last  == attempt.store.slot
        users == storage_slots(read)
    IN  /\ read \subseteq head.slot..last
        /\ root = merkle_root([i \in 1..Cardinality(users) |->
             CHOOSE s \in [user : users, value : {lockedTokens(u, last) : u \in users}] :
               /\ s.value = lockedTokens(s.user, last)
               /\ Cardinality({u \in users : u < s.user}) = i - 1])

\* The head moves forward only, to checkpoints it can be recovered at; one that was
\* cold-started without its next committee never moves.
HeadMoves ==
  [][head' # head =>
       /\ head.next # None /\ head'.next # None
       /\ head'.slot > head.slot /\ head'.slot \in Checkpoint]_vars
=============================================================================
