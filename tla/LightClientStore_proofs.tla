----------------------- MODULE LightClientStore_proofs -----------------------
(***************************************************************************)
(* Proofs about LightClientStore, for every chain: any assignment of slots   *)
(* to periods that never decreases, and any finality that is behind what it   *)
(* is attested by.                                                            *)
(***************************************************************************)
EXTENDS LightClientStore, SetFacts

\* What a beacon chain update looks like: the fields of an update of period p.
LEMMA UpdateFacts ==
  ASSUME NEW t \in Slot, NEW p, NEW u \in Updates(p, t)
  PROVE  /\ u.attested \in Slot /\ u.finalized \in Slot /\ u.signature \in Slot
         /\ u.finalized < u.attested /\ u.attested < u.signature
         /\ period[u.attested] = p /\ period[u.signature] = p
         /\ u.next = p + 1
         /\ u.majority \in BOOLEAN
         /\ p \in Nat
         /\ u \in Update
<1>1. PICK a \in {s \in Attested(t) : period[s] = p /\ period[s + 1] = p}, m \in BOOLEAN :
        u = Signed(a, m, p + 1)
  BY DEF Updates
<1>2. a \in Slot /\ a # 0 /\ a < t /\ a + 1 \in Slot
  BY <1>1, ChainAssumption DEF Attested, Slot
<1>3. finalized[a] \in Slot /\ finalized[a] < a /\ period[a] \in Nat
  BY <1>2, ChainAssumption
<1> QED
  BY <1>1, <1>2, <1>3 DEF Signed, Update, Slot

\* The fields of a finality update.
LEMMA FinalityFacts ==
  ASSUME NEW t \in Slot, NEW u \in FinalityUpdates(t)
  PROVE  /\ u.attested \in Slot /\ u.finalized \in Slot /\ u.signature \in Slot
         /\ u.finalized < u.attested /\ u.attested < u.signature
         /\ u.next = None
         /\ u.majority \in BOOLEAN
         /\ u \in Update
<1>1. PICK a \in Attested(t), m \in BOOLEAN : u = Signed(a, m, None)
  BY DEF FinalityUpdates
<1>2. a \in Slot /\ a # 0 /\ a < t /\ a + 1 \in Slot
  BY <1>1, ChainAssumption DEF Attested, Slot
<1>3. finalized[a] \in Slot /\ finalized[a] < a
  BY <1>2, ChainAssumption
<1> QED
  BY <1>1, <1>2, <1>3 DEF Signed, Update, Slot

\* Periods never decrease.
LEMMA PeriodMonotone ==
  ASSUME NEW a \in Slot, NEW b \in Slot, a <= b
  PROVE  period[a] \in Nat /\ period[b] \in Nat /\ period[a] <= period[b]
BY ChainAssumption

\* An update is genuine if its next committee, if any, is the chain's.
Genuine(u) ==
  /\ u \in Update
  /\ u.finalized < u.attested /\ u.attested < u.signature
  /\ \/ u.next = None
     \/ u.next = period[u.attested] + 1 /\ period[u.signature] = period[u.attested]

LEMMA UpdatesAreGenuine ==
  /\ \A t \in Slot : \A p : \A u \in Updates(p, t) : Genuine(u)
  /\ \A t \in Slot : \A u \in FinalityUpdates(t) : Genuine(u)
BY UpdateFacts, FinalityFacts DEF Genuine

\* The heart of the matter: applying a verified update to a store with the chain's
\* committees gives a store with the chain's committees, on either side of a period
\* boundary and for any majority.
LEMMA ApplyKeepsChain ==
  ASSUME NEW t \in Slot, NEW store \in Store, NEW u, Genuine(u),
         OnChain(store), Verify(u, t, store)
  PROVE  apply_update(store, u) \in Store /\ OnChain(apply_update(store, u))
<1> DEFINE P == period[store.slot]
           newer == u.finalized > store.slot
           moved == IF newer THEN u.finalized ELSE store.slot
<1>1. /\ store.slot \in Slot /\ u.finalized \in Slot /\ u.attested \in Slot /\ u.signature \in Slot
      /\ u.next \in Nat \cup {None} /\ u.majority \in BOOLEAN
      /\ store = [slot |-> store.slot, current |-> store.current, next |-> store.next]
  BY DEF Genuine, Update, Store
<1>2. /\ P \in Nat /\ period[u.finalized] \in Nat
      /\ period[u.attested] \in Nat /\ period[u.signature] \in Nat
  BY <1>1, PeriodMonotone DEF Slot
<1>3. period[u.finalized] <= period[u.attested] /\ period[u.attested] <= period[u.signature]
  BY <1>1, PeriodMonotone DEF Genuine, Slot
<1>4. newer => P <= period[u.finalized]
  BY <1>1, PeriodMonotone DEF Slot
<1>5. P + 1 \in Nat /\ None # P + 1 /\ store.current = P /\ store.next \in {None, P + 1}
  BY <1>2, ChainAssumption DEF OnChain
<1>6. period[u.signature] = P \/ (store.next # None /\ period[u.signature] = P + 1)
  BY DEF Verify
<1>7. ASSUME ~(u.majority /\ (newer \/ (store.next = None /\ u.next # None
                 /\ period[u.finalized] = period[u.attested])))
      PROVE  apply_update(store, u) = store
  BY <1>7 DEF apply_update
<1>8. CASE apply_update(store, u) = store
  BY <1>8
<1>9. CASE /\ newer \/ (store.next = None /\ u.next # None /\ period[u.finalized] = period[u.attested])
           /\ apply_update(store, u) # store
           /\ store.next = None
  <2>1. period[u.signature] = P
    BY <1>6, <1>9
  <2>2. apply_update(store, u) = [slot |-> moved, current |-> P, next |-> u.next]
    BY <1>1, <1>5, <1>7, <1>9 DEF apply_update
  <2>3. period[moved] = P
    BY <1>1, <1>2, <1>3, <1>4, <2>1
  <2>4. u.next \in {None, P + 1}
    BY <2>1, <1>2 DEF Genuine
  <2>5. moved \in Slot
    BY <1>1
  <2> QED
    BY <2>2, <2>3, <2>4, <2>5, <1>1, <1>2, <1>5 DEF Store, OnChain
<1>10. CASE /\ newer
            /\ apply_update(store, u) # store
            /\ store.next = P + 1
            /\ period[u.finalized] = P + 1
  <2>1. apply_update(store, u) = [slot |-> u.finalized, current |-> P + 1, next |-> u.next]
    BY <1>1, <1>5, <1>7, <1>10 DEF apply_update
  <2>2. period[u.attested] = P + 1 /\ period[u.signature] = P + 1
    BY <1>2, <1>3, <1>6, <1>10
  <2>3. u.next \in {None, P + 1 + 1}
    BY <2>2, <1>2 DEF Genuine
  <2> QED
    BY <2>1, <2>3, <1>1, <1>2, <1>5, <1>10 DEF Store, OnChain
<1>11. CASE /\ newer
            /\ apply_update(store, u) # store
            /\ store.next = P + 1
            /\ period[u.finalized] # P + 1
  <2>1. apply_update(store, u) = [slot |-> u.finalized, current |-> P, next |-> P + 1]
    BY <1>1, <1>5, <1>7, <1>11 DEF apply_update
  <2>2. period[u.finalized] = P
    BY <1>2, <1>3, <1>4, <1>6, <1>11
  <2> QED
    BY <2>1, <2>2, <1>1, <1>2, <1>5, <1>11 DEF Store, OnChain
<1> QED
  BY <1>5, <1>7, <1>8, <1>9, <1>10, <1>11

\* Bootstrapped stores have the chain's committee.
LEMMA BootstrapOnChain ==
  ASSUME NEW slot \in Slot
  PROVE  Bootstrap(slot) \in Store /\ OnChain(Bootstrap(slot))
BY ChainAssumption DEF Bootstrap, Store, OnChain

\* So have the stores a cold start commits to: restoring moves no slot.
LEMMA RestoredStore ==
  ASSUME NEW t \in Slot, NEW slot \in Slot, NEW u \in Updates(period[slot], t)
  PROVE  LET s == get_store_with_next_sync_committee(Bootstrap(slot), u)
         IN  s \in Store /\ OnChain(s)
<1> DEFINE B == Bootstrap(slot)
<1>1. B \in Store /\ OnChain(B) /\ B.next = None /\ B.current = period[slot] /\ B.slot = slot
  BY BootstrapOnChain DEF Bootstrap
<1>2. u.next = period[slot] + 1 /\ period[slot] \in Nat
  BY UpdateFacts
<1>3. apply_update(B, u).next \in {None, period[slot] + 1}
  BY <1>1, <1>2 DEF apply_update
<1>4. get_store_with_next_sync_committee(B, u)
        = [slot |-> slot, current |-> period[slot], next |-> apply_update(B, u).next]
  BY DEF get_store_with_next_sync_committee, Bootstrap
<1> QED
  BY <1>2, <1>3, <1>4 DEF Store, OnChain

-----------------------------------------------------------------------------
(* The inductive invariant.                                                 *)

\* What an attempt has in hand when the program runs, and when it has run.
AttemptInv ==
  /\ attempt.pc \in {"finality", "program", "window"} =>
       attempt.finality_update \in FinalityUpdates(now)
  /\ attempt.first # None => attempt.first \in Updates(period[head.slot], now)
  /\ attempt.pc \in {"program", "window", "proving"} =>
       attempt.store \in Store /\ OnChain(attempt.store)
  /\ attempt.pc \in {"window", "proving"} => Validated(attempt.store)

\* A head without its next committee: the program leaves the store as it is, since
\* the first update, if it is kept, teaches nothing and the next one cannot verify.
StuckInv ==
  head.next = None =>
    /\ attempt.pc \notin {"window", "proving"}
    /\ attempt.pc = "program" =>
         /\ attempt.store = head
         /\ attempt.period = period[head.slot] + 1
         /\ attempt.first # None => apply_update(head, attempt.first) = head

IInv == TypeOK /\ OnChain(head) /\ AttemptInv /\ StuckInv

\* Later slots have seen what earlier ones have.
LEMMA UpdatesGrow ==
  ASSUME NEW s \in Slot, NEW t \in Slot, s <= t
  PROVE  /\ FinalityUpdates(s) \subseteq FinalityUpdates(t)
         /\ \A p : Updates(p, s) \subseteq Updates(p, t)
BY DEF FinalityUpdates, Updates, Attested, Slot

LEMMA InitInv == Init => IInv
<1> SUFFICES ASSUME Init PROVE IInv
  OBVIOUS
<1>1. PICK a \in Attested(now) : \E u \in Updates(period[finalized[a]], now) :
        head = get_store_with_next_sync_committee(Bootstrap(finalized[a]), u)
  BY DEF Init
<1>2. now \in Slot /\ finalized[a] \in Slot
  BY ChainAssumption DEF Init, Attested
<1>3. head \in Store /\ OnChain(head)
  BY <1>1, <1>2, RestoredStore
<1>4. attempt = At("idle", None, None, 0, None, TRUE) /\ read \subseteq Slot
  BY DEF Init, Idle
<1> QED
  BY <1>2, <1>3, <1>4 DEF IInv, TypeOK, Attempt, AttemptInv, StuckInv, At

\* The fields of an attempt, and its type.
LEMMA AtFields ==
  ASSUME NEW pc, NEW f, NEW u, NEW p, NEW s, NEW g
  PROVE  LET a == At(pc, f, u, p, s, g) IN
         /\ a.pc = pc /\ a.finality_update = f /\ a.first = u
         /\ a.period = p /\ a.store = s /\ a.good = g
BY DEF At

LEMMA AtType ==
  ASSUME NEW pc \in {"idle", "finality", "program", "window", "proving", "rejected"},
         NEW f \in Update \cup {None}, NEW u \in Update \cup {None}, NEW p \in Nat,
         NEW s \in Store \cup {None}, NEW g \in BOOLEAN
  PROVE  At(pc, f, u, p, s, g) \in Attempt
BY DEF At, Attempt

\* An attempt that is over satisfies everything.
LEMMA OverInv ==
  ASSUME now' \in Slot, head' \in Store, OnChain(head)', read' \subseteq Slot,
         NEW g \in BOOLEAN,
         attempt' = Idle \/ attempt' = Rejected(g)
  PROVE  IInv'
<1>1. PICK pc \in {"idle", "rejected"}, b \in BOOLEAN :
        attempt' = At(pc, None, None, 0, None, b)
  BY DEF Idle, Rejected
<1>2. attempt' \in Attempt
  BY <1>1, AtType
<1>3. /\ attempt'.pc \in {"idle", "rejected"}
      /\ attempt'.finality_update = None /\ attempt'.first = None
  BY <1>1, AtFields
<1> QED
  BY <1>2, <1>3 DEF IInv, TypeOK, AttemptInv, StuckInv

-----------------------------------------------------------------------------
(* One lemma per action.                                                    *)

LEMMA FetchFinalityInv == IInv /\ FetchFinality => IInv'
<1> SUFFICES ASSUME IInv, FetchFinality PROVE IInv'
  OBVIOUS
<1>1. PICK f \in FinalityUpdates(now), g \in BOOLEAN :
        attempt' = At("finality", f, None, 0, None, g)
  BY DEF FetchFinality
<1>2. /\ now' = now /\ head' = head /\ read' \subseteq Slot
      /\ now \in Slot /\ head \in Store /\ OnChain(head)
  BY DEF FetchFinality, windowVars, IInv, TypeOK
<1>3. f \in Update
  BY <1>2, FinalityFacts
<1>4. attempt' \in Attempt
  BY <1>1, <1>3, AtType
<1>5. attempt'.pc = "finality" /\ attempt'.finality_update = f /\ attempt'.first = None
  BY <1>1, AtFields
<1> QED
  BY <1>2, <1>3, <1>4, <1>5 DEF IInv, TypeOK, AttemptInv, StuckInv, OnChain

LEMMA FetchUpdatesInv == IInv /\ FetchUpdates => IInv'
<1> SUFFICES ASSUME IInv, FetchUpdates PROVE IInv'
  OBVIOUS
<1> DEFINE f == attempt.finality_update
           first(u) == IF FirstIsBehind(u, head.slot) THEN None ELSE u
<1>1. PICK u \in Updates(period[head.slot], now), g \in BOOLEAN :
        /\ g = (attempt.good /\ Good(u, f))
        /\ attempt' = IF Verify(u, now, Bootstrap(head.slot)) /\ Restored(head.slot, u) = head
                      THEN At("program", f, first(u), period[head.slot] + 1, head, g)
                      ELSE Rejected(g)
  BY DEF FetchUpdates
<1>2. /\ now' = now /\ head' = head /\ read' \subseteq Slot
      /\ now \in Slot /\ head \in Store /\ OnChain(head)
      /\ attempt \in Attempt /\ f \in FinalityUpdates(now) /\ head.slot \in Slot
  BY DEF FetchUpdates, windowVars, IInv, TypeOK, AttemptInv, Store
<1>3. g \in BOOLEAN /\ OnChain(head)'
  BY <1>1, <1>2 DEF OnChain
<1>4. CASE ~(Verify(u, now, Bootstrap(head.slot)) /\ Restored(head.slot, u) = head)
  BY <1>1, <1>2, <1>3, <1>4, OverInv
<1>5. CASE Verify(u, now, Bootstrap(head.slot)) /\ Restored(head.slot, u) = head
  <2>1. attempt' = At("program", f, first(u), period[head.slot] + 1, head, g)
    BY <1>1, <1>5
  <2>2. f \in Update /\ u \in Update /\ period[head.slot] + 1 \in Nat
        /\ u.next = period[head.slot] + 1 /\ u.next # None
    BY <1>2, FinalityFacts, UpdateFacts, ChainAssumption
  <2>3. attempt' \in Attempt
    BY <2>1, <2>2, <1>2, <1>3, AtType
  <2>4. /\ attempt'.pc = "program" /\ attempt'.finality_update = f /\ attempt'.first = first(u)
        /\ attempt'.period = period[head.slot] + 1 /\ attempt'.store = head
    BY <2>1, AtFields
  <2>5. ASSUME head.next = None, first(u) # None
        PROVE  apply_update(head, first(u)) = head
    <3>1. first(u) = u /\ ~FirstIsBehind(u, head.slot)
      BY <2>5
    <3> DEFINE B == Bootstrap(head.slot)
    <3>2. [B EXCEPT !.next = apply_update(B, u).next] = head
      BY <3>1, <1>5 DEF Restored, get_store_with_next_sync_committee
    <3>3. B = [slot |-> head.slot, current |-> period[head.slot], next |-> None]
      BY DEF Bootstrap
    <3>4. apply_update(B, u).next = None /\ B = head
      BY <3>2, <3>3, <2>5
    <3>5. apply_update(B, u) = B
      BY <3>3, <3>4, <2>2 DEF apply_update
    <3> QED
      BY <3>1, <3>4, <3>5
  <2>6. AttemptInv'
    BY <2>4, <1>1, <1>2, <1>3 DEF AttemptInv
  <2>7. StuckInv'
    BY <2>4, <2>5, <1>2 DEF StuckInv
  <2> QED
    BY <2>3, <2>6, <2>7, <1>2, <1>3 DEF IInv, TypeOK
<1> QED
  BY <1>4, <1>5

LEMMA ApplyUpdateInv == IInv /\ ApplyUpdate => IInv'
<1> SUFFICES ASSUME IInv, ApplyUpdate PROVE IInv'
  OBVIOUS
<1> DEFINE f == attempt.finality_update
           p == IF attempt.first = None THEN attempt.period + 1 ELSE attempt.period
<1>1. PICK u \in NextUpdates, g \in BOOLEAN :
        /\ g = (attempt.good /\ Good(u, f))
        /\ attempt' = IF Verify(u, now, attempt.store)
                      THEN At("program", f, None, p, apply_update(attempt.store, u), g)
                      ELSE Rejected(g)
  BY DEF ApplyUpdate
<1>2. /\ now' = now /\ head' = head /\ read' \subseteq Slot
      /\ now \in Slot /\ head \in Store /\ OnChain(head)
      /\ attempt \in Attempt /\ f \in FinalityUpdates(now) /\ head.slot \in Slot
      /\ attempt.pc = "program" /\ attempt.store \in Store /\ OnChain(attempt.store)
  BY DEF ApplyUpdate, windowVars, IInv, TypeOK, AttemptInv, Store
<1>3. g \in BOOLEAN /\ OnChain(head)'
  BY <1>1, <1>2 DEF OnChain
<1>4. Genuine(u)
  <2>1. CASE attempt.first # None
    BY <2>1, <1>2, UpdatesAreGenuine DEF NextUpdates, IInv, AttemptInv
  <2>2. CASE attempt.first = None
    BY <2>2, <1>2, UpdatesAreGenuine DEF NextUpdates
  <2> QED
    BY <2>1, <2>2
<1>5. CASE ~Verify(u, now, attempt.store)
  BY <1>1, <1>2, <1>3, <1>5, OverInv
<1>6. CASE Verify(u, now, attempt.store)
  <2>1. attempt' = At("program", f, None, p, apply_update(attempt.store, u), g)
    BY <1>1, <1>6
  <2>2. f \in Update /\ attempt.period \in Nat /\ p \in Nat
    BY <1>2, FinalityFacts DEF Attempt
  <2>3. /\ apply_update(attempt.store, u) \in Store
        /\ OnChain(apply_update(attempt.store, u))
    BY <1>2, <1>4, <1>6, ApplyKeepsChain
  <2>4. attempt' \in Attempt
    BY <2>1, <2>2, <2>3, <1>3, AtType
  <2>5. /\ attempt'.pc = "program" /\ attempt'.finality_update = f /\ attempt'.first = None
        /\ attempt'.period = p /\ attempt'.store = apply_update(attempt.store, u)
    BY <2>1, AtFields
  <2>6. AttemptInv'
    BY <2>3, <2>5, <1>2 DEF AttemptInv, OnChain
  <2>7. StuckInv'
    <3>1. SUFFICES ASSUME head.next = None
                   PROVE  apply_update(attempt.store, u) = head /\ p = period[head.slot] + 1
      BY <3>1, <2>5, <1>2 DEF StuckInv
    <3>2. attempt.store = head /\ attempt.period = period[head.slot] + 1
      BY <3>1, <1>2 DEF IInv, StuckInv
    <3>3. CASE attempt.first # None
      BY <3>1, <3>2, <3>3, <1>2 DEF IInv, StuckInv, NextUpdates
    <3>4. CASE attempt.first = None
      <4>1. u \in Updates(period[head.slot] + 1, now)
        BY <3>2, <3>4 DEF NextUpdates
      <4>2. period[u.signature] = period[head.slot] + 1 /\ period[head.slot] \in Nat
        BY <4>1, <1>2, UpdateFacts, ChainAssumption
      <4> QED
        BY <4>2, <3>1, <3>2, <1>6 DEF Verify
    <3> QED
      BY <3>3, <3>4
  <2> QED
    BY <2>4, <2>6, <2>7, <1>2, <1>3 DEF IInv, TypeOK
<1> QED
  BY <1>5, <1>6

LEMMA ApplyFinalityInv == IInv /\ ApplyFinality => IInv'
<1> SUFFICES ASSUME IInv, ApplyFinality PROVE IInv'
  OBVIOUS
<1> DEFINE f == attempt.finality_update
           s == apply_update(attempt.store, f)
<1>1. PICK g : /\ g = (attempt.good /\ attempt.period > period[f.finalized])
               /\ attempt' = IF Verify(f, now, attempt.store) /\ Validated(s)
                             THEN At("window", f, None, 0, s, g) ELSE Rejected(g)
  BY DEF ApplyFinality
<1>2. /\ now' = now /\ head' = head /\ read' \subseteq Slot
      /\ now \in Slot /\ head \in Store /\ OnChain(head)
      /\ attempt \in Attempt /\ f \in FinalityUpdates(now) /\ head.slot \in Slot
      /\ attempt.pc = "program" /\ attempt.store \in Store /\ OnChain(attempt.store)
  BY DEF ApplyFinality, windowVars, IInv, TypeOK, AttemptInv, Store
<1>3. g \in BOOLEAN /\ OnChain(head)'
  BY <1>1, <1>2 DEF OnChain
<1>4. Genuine(f) /\ f \in Update /\ f.next = None
  BY <1>2, UpdatesAreGenuine, FinalityFacts
<1>5. CASE ~(Verify(f, now, attempt.store) /\ Validated(s))
  BY <1>1, <1>2, <1>3, <1>5, OverInv
<1>6. CASE Verify(f, now, attempt.store) /\ Validated(s)
  <2>1. attempt' = At("window", f, None, 0, s, g)
    BY <1>1, <1>6
  <2>2. s \in Store /\ OnChain(s)
    BY <1>2, <1>4, <1>6, ApplyKeepsChain
  <2>3. attempt' \in Attempt
    BY <2>1, <2>2, <1>3, <1>4, AtType
  <2>4. attempt'.pc = "window" /\ attempt'.finality_update = f /\ attempt'.first = None
        /\ attempt'.store = s
    BY <2>1, AtFields
  <2>5. AttemptInv'
    BY <2>2, <2>4, <1>2, <1>6 DEF AttemptInv, OnChain, Validated
  <2>6. head.next # None
    <3>1. SUFFICES ASSUME head.next = None PROVE FALSE
      OBVIOUS
    <3>2. attempt.store = head
      BY <3>1, <1>2 DEF IInv, StuckInv
    <3>3. s.next = None
      BY <3>1, <3>2, <1>4 DEF apply_update
    <3> QED
      BY <3>3, <1>6 DEF Validated
  <2> QED
    BY <2>3, <2>4, <2>5, <2>6, <1>2, <1>3 DEF IInv, TypeOK, StuckInv
<1> QED
  BY <1>5, <1>6

\* The blocks of events that a provider answers with are blocks of the window.
LEMMA ReadsInWindow ==
  ASSUME NEW first \in Slot, NEW last \in Slot, NEW blocks \in EventReads(first, last)
  PROVE  blocks \subseteq first..last /\ blocks \in SUBSET Slot
<1>1. PICK missed : blocks = first..last \ missed
  BY DEF EventReads
<1>2. first..last \subseteq Slot
  BY ChainAssumption DEF Slot
<1> QED
  BY <1>1, <1>2

LEMMA DryRunInv == IInv /\ DryRun => IInv'
<1> SUFFICES ASSUME IInv, DryRun PROVE IInv'
  OBVIOUS
<1>1. PICK g \in BOOLEAN : attempt' = [attempt EXCEPT !.pc = "proving"] \/ attempt' = Rejected(g)
  BY DEF DryRun
<1>2. /\ now' = now /\ head' = head /\ now \in Slot /\ head \in Store /\ OnChain(head)
      /\ attempt \in Attempt /\ attempt.pc = "window" /\ head.slot \in Slot
      /\ attempt.finality_update \in FinalityUpdates(now)
  BY DEF DryRun, IInv, TypeOK, AttemptInv, Attempt, Store
<1>3. read' \subseteq Slot
  <2>1. attempt.finality_update.finalized \in Slot
    BY <1>2, FinalityFacts
  <2>2. \A blocks \in EventReads(head.slot, attempt.finality_update.finalized) : blocks \subseteq Slot
    BY <1>2, <2>1, ReadsInWindow
  <2> QED
    BY <2>2 DEF DryRun, windowVars, IInv, TypeOK
<1>4. CASE attempt' = Rejected(g)
  BY <1>2, <1>3, <1>4, OverInv DEF OnChain
<1>5. CASE attempt' = [attempt EXCEPT !.pc = "proving"]
  <2>1. attempt' \in Attempt
    BY <1>2, <1>5 DEF Attempt
  <2>2. /\ attempt'.pc = "proving" /\ attempt'.first = attempt.first
        /\ attempt'.store = attempt.store
    BY <1>2, <1>5 DEF Attempt
  <2>3. AttemptInv'
    BY <2>2, <1>2 DEF IInv, AttemptInv, OnChain, Validated
  <2>4. StuckInv'
    BY <1>2 DEF IInv, StuckInv
  <2> QED
    BY <2>1, <2>3, <2>4, <1>2, <1>3 DEF IInv, TypeOK, OnChain
<1> QED
  BY <1>1, <1>4, <1>5

LEMMA ProvedInv == IInv /\ Proved => IInv'
<1> SUFFICES ASSUME IInv, Proved PROVE IInv'
  OBVIOUS
<1>1. /\ now' = now /\ now \in Slot /\ head' = attempt.store /\ attempt' = Idle
      /\ read' \subseteq Slot
      /\ attempt.store \in Store /\ OnChain(attempt.store)
  BY DEF Proved, IInv, TypeOK, AttemptInv
<1> QED
  BY <1>1, OverInv DEF OnChain

LEMMA GiveUpInv == IInv /\ GiveUp => IInv'
BY OverInv DEF GiveUp, IInv, TypeOK, OnChain

LEMMA NewSlotInv == IInv /\ NewSlot => IInv'
<1> SUFFICES ASSUME IInv, NewSlot PROVE IInv'
  OBVIOUS
<1>1. /\ head' = head /\ attempt' = attempt /\ now' = now + 1 /\ now < MaxSlot /\ now \in Slot
      /\ attempt.pc \in {"idle", "finality"} /\ read' \subseteq Slot
  BY DEF NewSlot, windowVars, IInv, TypeOK
<1>2. now' \in Slot /\ now <= now'
  BY <1>1, ChainAssumption DEF Slot
<1>3. /\ FinalityUpdates(now) \subseteq FinalityUpdates(now')
      /\ \A p : Updates(p, now) \subseteq Updates(p, now')
  BY <1>1, <1>2, UpdatesGrow
<1>4. AttemptInv'
  BY <1>1, <1>3 DEF IInv, AttemptInv
<1> QED
  BY <1>1, <1>2, <1>4 DEF IInv, TypeOK, StuckInv, OnChain

LEMMA StutterInv == IInv /\ UNCHANGED vars => IInv'
BY DEF IInv, TypeOK, AttemptInv, StuckInv, OnChain, Validated, windowVars, vars

LEMMA InvHolds == Spec => []IInv
<1>1. Init => IInv
  BY InitInv
<1>2. IInv /\ [Next]_vars => IInv'
  BY FetchFinalityInv, FetchUpdatesInv, ApplyUpdateInv, ApplyFinalityInv, DryRunInv,
     ProvedInv, GiveUpInv, NewSlotInv, StutterInv DEF Next
<1> QED
  BY <1>1, <1>2, PTL DEF Spec

\* A good first update restores the head.
LEMMA Recoverable ==
  ASSUME IInv
  PROVE  HeadIsRecoverable
<1>1. SUFFICES ASSUME head.next # None, NEW u \in Updates(period[head.slot], now),
                      u.majority, period[u.finalized] = period[head.slot]
               PROVE  /\ Verify(u, now, Bootstrap(head.slot))
                      /\ Restored(head.slot, u) = head
  BY <1>1 DEF HeadIsRecoverable
<1> DEFINE P == period[head.slot]
           B == Bootstrap(head.slot)
<1>2. /\ now \in Slot /\ head.slot \in Slot /\ P \in Nat /\ None # P + 1
      /\ head = [slot |-> head.slot, current |-> P, next |-> P + 1]
  BY <1>1, ChainAssumption DEF IInv, TypeOK, Store, OnChain
<1>3. /\ u.attested \in Slot /\ u.finalized \in Slot /\ u.signature \in Slot
      /\ u.finalized < u.attested /\ u.attested < u.signature
      /\ period[u.attested] = P /\ period[u.signature] = P /\ u.next = P + 1
  BY <1>2, UpdateFacts
<1>4. u.signature <= now
  BY <1>2 DEF Updates, Signed, Attested, Slot
<1>5. B = [slot |-> head.slot, current |-> P, next |-> None]
  BY DEF Bootstrap
<1>6. Verify(u, now, B)
  BY <1>2, <1>3, <1>4, <1>5 DEF Verify, signers, Slot
<1>7. apply_update(B, u) =
        [slot |-> IF u.finalized > head.slot THEN u.finalized ELSE head.slot,
         current |-> P, next |-> P + 1]
  BY <1>1, <1>2, <1>3, <1>5 DEF apply_update
<1>8. CASE FirstIsBehind(u, head.slot)
  <2>1. ~(u.finalized > head.slot)
    BY <1>8, <1>2, <1>3 DEF FirstIsBehind, Slot
  <2> QED
    BY <2>1, <1>2, <1>6, <1>7, <1>8 DEF Restored
<1>9. CASE ~FirstIsBehind(u, head.slot)
  <2>1. get_store_with_next_sync_committee(B, u)
          = [slot |-> head.slot, current |-> P, next |-> P + 1]
    BY <1>5, <1>7 DEF get_store_with_next_sync_committee
  <2> QED
    BY <2>1, <1>2, <1>6, <1>9 DEF Restored
<1> QED
  BY <1>8, <1>9

-----------------------------------------------------------------------------
(* The theorems.                                                            *)

\* Type correctness of the head and of everything an attempt has in hand.
THEOREM TypeCorrect == Spec => []TypeOK
<1>1. IInv => TypeOK
  BY DEF IInv
<1> QED
  BY <1>1, InvHolds, PTL

\* The proven store never has a committee that is not the chain's for its period.
THEOREM ChainOfCommittees == Spec => []HeadIsOnChain
<1>1. IInv => HeadIsOnChain
  BY DEF IInv, HeadIsOnChain
<1> QED
  BY <1>1, InvHolds, PTL

\* The store a proof committed to can be restored from a bootstrap at its slot and
\* any good first update, with or without the branch for updates behind the head.
THEOREM Recovery == Spec => []HeadIsRecoverable
<1>1. IInv => HeadIsRecoverable
  BY Recoverable
<1> QED
  BY <1>1, InvHolds, PTL

\* The head moves forward only, to checkpoints it can be recovered at, and not at all
\* if a cold start left it without its next committee.
THEOREM Progress == Spec => HeadMoves
<1> DEFINE A == head' # head =>
                  /\ head.next # None /\ head'.next # None
                  /\ head'.slot > head.slot /\ head'.slot \in Checkpoint
<1>1. IInv /\ [Next]_vars => [A]_vars
  <2>1. SUFFICES ASSUME IInv, Next PROVE A
    OBVIOUS
  <2>2. CASE Proved
    BY <2>1, <2>2 DEF Proved, IInv, AttemptInv, StuckInv, Validated
  <2>3. CASE ~Proved
    BY <2>1, <2>3 DEF Next, FetchFinality, FetchUpdates, ApplyUpdate, ApplyFinality, DryRun,
         GiveUp, NewSlot
  <2> QED
    BY <2>2, <2>3
<1> QED
  BY <1>1, InvHolds, PTL DEF Spec, HeadMoves

-----------------------------------------------------------------------------
(* What a window attests.                                                   *)

\* The users of any blocks are finitely many numbers.
LEMMA UsersFinite ==
  ASSUME NEW blocks \in SUBSET Slot
  PROVE  storage_slots(blocks) \in SUBSET Nat /\ IsFiniteSet(storage_slots(blocks))
<1> DEFINE F == [c \in blocks |-> Depositors[c]]
           T == {Depositors[c] : c \in blocks}
<1>1. blocks \subseteq DOMAIN Depositors /\ IsFiniteSet(blocks)
  <2>1. 0 \in Int /\ MaxSlot \in Int
    BY ChainAssumption
  <2>2. IsFiniteSet(Slot)
    BY <2>1, FS_Interval DEF Slot
  <2> QED
    BY <2>2, FS_Subset, ChainAssumption
<1>2. F \in Surjection(blocks, T)
  BY DEF Surjection
<1>3. IsFiniteSet(T)
  <2> HIDE DEF F, T
  <2> QED
    BY <1>1, <1>2, FS_Surjection
<1>4. \A S \in T : IsFiniteSet(S) /\ S \subseteq Nat
  BY <1>1, AttestationAssumption
<1>5. IsFiniteSet(UNION T) /\ UNION T \in SUBSET Nat
  <2> HIDE DEF T
  <2> QED
    BY <1>3, <1>4, FS_UNION
<1> QED
  BY <1>5 DEF storage_slots

LEMMA SortedAnswer ==
  ASSUME NEW users \in SUBSET Nat, IsFiniteSet(users), NEW b, NEW slots \in Answers(users, b)
  PROVE  /\ DOMAIN sorted(slots) = 1..Cardinality(users)
         /\ \A i \in 1..Cardinality(users) :
              \E u \in users : /\ Cardinality(Below(users, u)) = i - 1
                               /\ sorted(slots)[i] = [user |-> u, value |-> lockedTokens(u, b)]
<1> DEFINE n == Cardinality(users)
           I == 1..n
<1>1. PICK order \in [I -> users] :
        /\ users = {order[i] : i \in I}
        /\ slots = [i \in I |-> [user |-> order[i], value |-> lockedTokens(order[i], b)]]
  BY DEF Answers
<1>2. n \in Nat /\ IsFiniteSet(I) /\ Cardinality(I) = n
  <2>1. n \in Nat /\ 1 \in Int /\ n \in Int
    BY FS_CardinalityType
  <2> HIDE DEF n
  <2> QED
    BY <2>1, FS_Interval
<1> HIDE DEF n, I
<1>3. order \in Surjection(I, users)
  BY <1>1 DEF Surjection
<1>4. \A i, j \in I : order[i] = order[j] => i = j
  <2>1. order \in Injection(I, users)
    BY <1>2, <1>3, FS_SurjSameCardinalityImpliesInj DEF n
  <2> QED
    BY <2>1 DEF Injection, IsInjective
<1>5. DOMAIN slots = I
  BY <1>1
<1>6. \A j \in I : /\ slots[j] = [user |-> order[j], value |-> lockedTokens(order[j], b)]
                   /\ slots[j].user = order[j]
  BY <1>1
<1>7. ASSUME NEW u \in users
      PROVE  Cardinality({j \in I : slots[j].user < u}) = Cardinality(Below(users, u))
  <2> DEFINE A == {j \in I : slots[j].user < u}
             g == [j \in A |-> order[j]]
  <2>1. A = {j \in I : order[j] < u}
    BY <1>6
  <2>2. A \subseteq I /\ IsFiniteSet(A)
    <3>1. A \subseteq I
      OBVIOUS
    <3> HIDE DEF A
    <3> QED
      BY <3>1, <1>2, FS_Subset
  <2>3. g \in [A -> Below(users, u)]
    BY <2>1, <1>1 DEF Below
  <2>4. \A t \in Below(users, u) : \E j \in A : g[j] = t
    <3> SUFFICES ASSUME NEW t \in Below(users, u) PROVE \E j \in A : g[j] = t
      OBVIOUS
    <3>1. PICK j \in I : order[j] = t
      BY <1>1 DEF Below
    <3>2. j \in A
      BY <2>1, <3>1 DEF Below
    <3> QED
      BY <3>1, <3>2
  <2>5. \A i, j \in A : g[i] = g[j] => i = j
    BY <1>4
  <2> HIDE DEF A, g
  <2>6. g \in Injection(A, Below(users, u))
    BY <2>3, <2>5 DEF Injection, IsInjective
  <2>7. g \in Surjection(A, Below(users, u))
    BY <2>3, <2>4 DEF Surjection
  <2>8. ExistsBijection(A, Below(users, u))
    BY <2>6, <2>7 DEF ExistsBijection, Bijection
  <2> QED
    BY <2>2, <2>8, FS_Bijection DEF A
<1>8. ASSUME NEW i \in I
      PROVE  \E u \in users : /\ Cardinality(Below(users, u)) = i - 1
                              /\ sorted(slots)[i] = [user |-> u, value |-> lockedTokens(u, b)]
  <2> DEFINE all == {slots[j] : j \in I}
             rank(s) == Cardinality({j \in I : slots[j].user < s.user})
             c == CHOOSE s \in all : rank(s) = i - 1
  <2>1. PICK u \in users : Cardinality(Below(users, u)) = i - 1
    BY <1>8, RankTaken DEF I, n
  <2>2. PICK k \in I : order[k] = u
    BY <1>1
  <2>3. rank(slots[k]) = i - 1
    <3>1. slots[k].user = u
      BY <2>2, <1>6
    <3> QED
      BY <3>1, <2>1, <1>7
  <2>4. c \in all /\ rank(c) = i - 1
    <3> HIDE DEF rank
    <3> QED
      BY <2>3
  <2>5. PICK j \in I : c = slots[j]
    <3> HIDE DEF c
    <3> QED
      BY <2>4
  <2> HIDE DEF c
  <2>6. order[j] \in users /\ c.user = order[j] /\ c = [user |-> order[j], value |-> lockedTokens(order[j], b)]
    BY <2>5, <1>1, <1>6
  <2>7. Cardinality(Below(users, order[j])) = i - 1
    BY <2>4, <2>6, <1>7
  <2>8. sorted(slots)[i] = c
    BY <1>5 DEF sorted, c
  <2> QED
    BY <2>6, <2>7, <2>8
<1>9. DOMAIN sorted(slots) = I
  BY <1>5 DEF sorted
<1> QED
  BY <1>8, <1>9 DEF I, n

\* So the leaves are the same for every provider, and each is true at the block.
LEMMA AnswersAgree ==
  ASSUME NEW users \in SUBSET Nat, IsFiniteSet(users), NEW b, NEW slots \in Answers(users, b)
  PROVE  /\ sorted(slots) = [i \in 1..Cardinality(users) |->
              CHOOSE s \in [user : users, value : {lockedTokens(u, b) : u \in users}] :
                /\ s.value = lockedTokens(s.user, b)
                /\ Cardinality({u \in users : u < s.user}) = i - 1]
         /\ \A i \in 1..Cardinality(users) :
              sorted(slots)[i].value = lockedTokens(sorted(slots)[i].user, b)
<1> DEFINE R == [user : users, value : {lockedTokens(u, b) : u \in users}]
           is(s, i) == /\ s.value = lockedTokens(s.user, b)
                       /\ Cardinality({u \in users : u < s.user}) = i - 1
           I == 1..Cardinality(users)
           one(i) == CHOOSE s \in R : is(s, i)
<1>1. DOMAIN sorted(slots) = I
  BY SortedAnswer
<1>2. ASSUME NEW i \in I
      PROVE  /\ sorted(slots)[i] = one(i)
             /\ sorted(slots)[i].value = lockedTokens(sorted(slots)[i].user, b)
  <2>1. PICK u \in users : /\ Cardinality(Below(users, u)) = i - 1
                           /\ sorted(slots)[i] = [user |-> u, value |-> lockedTokens(u, b)]
    BY <1>2, SortedAnswer
  <2>2. sorted(slots)[i] \in R /\ is(sorted(slots)[i], i)
    BY <2>1 DEF Below
  <2>3. one(i) \in R /\ is(one(i), i)
    <3> HIDE DEF is, R
    <3> QED
      BY <2>2
  <2> HIDE DEF one
  <2>4. one(i).user \in users /\ Cardinality(Below(users, one(i).user)) = i - 1
    BY <2>3 DEF Below
  <2>5. one(i).user = u
    <3>1. users \in SUBSET Int
      OBVIOUS
    <3>2. PICK v \in users : v = one(i).user
      BY <2>4
    <3>3. Cardinality(Below(users, u)) = Cardinality(Below(users, v))
      BY <2>1, <2>4, <3>2
    <3>4. u = v
      BY <3>1, <3>3, RankUnique
    <3> QED
      BY <3>2, <3>4
  <2>6. one(i) = [user |-> one(i).user, value |-> lockedTokens(one(i).user, b)]
    BY <2>3
  <2> QED
    BY <2>1, <2>5, <2>6
<1>3. sorted(slots) = [i \in I |-> sorted(slots)[i]]
  <2> DEFINE entry(i) == CHOOSE s \in {slots[j] : j \in DOMAIN slots} :
                           Cardinality({j \in DOMAIN slots : slots[j].user < s.user}) = i - 1
  <2>1. sorted(slots) = [i \in DOMAIN slots |-> entry(i)]
    BY DEF sorted
  <2> HIDE DEF entry, I
  <2> QED
    BY <1>1, <2>1
<1>4. sorted(slots) = [i \in I |-> one(i)]
  <2> HIDE DEF one, I
  <2> QED
    BY <1>2, <1>3
<1> QED
  BY <1>2, <1>4

-----------------------------------------------------------------------------
(* The Merkle tree.                                                          *)

\* A function that follows padded_size's recursion up to n.
Doubles(g, n) ==
  /\ g \in [0..n -> Nat]
  /\ \A m \in 0..n : g[m] = IF m = 0 THEN 1 ELSE 2 * g[m - 1]

LEMMA DoublesExists ==
  ASSUME NEW n \in Nat
  PROVE  \E g : Doubles(g, n)
<1> DEFINE C == {m \in Nat : ~\E g : Doubles(g, m)}
<1>1. SUFFICES ASSUME C # {} PROVE FALSE
  <2>1. n \notin C
    BY <1>1
  <2> QED
    BY <2>1
<1>2. PICK m \in C : \A k \in C : m <= k
  <2>1. C \in SUBSET Nat
    OBVIOUS
  <2> HIDE DEF C
  <2> QED
    BY <1>1, <2>1, LeastNatural
<1>3. m \in Nat /\ ~\E g : Doubles(g, m)
  OBVIOUS
<1>4. CASE m = 0
  <2>1. Doubles([i \in 0..0 |-> 1], 0)
    BY DEF Doubles
  <2> QED
    BY <2>1, <1>3, <1>4
<1>5. CASE m # 0
  <2>1. m - 1 \in Nat /\ m - 1 \notin C
    <3>1. m - 1 \in Nat /\ ~(m <= m - 1)
      BY <1>3, <1>5
    <3> HIDE DEF C
    <3> QED
      BY <3>1, <1>2
  <2>2. PICK g : Doubles(g, m - 1)
    BY <2>1
  <2> DEFINE h == [i \in 0..m |-> IF i = m THEN 2 * g[m - 1] ELSE g[i]]
  <2>3. g \in [0..(m - 1) -> Nat] /\ m - 1 \in 0..(m - 1)
    BY <2>1, <2>2 DEF Doubles
  <2>4. h \in [0..m -> Nat]
    <3>1. \A i \in 0..m : i # m => i \in 0..(m - 1)
      BY <1>3
    <3>2. g[m - 1] \in Nat
      BY <2>3
    <3>3. 2 * g[m - 1] \in Nat
      BY <3>2
    <3> QED
      BY <3>1, <3>3, <2>3
  <2>5. ASSUME NEW i \in 0..m PROVE h[i] = IF i = 0 THEN 1 ELSE 2 * h[i - 1]
    <3>1. CASE i = m
      <4>1. i - 1 \in 0..m /\ i - 1 # m /\ i # 0
        BY <3>1, <1>3, <1>5
      <4> QED
        BY <3>1, <4>1
    <3>2. CASE i # m
      <4>1. i \in 0..(m - 1) /\ (i # 0 => i - 1 \in 0..m /\ i - 1 # m)
        BY <3>2, <1>3
      <4>2. g[i] = IF i = 0 THEN 1 ELSE 2 * g[i - 1]
        BY <4>1, <2>2 DEF Doubles
      <4> QED
        BY <3>2, <4>1, <4>2
    <3> QED
      BY <3>1, <3>2
  <2>6. Doubles(h, m)
    <3> HIDE DEF h
    <3> QED
      BY <2>4, <2>5 DEF Doubles
  <2> QED
    BY <2>6, <1>3
<1> QED
  BY <1>4, <1>5

LEMMA DoublesAgree ==
  ASSUME NEW n \in Nat, NEW k \in Nat, NEW g, NEW h, Doubles(g, n), Doubles(h, k),
         NEW i \in 0..n, i \in 0..k
  PROVE  g[i] = h[i]
<1> DEFINE C == {m \in Nat : m \in 0..n /\ m \in 0..k /\ g[m] # h[m]}
<1>1. SUFFICES ASSUME C # {} PROVE FALSE
  <2>1. i \notin C
    BY <1>1
  <2> QED
    BY <2>1
<1>2. PICK m \in C : \A j \in C : m <= j
  <2>1. C \in SUBSET Nat
    OBVIOUS
  <2> HIDE DEF C
  <2> QED
    BY <1>1, <2>1, LeastNatural
<1>3. m \in Nat /\ m \in 0..n /\ m \in 0..k /\ g[m] # h[m]
  OBVIOUS
<1>4. m # 0
  BY <1>3 DEF Doubles
<1>5. m - 1 \in Nat /\ m - 1 \in 0..n /\ m - 1 \in 0..k /\ ~(m <= m - 1)
  BY <1>3, <1>4
<1>6. m - 1 \notin C
  <2> HIDE DEF C
  <2> QED
    BY <1>2, <1>5
<1>7. g[m - 1] = h[m - 1]
  BY <1>5, <1>6
<1>8. g[m] = 2 * g[m - 1] /\ h[m] = 2 * h[m - 1]
  BY <1>3, <1>4 DEF Doubles
<1> QED
  BY <1>3, <1>7, <1>8

\* The recursion of padded_size has a solution.
LEMMA PaddedSize ==
  padded_size = [d \in Nat |-> IF d = 0 THEN 1 ELSE 2 * padded_size[d - 1]]
<1> DEFINE upto(n) == CHOOSE g : Doubles(g, n)
           F == [n \in Nat |-> upto(n)[n]]
<1>1. \A n \in Nat : Doubles(upto(n), n)
  BY DoublesExists
<1> HIDE DEF upto
<1>2. ASSUME NEW n \in Nat PROVE F[n] = IF n = 0 THEN 1 ELSE 2 * F[n - 1]
  <2>1. Doubles(upto(n), n) /\ n \in 0..n
    BY <1>1
  <2>2. CASE n = 0
    BY <2>1, <2>2 DEF Doubles
  <2>3. CASE n # 0
    <3>1. n - 1 \in Nat /\ n - 1 \in 0..n /\ n - 1 \in 0..(n - 1)
      BY <2>3
    <3>2. Doubles(upto(n - 1), n - 1)
      BY <1>1, <3>1
    <3>3. upto(n)[n - 1] = upto(n - 1)[n - 1]
      BY <2>1, <3>1, <3>2, DoublesAgree
    <3>4. upto(n)[n] = 2 * upto(n)[n - 1]
      BY <2>1, <2>3 DEF Doubles
    <3>5. F[n] = upto(n)[n] /\ F[n - 1] = upto(n - 1)[n - 1]
      BY <3>1
    <3> QED
      BY <2>3, <3>3, <3>4, <3>5
  <2> QED
    BY <2>2, <2>3
<1>3. F = [d \in Nat |-> IF d = 0 THEN 1 ELSE 2 * F[d - 1]]
  <2>1. F = [n \in Nat |-> F[n]]
    OBVIOUS
  <2> HIDE DEF F
  <2> QED
    BY <1>2, <2>1
<1> HIDE DEF F
<1>4. \E f : f = [d \in Nat |-> IF d = 0 THEN 1 ELSE 2 * f[d - 1]]
  BY <1>3
<1> QED
  BY <1>4 DEF padded_size

\* A tree of depth d holds more than d leaves.
LEMMA PaddedSizeGrows ==
  ASSUME NEW d \in Nat
  PROVE  padded_size[d] \in Nat /\ d < padded_size[d]
<1> DEFINE C == {m \in Nat : ~(padded_size[m] \in Nat /\ m < padded_size[m])}
<1>1. SUFFICES ASSUME C # {} PROVE FALSE
  <2>1. d \notin C
    BY <1>1
  <2> QED
    BY <2>1
<1>2. PICK m \in C : \A j \in C : m <= j
  <2>1. C \in SUBSET Nat
    OBVIOUS
  <2> HIDE DEF C
  <2> QED
    BY <1>1, <2>1, LeastNatural
<1>3. m \in Nat /\ ~(padded_size[m] \in Nat /\ m < padded_size[m])
  OBVIOUS
<1>4. m # 0
  <2>1. padded_size[0] = 1
    BY PaddedSize
  <2> QED
    BY <2>1, <1>3
<1>5. m - 1 \in Nat /\ m - 1 \notin C
  <2>1. m - 1 \in Nat /\ ~(m <= m - 1)
    BY <1>3, <1>4
  <2> HIDE DEF C
  <2> QED
    BY <2>1, <1>2
<1>6. padded_size[m - 1] \in Nat /\ m - 1 < padded_size[m - 1]
  BY <1>5
<1>7. padded_size[m] = 2 * padded_size[m - 1]
  BY <1>3, <1>4, PaddedSize
<1> QED
  BY <1>3, <1>4, <1>6, <1>7

\* The tree of the chosen depth has room for the leaves, and no smaller tree has.
LEMMA DepthHolds ==
  ASSUME NEW n \in Nat
  PROVE  /\ depth(n) \in 0..n /\ n <= padded_size[depth(n)]
         /\ \A e \in 0..depth(n)-1 : padded_size[e] < n
<1> DEFINE C == {d \in Nat : n <= padded_size[d]}
<1>1. n \in C
  BY PaddedSizeGrows
<1>2. PICK d \in C : \A j \in C : d <= j
  <2>1. C \in SUBSET Nat /\ C # {}
    BY <1>1
  <2> HIDE DEF C
  <2> QED
    BY <2>1, LeastNatural
<1>3. d \in 0..n /\ n <= padded_size[d]
  <2>1. d <= n
    <3> HIDE DEF C
    <3> QED
      BY <1>1, <1>2
  <2> QED
    BY <2>1
<1>4. ASSUME NEW e \in 0..d-1 PROVE padded_size[e] < n
  <2>1. e \in Nat /\ ~(d <= e)
    BY <1>3
  <2>2. e \notin C
    <3> HIDE DEF C
    <3> QED
      BY <2>1, <1>2
  <2>3. padded_size[e] \in Nat
    BY <2>1, PaddedSizeGrows
  <2> QED
    BY <2>1, <2>2, <2>3
<1> QED
  BY <1>3, <1>4 DEF depth

\* A root stands for one list of leaves: none is cut off by the size of the tree.
LEMMA RootBinds ==
  ASSUME NEW n \in Nat, NEW k \in Nat, NEW s, NEW t,
         s = [i \in 1..n |-> s[i]], t = [i \in 1..k |-> t[i]],
         \A i \in 1..n : s[i] # None, \A i \in 1..k : t[i] # None,
         merkle_root(s) = merkle_root(t)
  PROVE  s = t
<1>1. Cardinality(DOMAIN s) = n /\ Cardinality(DOMAIN t) = k
  <2>1. \A m \in Nat : Cardinality(1..m) = m
    <3> TAKE m \in Nat
    <3>1. 1 \in Int /\ m \in Int
      OBVIOUS
    <3>2. Cardinality(1..m) = IF 1 > m THEN 0 ELSE m - 1 + 1
      BY <3>1, FS_Interval
    <3> QED
      BY <3>2
  <2> QED
    BY <2>1
<1>2. PICK a \in Nat, b \in Nat : /\ a = padded_size[depth(n)] /\ b = padded_size[depth(k)]
                                  /\ n <= a /\ k <= b
  BY DepthHolds, PaddedSizeGrows
<1>3. /\ merkle_root(s) = [i \in 1..a |-> IF i \in 1..n THEN s[i] ELSE None]
      /\ merkle_root(t) = [i \in 1..b |-> IF i \in 1..k THEN t[i] ELSE None]
  <2>1. DOMAIN s = 1..n /\ DOMAIN t = 1..k
    OBVIOUS
  <2> QED
    BY <2>1, <1>1, <1>2 DEF merkle_root
<1>4. ASSUME NEW i \in Nat, i \in 1..n \/ i \in 1..k
      PROVE  i \in 1..n /\ i \in 1..k /\ s[i] = t[i]
  <2>1. 1..a = 1..b
    BY <1>3
  <2>2. i \in 1..a /\ i \in 1..b
    BY <1>2, <1>4, <2>1
  <2>3. (IF i \in 1..n THEN s[i] ELSE None) = (IF i \in 1..k THEN t[i] ELSE None)
    BY <1>3, <2>2
  <2> QED
    BY <2>3, <1>4
<1>5. n = k
  <2>1. \A i \in Nat : i \in 1..n => i \in 1..k
    BY <1>4
  <2>2. \A i \in Nat : i \in 1..k => i \in 1..n
    BY <1>4
  <2>3. n \in 1..n => n <= k
    BY <2>1
  <2>4. k \in 1..k => k <= n
    BY <2>2
  <2>5. (n = 0 \/ n \in 1..n) /\ (k = 0 \/ k \in 1..k)
    OBVIOUS
  <2> QED
    BY <2>3, <2>4, <2>5
<1>6. ASSUME NEW i \in 1..n PROVE s[i] = t[i]
  <2>1. i \in Nat
    OBVIOUS
  <2> QED
    BY <2>1, <1>4
<1> QED
  BY <1>5, <1>6

\* Leaves of a tree: a list of n records.
IsLeaves(slots, n) == slots = [i \in 1..n |-> slots[i]] /\ \A i \in 1..n : slots[i] # None

\* The users who locked tokens in these blocks, with what they have locked at block last.
Balances(blocks, last) ==
  {[user |-> u, value |-> lockedTokens(u, last)] : u \in storage_slots(blocks)}

\* Whoever knows leaves under root r knows these balances, and there are such leaves.
Attests(r, blocks, last) ==
  /\ \E n \in Nat : \E slots : IsLeaves(slots, n) /\ merkle_root(slots) = r
  /\ \A n \in Nat : \A slots :
       IsLeaves(slots, n) /\ merkle_root(slots) = r =>
         {slots[i] : i \in 1..n} = Balances(blocks, last)

\* The i-th leaf of WindowIsSound is the record of the user with i - 1 users below.
Leaf(users, b, i) ==
  CHOOSE s \in [user : users, value : {lockedTokens(u, b) : u \in users}] :
    /\ s.value = lockedTokens(s.user, b)
    /\ Cardinality({u \in users : u < s.user}) = i - 1

LEMMA LeafOfRank ==
  ASSUME NEW users \in SUBSET Nat, IsFiniteSet(users), NEW b, NEW i \in Nat,
         NEW u \in users, Cardinality(Below(users, u)) = i - 1
  PROVE  Leaf(users, b, i) = [user |-> u, value |-> lockedTokens(u, b)]
<1> DEFINE R == [user : users, value : {lockedTokens(v, b) : v \in users}]
           is(s) == /\ s.value = lockedTokens(s.user, b)
                    /\ Cardinality({v \in users : v < s.user}) = i - 1
           leaf == CHOOSE s \in R : is(s)
<1>1. [user |-> u, value |-> lockedTokens(u, b)] \in R /\ is([user |-> u, value |-> lockedTokens(u, b)])
  BY DEF Below
<1>2. leaf \in R /\ is(leaf)
  <2> HIDE DEF R, is
  <2> QED
    BY <1>1
<1>3. leaf = Leaf(users, b, i)
  BY DEF Leaf
<1> HIDE DEF leaf
<1>4. leaf.user \in users /\ leaf.value = lockedTokens(leaf.user, b)
      /\ leaf = [user |-> leaf.user, value |-> leaf.value]
      /\ Cardinality(Below(users, leaf.user)) = i - 1
  BY <1>2 DEF Below
<1>5. leaf.user = u
  <2>1. PICK v \in users : v = leaf.user
    BY <1>4
  <2>2. users \in SUBSET Int /\ Cardinality(Below(users, u)) = Cardinality(Below(users, v))
    BY <1>4, <2>1
  <2>3. u = v
    BY <2>2, RankUnique
  <2> QED
    BY <2>1, <2>3
<1> QED
  BY <1>3, <1>4, <1>5

\* No record of a user is what the tree is padded with.
LEMMA NoneIsNoLeaf ==
  ASSUME NEW u \in Nat, NEW b
  PROVE  [user |-> u, value |-> lockedTokens(u, b)] # None
<1> DEFINE blocks == {c \in DOMAIN Depositors : c <= b /\ u \in Depositors[c]}
<1>1. IsFiniteSet(Slot)
  <2>1. 0 \in Int /\ MaxSlot \in Int
    BY ChainAssumption
  <2> QED
    BY <2>1, FS_Interval DEF Slot
<1>2. blocks \subseteq Slot
  BY ChainAssumption
<1> HIDE DEF blocks
<1>3. Cardinality(blocks) \in Nat
  BY <1>1, <1>2, FS_Subset, FS_CardinalityType
<1>4. lockedTokens(u, b) \in Nat
  BY <1>3 DEF lockedTokens, blocks
<1> QED
  BY <1>4, AttestationAssumption

\* A root made of the users of some blocks attests their balances.
LEMMA SoundRootAttests ==
  ASSUME NEW blocks \in SUBSET Slot, NEW last \in Slot, NEW r,
         r = merkle_root([i \in 1..Cardinality(storage_slots(blocks)) |->
               Leaf(storage_slots(blocks), last, i)])
  PROVE  Attests(r, blocks, last)
<1>1. PICK users \in SUBSET Nat : users = storage_slots(blocks) /\ IsFiniteSet(users)
  BY UsersFinite
<1>2. PICK n \in Nat : n = Cardinality(users)
  BY <1>1, FS_CardinalityType
<1>3. PICK t : t = [i \in 1..n |-> Leaf(users, last, i)]
  OBVIOUS
<1>4. r = merkle_root(t)
  BY <1>1, <1>2, <1>3
<1>5. ASSUME NEW i \in 1..n
      PROVE  \E u \in users : t[i] = [user |-> u, value |-> lockedTokens(u, last)]
  <2>1. PICK u \in users : Cardinality(Below(users, u)) = i - 1
    BY <1>1, <1>2, RankTaken
  <2> QED
    BY <2>1, <1>1, <1>3, LeafOfRank
<1>6. ASSUME NEW u \in users
      PROVE  \E i \in 1..n : t[i] = [user |-> u, value |-> lockedTokens(u, last)]
  <2>1. users \in SUBSET Int
    OBVIOUS
  <2>2. Cardinality(Below(users, u)) \in 0..n-1
    BY <1>1, <1>2, <2>1, BelowFewer
  <2>3. PICK i \in 1..n : i = Cardinality(Below(users, u)) + 1
    BY <2>2
  <2>4. i \in Nat /\ Cardinality(Below(users, u)) = i - 1
    BY <2>2, <2>3
  <2>5. Leaf(users, last, i) = [user |-> u, value |-> lockedTokens(u, last)]
    BY <1>1, <2>4, LeafOfRank
  <2> QED
    BY <2>5, <1>3
<1>7. {t[i] : i \in 1..n} = Balances(blocks, last)
  <2> DEFINE record(u) == [user |-> u, value |-> lockedTokens(u, last)]
  <2>1. \A i \in 1..n : \E u \in users : t[i] = record(u)
    BY <1>5
  <2>2. \A u \in users : \E i \in 1..n : t[i] = record(u)
    BY <1>6
  <2>3. Balances(blocks, last) = {record(u) : u \in users}
    BY <1>1 DEF Balances
  <2> HIDE DEF record
  <2> QED
    BY <2>1, <2>2, <2>3
<1>8. IsLeaves(t, n)
  <2>1. t = [i \in 1..n |-> t[i]]
    BY <1>3
  <2>2. \A i \in 1..n : t[i] # None
    <3> TAKE i \in 1..n
    <3>1. PICK u \in users : t[i] = [user |-> u, value |-> lockedTokens(u, last)]
      BY <1>5
    <3> QED
      BY <3>1, NoneIsNoLeaf, <1>1
  <2> QED
    BY <2>1, <2>2 DEF IsLeaves
<1>9. ASSUME NEW k \in Nat, NEW slots, IsLeaves(slots, k), merkle_root(slots) = r
      PROVE  {slots[i] : i \in 1..k} = Balances(blocks, last)
  <2>1. slots = t
    BY <1>4, <1>8, <1>9, RootBinds DEF IsLeaves
  <2>2. 1..k = 1..n
    BY <1>8, <1>9, <2>1 DEF IsLeaves
  <2> QED
    BY <1>7, <2>1, <2>2
<1> QED
  BY <1>4, <1>8, <1>9 DEF Attests

-----------------------------------------------------------------------------
(* Good data is accepted: what every step of a good attempt leads to.        *)

\* What is seen at a slot was signed by then.
LEMMA SignedByNow ==
  ASSUME NEW t \in Slot
  PROVE  /\ \A p : \A u \in Updates(p, t) : u.signature <= t
         /\ \A f \in FinalityUpdates(t) : f.signature <= t
BY DEF Updates, FinalityUpdates, Signed, Attested, Slot

\* The update of the period after a store's verifies, and takes the store to its own
\* period unless the finality update ends before.
LEMMA GoodUpdateApplies ==
  ASSUME NEW t \in Slot, NEW p, NEW u \in Updates(p, t), NEW f, f.finalized \in Slot, Good(u, f),
         NEW store \in Store, OnChain(store), store.next # None,
         store.slot <= f.finalized, period[store.slot] = p - 1
  PROVE  LET s == apply_update(store, u) IN
         /\ Verify(u, t, store)
         /\ s.next # None /\ store.slot <= s.slot /\ s.slot <= f.finalized
         /\ period[s.slot] = IF p <= period[f.finalized] THEN p ELSE p - 1
         /\ p <= period[f.finalized] + 1
<1>1. /\ u.attested \in Slot /\ u.finalized \in Slot /\ u.signature \in Slot
      /\ u.finalized < u.attested /\ u.attested < u.signature /\ u.signature <= t
      /\ period[u.attested] = p /\ period[u.signature] = p /\ u.next = p + 1 /\ p \in Nat
  BY UpdateFacts, SignedByNow
<1>2. /\ u.majority /\ u.finalized <= f.finalized /\ p <= period[f.finalized] + 1
      /\ period[u.finalized] = p \/ p > period[f.finalized]
  BY <1>1 DEF Good
<1>3. /\ store.slot \in Slot /\ period[store.slot] \in Nat /\ period[u.finalized] \in Nat
      /\ period[f.finalized] \in Nat /\ u.next # None
      /\ store = [slot |-> store.slot, current |-> p - 1, next |-> p]
  BY <1>1, ChainAssumption DEF Store, OnChain
<1>4. u.attested > store.slot
  BY <1>1, <1>3, PeriodMonotone DEF Slot
<1>5. Verify(u, t, store)
  BY <1>1, <1>3, <1>4 DEF Verify, signers, Slot
<1>6. CASE p <= period[f.finalized]
  <2>1. period[u.finalized] = p
    BY <1>1, <1>2, <1>3, <1>6
  <2>2. u.finalized > store.slot
    BY <2>1, <1>1, <1>3, PeriodMonotone DEF Slot
  <2>3. apply_update(store, u) = [slot |-> u.finalized, current |-> p, next |-> p + 1]
    BY <2>1, <2>2, <1>1, <1>2, <1>3 DEF apply_update
  <2> QED
    BY <2>1, <2>2, <2>3, <1>1, <1>2, <1>3, <1>5, <1>6 DEF Slot
<1>7. CASE ~(p <= period[f.finalized])
  <2>1. ASSUME u.finalized > store.slot
        PROVE  period[u.finalized] = p - 1
    <3>1. period[store.slot] <= period[u.finalized]
      BY <2>1, <1>1, <1>3, PeriodMonotone DEF Slot
    <3>2. period[u.finalized] <= period[f.finalized]
      BY <1>1, <1>2, PeriodMonotone
    <3> QED
      BY <3>1, <3>2, <1>1, <1>2, <1>3, <1>7
  <2>2. CASE u.finalized > store.slot
    <3>1. apply_update(store, u) = [slot |-> u.finalized, current |-> p - 1, next |-> p]
      BY <2>1, <2>2, <1>1, <1>2, <1>3 DEF apply_update
    <3> QED
      BY <3>1, <2>1, <2>2, <1>1, <1>2, <1>3, <1>5, <1>7 DEF Slot
  <2>3. CASE ~(u.finalized > store.slot)
    <3>1. apply_update(store, u) = store
      BY <2>3, <1>3 DEF apply_update
    <3> QED
      BY <3>1, <1>1, <1>2, <1>3, <1>5, <1>7 DEF Slot
  <2> QED
    BY <2>2, <2>3
<1> QED
  BY <1>6, <1>7

\* A first update that is kept verifies against the head and stays in its period.
LEMMA GoodFirstApplies ==
  ASSUME NEW t \in Slot, NEW store \in Store, OnChain(store), store.next # None,
         NEW u \in Updates(period[store.slot], t), NEW f, f.finalized \in Slot, Good(u, f),
         store.slot <= f.finalized, ~FirstIsBehind(u, store.slot)
  PROVE  LET s == apply_update(store, u) IN
         /\ Verify(u, t, store)
         /\ s.next # None /\ store.slot <= s.slot /\ s.slot <= f.finalized
         /\ period[s.slot] = period[store.slot]
<1> DEFINE P == period[store.slot]
<1>1. /\ u.attested \in Slot /\ u.finalized \in Slot /\ u.signature \in Slot
      /\ u.finalized < u.attested /\ u.attested < u.signature /\ u.signature <= t
      /\ period[u.attested] = P /\ period[u.signature] = P /\ u.next = P + 1 /\ P \in Nat
  BY UpdateFacts, SignedByNow
<1>2. /\ store.slot \in Slot /\ store.slot <= u.finalized /\ u.finalized <= f.finalized
      /\ u.majority
      /\ store = [slot |-> store.slot, current |-> P, next |-> P + 1]
  BY <1>1 DEF Store, OnChain, Good, FirstIsBehind, Slot
<1>3. P <= period[f.finalized] /\ period[f.finalized] \in Nat /\ period[u.finalized] \in Nat
  BY <1>1, <1>2, PeriodMonotone
<1>4. period[u.finalized] = P
  BY <1>1, <1>3 DEF Good
<1>5. Verify(u, t, store)
  BY <1>1, <1>2 DEF Verify, signers, Slot
<1>6. apply_update(store, u) =
        IF u.finalized > store.slot THEN [slot |-> u.finalized, current |-> P, next |-> P + 1]
        ELSE store
  BY <1>1, <1>2, <1>4 DEF apply_update
<1> QED
  BY <1>1, <1>2, <1>4, <1>5, <1>6 DEF Slot

\* A recent finality update verifies against a store that reached its period, and
\* takes the store to the block that it finalizes.
LEMMA GoodFinalityApplies ==
  ASSUME NEW t \in Slot, NEW f \in FinalityUpdates(t), f.majority, Recent(f),
         NEW store \in Store, OnChain(store), store.next # None,
         store.slot <= f.finalized, period[store.slot] = period[f.finalized]
  PROVE  LET s == apply_update(store, f) IN
         Verify(f, t, store) /\ s.next # None /\ s.slot = f.finalized
<1> DEFINE P == period[store.slot]
<1>1. /\ f.attested \in Slot /\ f.finalized \in Slot /\ f.signature \in Slot
      /\ f.finalized < f.attested /\ f.attested < f.signature /\ f.signature <= t
      /\ f.next = None
  BY FinalityFacts, SignedByNow
<1>2. /\ store.slot \in Slot /\ P \in Nat /\ P + 1 # None /\ period[f.signature] \in Nat
      /\ store = [slot |-> store.slot, current |-> P, next |-> P + 1]
  BY <1>1, ChainAssumption DEF Store, OnChain
<1>3. period[f.signature] = P \/ period[f.signature] = P + 1
  <2>1. period[f.finalized] <= period[f.signature]
    BY <1>1, PeriodMonotone DEF Slot
  <2> QED
    BY <2>1, <1>2 DEF Recent
<1>4. Verify(f, t, store)
  BY <1>1, <1>2, <1>3 DEF Verify, signers, Slot
<1>5. CASE f.finalized > store.slot
  <2>1. apply_update(store, f) = [slot |-> f.finalized, current |-> P, next |-> P + 1]
    BY <1>1, <1>2, <1>5 DEF apply_update
  <2> QED
    BY <2>1, <1>2, <1>4
<1>6. CASE ~(f.finalized > store.slot)
  <2>1. apply_update(store, f) = store /\ store.slot = f.finalized
    BY <1>1, <1>2, <1>6 DEF apply_update, Slot
  <2> QED
    BY <2>1, <1>4
<1> QED
  BY <1>5, <1>6

\* What the finality update of a good attempt is.
GoodFinality(f) ==
  /\ head.next # None /\ f.majority /\ Recent(f)
  /\ f.finalized > head.slot /\ f.finalized \in Checkpoint

\* The store of a good attempt is one period behind the list of updates, until it
\* has reached the period of the finality update.
GoodStore(f) ==
  /\ attempt.store.next # None
  /\ head.slot <= attempt.store.slot /\ attempt.store.slot <= f.finalized
  /\ \/ /\ attempt.period <= period[f.finalized] + 1
        /\ period[attempt.store.slot] = attempt.period - 1
     \/ /\ attempt.period > period[f.finalized] + 1
        /\ period[attempt.store.slot] = period[f.finalized]
  /\ attempt.first # None =>
       /\ attempt.store = head /\ attempt.period = period[head.slot] + 1
       /\ ~FirstIsBehind(attempt.first, head.slot) /\ Good(attempt.first, f)

GoodInv ==
  attempt.good =>
    LET f == attempt.finality_update IN
    /\ attempt.pc # "rejected"
    /\ attempt.pc \in {"finality", "program", "window"} => GoodFinality(f)
    /\ attempt.pc = "program" => GoodStore(f)
    /\ attempt.pc = "window" => attempt.store.slot = f.finalized

\* An attempt that is over and was good was not rejected.
LEMMA GoodOver ==
  ASSUME attempt' = Idle \/ attempt' = Rejected(FALSE)
  PROVE  GoodInv'
BY DEF GoodInv, Idle, Rejected, At

LEMMA GoodFetchFinality == IInv /\ GoodInv /\ FetchFinality => GoodInv'
<1> SUFFICES ASSUME FetchFinality PROVE GoodInv'
  OBVIOUS
<1>1. PICK f \in FinalityUpdates(now), g \in BOOLEAN :
        g = GoodFinality(f) /\ attempt' = At("finality", f, None, 0, None, g)
  BY DEF FetchFinality, GoodFinality
<1>2. attempt'.pc = "finality" /\ attempt'.finality_update = f /\ attempt'.good = g
  BY <1>1, AtFields
<1>3. head' = head
  BY DEF FetchFinality
<1>4. g => GoodFinality(f)'
  BY <1>1, <1>3 DEF GoodFinality
<1> QED
  BY <1>2, <1>4 DEF GoodInv

LEMMA GoodFetchUpdates == IInv /\ GoodInv /\ FetchUpdates => GoodInv'
<1> SUFFICES ASSUME IInv, GoodInv, FetchUpdates PROVE GoodInv'
  OBVIOUS
<1>0. PICK f : f = attempt.finality_update
  OBVIOUS
<1> DEFINE first(u) == IF FirstIsBehind(u, head.slot) THEN None ELSE u
<1>1. PICK u \in Updates(period[head.slot], now), g \in BOOLEAN :
        /\ g = (attempt.good /\ Good(u, f))
        /\ attempt' = IF Verify(u, now, Bootstrap(head.slot)) /\ Restored(head.slot, u) = head
                      THEN At("program", f, first(u), period[head.slot] + 1, head, g)
                      ELSE Rejected(g)
  BY <1>0 DEF FetchUpdates
<1>2. /\ head' = head /\ now \in Slot /\ head \in Store /\ OnChain(head) /\ head.slot \in Slot
      /\ f \in FinalityUpdates(now) /\ attempt.pc = "finality"
  BY <1>0 DEF FetchUpdates, IInv, TypeOK, AttemptInv, Store
<1>3. attempt'.good = g
  BY <1>1, AtFields DEF Rejected
<1>4. CASE ~g
  BY <1>3, <1>4 DEF GoodInv
<1>5. CASE g
  <2>1. GoodFinality(f) /\ Good(u, f)
    BY <1>0, <1>1, <1>2, <1>5 DEF GoodInv
  <2>2. f.finalized \in Slot /\ period[head.slot] \in Nat /\ period[f.finalized] \in Nat
        /\ period[head.slot] <= period[f.finalized]
    BY <2>1, <1>2, FinalityFacts, PeriodMonotone DEF GoodFinality, Slot
  <2>3. u.majority /\ period[u.finalized] = period[head.slot]
    BY <2>1, <2>2, <1>2, UpdateFacts DEF Good
  <2>4. Verify(u, now, Bootstrap(head.slot)) /\ Restored(head.slot, u) = head
    BY <2>1, <2>3, Recoverable DEF HeadIsRecoverable, GoodFinality
  <2>5. attempt' = At("program", f, first(u), period[head.slot] + 1, head, g)
    BY <2>4, <1>1
  <2>6. /\ attempt'.pc = "program" /\ attempt'.finality_update = f /\ attempt'.first = first(u)
        /\ attempt'.period = period[head.slot] + 1 /\ attempt'.store = head
    BY <2>5, AtFields
  <2>7. GoodFinality(f)'
    BY <2>1, <2>6, <1>2 DEF GoodFinality
  <2>8. GoodStore(f)'
    <3>1. head.next # None /\ head.slot <= head.slot /\ head.slot <= f.finalized
      BY <2>1, <2>2, <1>2 DEF GoodFinality, Slot
    <3>2. /\ period[head.slot] + 1 <= period[f.finalized] + 1
          /\ period[head.slot] = (period[head.slot] + 1) - 1
      BY <2>2
    <3>3. first(u) # None => ~FirstIsBehind(first(u), head.slot) /\ Good(first(u), f)
      BY <2>1
    <3> HIDE DEF first
    <3> QED
      BY <3>1, <3>2, <3>3, <2>6, <1>2 DEF GoodStore
  <2> QED
    BY <2>6, <2>7, <2>8 DEF GoodInv
<1> QED
  BY <1>4, <1>5

LEMMA GoodApplyUpdate == IInv /\ GoodInv /\ ApplyUpdate => GoodInv'
<1> SUFFICES ASSUME IInv, GoodInv, ApplyUpdate PROVE GoodInv'
  OBVIOUS
<1>0. PICK f, s, p : /\ f = attempt.finality_update /\ s = attempt.store
                     /\ p = IF attempt.first = None THEN attempt.period + 1 ELSE attempt.period
  OBVIOUS
<1>1. PICK u \in NextUpdates, g \in BOOLEAN :
        /\ g = (attempt.good /\ Good(u, f))
        /\ attempt' = IF Verify(u, now, s)
                      THEN At("program", f, None, p, apply_update(s, u), g)
                      ELSE Rejected(g)
  BY <1>0 DEF ApplyUpdate
<1>2. /\ head' = head /\ now \in Slot /\ head \in Store /\ head.slot \in Slot
      /\ f \in FinalityUpdates(now) /\ attempt.pc = "program" /\ attempt.period \in Nat
      /\ s \in Store /\ OnChain(s) /\ s.slot \in Slot
  BY <1>0 DEF ApplyUpdate, IInv, TypeOK, AttemptInv, Store, Attempt
<1>3. attempt'.good = g
  BY <1>1, AtFields DEF Rejected
<1>4. CASE ~g
  BY <1>3, <1>4 DEF GoodInv
<1>5. CASE g
  <2>1. GoodFinality(f) /\ GoodStore(f) /\ Good(u, f)
    BY <1>0, <1>1, <1>2, <1>5 DEF GoodInv
  <2>2. f.finalized \in Slot /\ period[f.finalized] \in Nat /\ period[head.slot] \in Nat
    BY <1>2, FinalityFacts, ChainAssumption
  <2>3. /\ s.next # None /\ head.slot <= s.slot /\ s.slot <= f.finalized
        /\ \/ /\ attempt.period <= period[f.finalized] + 1
              /\ period[s.slot] = attempt.period - 1
           \/ /\ attempt.period > period[f.finalized] + 1
              /\ period[s.slot] = period[f.finalized]
    BY <2>1, <1>0 DEF GoodStore
  <2> DEFINE t == apply_update(s, u)
             Applied == /\ Verify(u, now, s)
                        /\ t.next # None /\ s.slot <= t.slot /\ t.slot <= f.finalized
                        /\ \/ /\ p <= period[f.finalized] + 1
                              /\ period[t.slot] = p - 1
                           \/ /\ p > period[f.finalized] + 1
                              /\ period[t.slot] = period[f.finalized]
  <2>4. ASSUME attempt.first # None PROVE Applied
    <3>1. /\ s = head /\ u = attempt.first /\ p = period[head.slot] + 1
          /\ ~FirstIsBehind(u, s.slot) /\ u \in Updates(period[s.slot], now)
      BY <2>1, <2>4, <1>0, <1>1 DEF GoodStore, NextUpdates, IInv, AttemptInv
    <3>2. /\ Verify(u, now, s)
          /\ t.next # None /\ s.slot <= t.slot /\ t.slot <= f.finalized
          /\ period[t.slot] = period[s.slot]
      BY <3>1, <2>1, <2>2, <2>3, <1>2, GoodFirstApplies
    <3>3. period[head.slot] <= period[f.finalized]
      BY <3>1, <2>2, <2>3, <1>2, PeriodMonotone
    <3> HIDE DEF t
    <3> QED
      BY <3>1, <3>2, <3>3, <2>2
  <2>5. ASSUME attempt.first = None PROVE Applied
    <3>1. u \in Updates(attempt.period, now) /\ p = attempt.period + 1
      BY <2>5, <1>0, <1>1 DEF NextUpdates
    <3>2. attempt.period <= period[f.finalized] + 1
      BY <3>1, <2>1, <1>2, UpdateFacts DEF Good
    <3>3. period[s.slot] = attempt.period - 1
      BY <3>2, <2>2, <2>3, <1>2
    <3>4. /\ Verify(u, now, s)
          /\ t.next # None /\ s.slot <= t.slot /\ t.slot <= f.finalized
          /\ period[t.slot] = IF attempt.period <= period[f.finalized]
                              THEN attempt.period ELSE attempt.period - 1
      BY <3>1, <3>3, <2>1, <2>2, <2>3, <1>2, GoodUpdateApplies
    <3> HIDE DEF t
    <3> QED
      BY <3>1, <3>2, <3>4, <2>2, <1>2
  <2>6. Applied
    BY <2>4, <2>5
  <2>7. /\ attempt'.pc = "program" /\ attempt'.finality_update = f /\ attempt'.first = None
        /\ attempt'.period = p /\ attempt'.store = t
    BY <2>6, <1>1, AtFields
  <2>8. t \in Store
    <3>1. Genuine(u)
      BY <1>1, <1>2, UpdatesAreGenuine DEF NextUpdates, IInv, AttemptInv
    <3> QED
      BY <3>1, <2>6, <1>2, ApplyKeepsChain
  <2>9. GoodFinality(f)'
    BY <2>1, <1>2 DEF GoodFinality
  <2>10. GoodStore(f)'
    <3>1. head.slot <= t.slot /\ t.slot \in Slot
      <4> HIDE DEF t
      <4>1. t.slot \in Slot
        BY <2>8 DEF Store
      <4> QED
        BY <4>1, <2>3, <2>6, <1>2 DEF Slot
    <3> HIDE DEF t
    <3> QED
      BY <3>1, <2>6, <2>7, <1>2 DEF GoodStore
  <2> QED
    BY <2>7, <2>9, <2>10 DEF GoodInv
<1> QED
  BY <1>4, <1>5

LEMMA GoodApplyFinality == IInv /\ GoodInv /\ ApplyFinality => GoodInv'
<1> SUFFICES ASSUME IInv, GoodInv, ApplyFinality PROVE GoodInv'
  OBVIOUS
<1>0. PICK f, s : f = attempt.finality_update /\ s = attempt.store
  OBVIOUS
<1>1. PICK g \in BOOLEAN :
        /\ g = (attempt.good /\ attempt.period > period[f.finalized])
        /\ attempt' = IF Verify(f, now, s) /\ Validated(apply_update(s, f))
                      THEN At("window", f, None, 0, apply_update(s, f), g) ELSE Rejected(g)
  BY <1>0 DEF ApplyFinality
<1>2. /\ head' = head /\ now \in Slot /\ head.slot \in Slot
      /\ f \in FinalityUpdates(now) /\ attempt.pc = "program" /\ attempt.period \in Nat
      /\ s \in Store /\ OnChain(s) /\ s.slot \in Slot
  BY <1>0 DEF ApplyFinality, IInv, TypeOK, AttemptInv, Store, Attempt
<1>3. attempt'.good = g
  BY <1>1, AtFields DEF Rejected
<1>4. CASE ~g
  BY <1>3, <1>4 DEF GoodInv
<1>5. CASE g
  <2>1. GoodFinality(f) /\ GoodStore(f) /\ attempt.period > period[f.finalized]
    BY <1>0, <1>1, <1>2, <1>5 DEF GoodInv
  <2>2. f.finalized \in Slot /\ period[f.finalized] \in Nat
    BY <1>2, FinalityFacts, ChainAssumption
  <2>3. s.next # None /\ s.slot <= f.finalized /\ period[s.slot] = period[f.finalized]
    BY <2>1, <2>2, <1>0, <1>2 DEF GoodStore
  <2>4. /\ Verify(f, now, s)
        /\ apply_update(s, f).next # None /\ apply_update(s, f).slot = f.finalized
    BY <2>1, <2>3, <1>2, GoodFinalityApplies DEF GoodFinality
  <2>5. Validated(apply_update(s, f))
    BY <2>1, <2>4 DEF Validated, GoodFinality
  <2>6. /\ attempt'.pc = "window" /\ attempt'.finality_update = f
        /\ attempt'.store = apply_update(s, f)
    BY <2>4, <2>5, <1>1, AtFields
  <2>7. GoodFinality(f)'
    BY <2>1, <1>2 DEF GoodFinality
  <2>8. attempt'.store.slot = f.finalized
    BY <2>4, <2>6
  <2> QED
    BY <2>6, <2>7, <2>8 DEF GoodInv
<1> QED
  BY <1>4, <1>5

\* The slots are read at the block they are proved at: what is rejected here does not fit.
LEMMA GoodDryRun == IInv /\ GoodInv /\ DryRun => GoodInv'
<1> SUFFICES ASSUME IInv, GoodInv, DryRun PROVE GoodInv'
  OBVIOUS
<1>0. PICK last : last = attempt.finality_update.finalized
  OBVIOUS
<1>1. PICK blocks \in EventReads(head.slot, last) : \E answer \in Answers(storage_slots(blocks), last) :
        IF Verifies(attempt.store.slot, last, sorted(answer))
        THEN attempt' = [attempt EXCEPT !.pc = "proving"]
        ELSE attempt' = Rejected(attempt.good /\ Fits(storage_slots(blocks)))
  BY <1>0 DEF DryRun
<1>2. PICK answer \in Answers(storage_slots(blocks), last) :
        IF Verifies(attempt.store.slot, last, sorted(answer))
        THEN attempt' = [attempt EXCEPT !.pc = "proving"]
        ELSE attempt' = Rejected(attempt.good /\ Fits(storage_slots(blocks)))
  BY <1>1
<1>3. /\ now \in Slot /\ head.slot \in Slot /\ attempt \in Attempt /\ attempt.pc = "window"
      /\ attempt.finality_update \in FinalityUpdates(now)
  BY DEF DryRun, IInv, TypeOK, AttemptInv, Store
<1>4. last \in Slot
  BY <1>0, <1>3, FinalityFacts
<1>5. blocks \in SUBSET Slot
  BY <1>1, <1>3, <1>4, ReadsInWindow
<1> DEFINE users == storage_slots(blocks)
<1>6. users \in SUBSET Nat /\ IsFiniteSet(users)
  BY <1>5, UsersFinite
<1>7. CASE Verifies(attempt.store.slot, last, sorted(answer))
  <2>1. attempt'.pc = "proving"
    BY <1>2, <1>3, <1>7 DEF Attempt
  <2> QED
    BY <2>1 DEF GoodInv
<1>8. CASE ~Verifies(attempt.store.slot, last, sorted(answer))
  <2>1. attempt' = Rejected(attempt.good /\ Fits(users))
    BY <1>2, <1>8
  <2>2. ASSUME attempt.good, Fits(users) PROVE FALSE
    <3>1. attempt.store.slot = last
      BY <1>0, <1>3, <2>2 DEF GoodInv
    <3> HIDE DEF users
    <3>2. answer \in Answers(users, last)
      BY DEF users
    <3>3. /\ DOMAIN sorted(answer) = 1..Cardinality(users)
          /\ \A i \in 1..Cardinality(users) :
                sorted(answer)[i].value = lockedTokens(sorted(answer)[i].user, last)
      BY <1>6, <3>2, AnswersAgree, SortedAnswer
    <3>4. Cardinality(DOMAIN sorted(answer)) = Cardinality(users)
      <4>1. PICK n \in Nat : n = Cardinality(users)
        BY <1>6, FS_CardinalityType
      <4>2. 1 \in Int /\ n \in Int
        OBVIOUS
      <4>3. Cardinality(1..n) = IF 1 > n THEN 0 ELSE n - 1 + 1
        BY <4>2, FS_Interval
      <4>4. Cardinality(1..n) = n
        BY <4>3
      <4> QED
        BY <4>1, <4>4, <3>3
    <3>5. Verifies(attempt.store.slot, last, sorted(answer))
      BY <2>2, <3>1, <3>3, <3>4 DEF Verifies, Fits
    <3> QED
      BY <3>5, <1>8
  <2>3. attempt' = Rejected(FALSE)
    BY <2>1, <2>2
  <2> QED
    BY <2>3, GoodOver
<1> QED
  BY <1>7, <1>8

LEMMA GoodOthers == IInv /\ GoodInv /\ (Proved \/ GiveUp \/ NewSlot \/ UNCHANGED vars) => GoodInv'
<1>1. Proved \/ GiveUp => GoodInv'
  BY GoodOver DEF Proved, GiveUp
<1>2. GoodInv /\ (NewSlot \/ UNCHANGED vars) => GoodInv'
  BY DEF NewSlot, vars, GoodInv, GoodFinality, GoodStore
<1> QED
  BY <1>1, <1>2

\* What an up-to-date provider answers is never rejected, on any chain: whatever of it the
\* provider picks, FetchUpdates, ApplyUpdate, ApplyFinality and DryRun, the steps of
\* prepare_consensus_mpt_proof_inputs, accept it.
THEOREM GoodDataAccepted == Spec => []GoodDataIsAccepted
<1>1. Init => GoodInv
  <2>1. Idle.pc = "idle"
    BY DEF Idle, At
  <2>2. Init => attempt.pc = "idle"
    BY <2>1 DEF Init
  <2> QED
    BY <2>2 DEF GoodInv
<1>2. IInv /\ GoodInv /\ [Next]_vars => GoodInv'
  BY GoodFetchFinality, GoodFetchUpdates, GoodApplyUpdate, GoodApplyFinality, GoodDryRun,
     GoodOthers DEF Next
<1>3. GoodInv => GoodDataIsAccepted
  BY DEF GoodInv, GoodDataIsAccepted
<1> QED
  BY <1>1, <1>2, <1>3, InvHolds, PTL DEF Spec

-----------------------------------------------------------------------------
(* What a window that is to be proved attests is true.                       *)

LEMMA DryRunIsSound == IInv /\ DryRun => WindowIsSound'
<1> SUFFICES ASSUME IInv, DryRun PROVE WindowIsSound'
  OBVIOUS
<1>0. PICK last : last = attempt.finality_update.finalized
  OBVIOUS
<1>1. PICK blocks \in EventReads(head.slot, last) : \E answer \in Answers(storage_slots(blocks), last) :
        IF Verifies(attempt.store.slot, last, sorted(answer))
        THEN /\ attempt' = [attempt EXCEPT !.pc = "proving"]
             /\ root' = merkle_root(sorted(answer)) /\ read' = blocks
        ELSE attempt' = Rejected(attempt.good /\ Fits(storage_slots(blocks)))
  BY <1>0 DEF DryRun
<1>2. PICK answer \in Answers(storage_slots(blocks), last) :
        IF Verifies(attempt.store.slot, last, sorted(answer))
        THEN /\ attempt' = [attempt EXCEPT !.pc = "proving"]
             /\ root' = merkle_root(sorted(answer)) /\ read' = blocks
        ELSE attempt' = Rejected(attempt.good /\ Fits(storage_slots(blocks)))
  BY <1>1
<1>3. /\ head' = head /\ now \in Slot /\ head.slot \in Slot /\ attempt \in Attempt
      /\ attempt.pc = "window" /\ attempt.finality_update \in FinalityUpdates(now)
  BY DEF DryRun, IInv, TypeOK, AttemptInv, Store
<1>4. CASE ~Verifies(attempt.store.slot, last, sorted(answer))
  <2>1. attempt'.pc = "rejected"
    BY <1>2, <1>4, AtFields DEF Rejected
  <2> QED
    BY <2>1 DEF WindowIsSound
<1>5. CASE Verifies(attempt.store.slot, last, sorted(answer))
  <2>1. /\ attempt'.store.slot = last /\ head'.slot = head.slot
        /\ root' = merkle_root(sorted(answer)) /\ read' = blocks
    BY <1>2, <1>3, <1>5 DEF Attempt, Verifies
  <2>2. last \in Slot
    BY <1>0, <1>3, FinalityFacts
  <2>3. blocks \in SUBSET Slot /\ blocks \subseteq head.slot..last
    BY <1>1, <1>3, <2>2, ReadsInWindow
  <2> DEFINE users == storage_slots(blocks)
             listed(S) == [i \in 1..Cardinality(S) |->
               CHOOSE s \in [user : S, value : {lockedTokens(u, last) : u \in S}] :
                 /\ s.value = lockedTokens(s.user, last)
                 /\ Cardinality({u \in S : u < s.user}) = i - 1]
  <2>4. users \in SUBSET Nat /\ IsFiniteSet(users)
    BY <2>3, UsersFinite
  <2> HIDE DEF users
  <2>5. sorted(answer) = listed(users)
    BY <2>4, AnswersAgree DEF users
  <2> HIDE DEF listed
  <2>6. root' = merkle_root(listed(users))
    BY <2>1, <2>5
  <2> QED
    BY <2>1, <2>3, <2>6 DEF WindowIsSound, users, listed
<1> QED
  BY <1>4, <1>5

\* Nothing but a dry run makes a window that is to be proved, and none such is changed.
LEMMA OthersAreSound == WindowIsSound /\ [Next]_vars /\ ~DryRun => WindowIsSound'
<1> SUFFICES ASSUME WindowIsSound, [Next]_vars, ~DryRun PROVE WindowIsSound'
  OBVIOUS
<1>1. CASE FetchFinality \/ FetchUpdates \/ ApplyUpdate \/ ApplyFinality
  <2>1. PICK pc \in {"finality", "program", "window", "rejected"} :
          \E f, u, p, s, g : attempt' = At(pc, f, u, p, s, g)
    BY <1>1 DEF FetchFinality, FetchUpdates, ApplyUpdate, ApplyFinality, Rejected
  <2>2. attempt'.pc = pc
    BY <2>1, AtFields
  <2> QED
    BY <2>2 DEF WindowIsSound
<1>2. CASE Proved \/ GiveUp
  <2>1. attempt'.pc = "idle"
    BY <1>2 DEF Proved, GiveUp, Idle, At
  <2> QED
    BY <2>1 DEF WindowIsSound
<1>3. CASE NewSlot
  BY <1>3 DEF NewSlot, windowVars, WindowIsSound
<1>4. CASE UNCHANGED vars
  BY <1>4 DEF vars, windowVars, WindowIsSound
<1> QED
  BY <1>1, <1>2, <1>3, <1>4 DEF Next

\* The leaves that a window is proved with are true at its last block, are of users who
\* locked tokens in the window, and are the same for every provider that had the same
\* blocks: DryRun asks for the balances at the block that the finality update names, in
\* whatever order they are answered, and the program reads them at the block the store
\* ended at. Which blocks the provider had is left open, as nothing in the code asks.
THEOREM WindowSound == Spec => []WindowIsSound
<1>1. Init => WindowIsSound
  <2>1. Idle.pc = "idle"
    BY DEF Idle, At
  <2> QED
    BY <2>1 DEF Init, WindowIsSound
<1>2. IInv /\ WindowIsSound /\ [Next]_vars => WindowIsSound'
  BY DryRunIsSound, OthersAreSound
<1> QED
  BY <1>1, <1>2, InvHolds, PTL DEF Spec

\* What the bytes of a proof tell its reader: whoever has leaves under the root that a
\* window is proved with (verify_storage_slot_proofs) has the balances of the users of the
\* blocks that the provider had when it was asked for events, all of them and of nobody
\* else. A user of another block of the window may be missing from them.
THEOREM RootIsOpened ==
  Spec => [](attempt.pc = "proving" =>
               /\ read \subseteq head.slot..attempt.store.slot
               /\ Attests(root, read, attempt.store.slot))
<1>1. IInv /\ WindowIsSound /\ attempt.pc = "proving" =>
        /\ read \subseteq head.slot..attempt.store.slot
        /\ Attests(root, read, attempt.store.slot)
  <2> SUFFICES ASSUME IInv, WindowIsSound, attempt.pc = "proving"
               PROVE  /\ read \subseteq head.slot..attempt.store.slot
                      /\ Attests(root, read, attempt.store.slot)
    OBVIOUS
  <2>1. attempt.store.slot \in Slot /\ read \in SUBSET Slot
    BY DEF IInv, TypeOK, AttemptInv, Store
  <2>2. PICK blocks \in SUBSET Slot, last \in Slot : blocks = read /\ last = attempt.store.slot
    BY <2>1
  <2>3. root = merkle_root([i \in 1..Cardinality(storage_slots(blocks)) |->
                 Leaf(storage_slots(blocks), last, i)])
    BY <2>2 DEF WindowIsSound, Leaf
  <2>4. Attests(root, blocks, last)
    BY <2>3, SoundRootAttests
  <2> QED
    BY <2>2, <2>4 DEF WindowIsSound
<1> QED
  BY <1>1, InvHolds, WindowSound, PTL

\* When the head moves, the root that was proved holds true balances at the new head's
\* block, of users of the blocks from the old head's to the new head's. Both ends belong
\* to the window, so the block two windows meet at is in both; a window whose provider
\* had all of its blocks holds every user who locked tokens in it.
THEOREM MovesAreAttested ==
  Spec => [][head' # head =>
               /\ read \subseteq head.slot..head'.slot
               /\ Attests(root, read, head'.slot)
               /\ read = head.slot..head'.slot =>
                    \A b \in head.slot..head'.slot : \A u \in Depositors[b] :
                      [user |-> u, value |-> lockedTokens(u, head'.slot)]
                        \in Balances(read, head'.slot)]_vars
<1> DEFINE Opened == attempt.pc = "proving" =>
             /\ read \subseteq head.slot..attempt.store.slot
             /\ Attests(root, read, attempt.store.slot)
           Moved == head' # head =>
               /\ read \subseteq head.slot..head'.slot
               /\ Attests(root, read, head'.slot)
               /\ read = head.slot..head'.slot =>
                    \A b \in head.slot..head'.slot : \A u \in Depositors[b] :
                      [user |-> u, value |-> lockedTokens(u, head'.slot)]
                        \in Balances(read, head'.slot)
<1>1. Opened /\ [Next]_vars => [Moved]_vars
  <2> SUFFICES ASSUME Opened, [Next]_vars, head' # head PROVE Moved
    OBVIOUS
  <2>1. Proved
    BY DEF Next, FetchFinality, FetchUpdates, ApplyUpdate, ApplyFinality, DryRun, GiveUp,
           NewSlot, vars
  <2>2. /\ read \subseteq head.slot..head'.slot
        /\ Attests(root, read, head'.slot)
    BY <2>1 DEF Proved
  <2>3. ASSUME read = head.slot..head'.slot, NEW b \in head.slot..head'.slot,
               NEW u \in Depositors[b]
        PROVE  [user |-> u, value |-> lockedTokens(u, head'.slot)]
                 \in Balances(read, head'.slot)
    BY <2>3 DEF Balances, storage_slots
  <2> QED
    BY <2>2, <2>3
<1>2. Spec => []Opened
  BY RootIsOpened
<1> QED
  BY <1>1, <1>2, PTL DEF Spec
=============================================================================
