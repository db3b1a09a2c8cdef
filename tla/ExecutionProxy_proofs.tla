------------------------ MODULE ExecutionProxy_proofs ------------------------
(***************************************************************************)
(* Proofs about the execution proxy, for every number of providers, every   *)
(* window, chunk size and number of retries.                                *)
(***************************************************************************)
EXTENDS ExecutionProxy, TLAPS

Attempts == [pc : Running \cup Failed \cup {"idle", "ok"}, current_block : Nat,
             retries : 0..MAX_RETRIES, got : [Block -> Nat], asked : Nat, behind : BOOLEAN]

(* A future that has not begun, and one that is over, are well typed.        *)
LEMMA FutureType ==
  ASSUME start_block \in Block, NEW s \in Running \cup Failed \cup {"idle", "ok"}
  PROVE  Future(s) \in Attempts
<1>1. [b \in Block |-> 0] \in [Block -> Nat]
  OBVIOUS
<1> QED
  BY <1>1, ProxyAssumption DEF Future, Attempts, Block

(* The last block of a chunk, and the answer for it.                         *)
LEMMA ChunkEnd ==
  ASSUME TypeOK, NEW p \in Provider
  PROVE  /\ attempt[p].current_block \in Nat
         /\ chunk_end(p) \in Nat
         /\ chunk_end(p) <= end_block
         /\ chunk_end(p) <= attempt[p].current_block + CHUNK_SIZE
         /\ attempt[p].current_block <= end_block =>
              attempt[p].current_block <= chunk_end(p)
         /\ chunk_end(p) \in {attempt[p].current_block + CHUNK_SIZE, end_block}
<1>1. attempt[p] \in Attempts
  BY DEF TypeOK, Attempts
<1>2. attempt[p].current_block \in Nat
  BY <1>1 DEF Attempts
<1>3. end_block \in Nat /\ CHUNK_SIZE \in Nat
  BY ProxyAssumption DEF TypeOK, Block
<1> QED
  BY <1>2, <1>3 DEF chunk_end, Minimum

(* Every variable keeps its type; the retries stay within their bound.       *)
THEOREM TypeCorrect == Spec => []TypeOK
<1> USE ProxyAssumption
<1>1. Init => TypeOK
  <2> SUFFICES ASSUME Init
               PROVE  TypeOK
    OBVIOUS
  <2>1. start_block \in Block
    BY DEF Init
  <2>2. Started \in Attempts /\ Future("idle") \in Attempts
    BY <2>1, FutureType DEF Started, Running
  <2>3. attempt \in [Provider -> Attempts]
    BY <2>2 DEF Init
  <2> QED
    BY <2>3 DEF Init, TypeOK, Attempts
<1>2. TypeOK /\ [Next]_vars => TypeOK'
  <2> SUFFICES ASSUME TypeOK, [Next]_vars
               PROVE  TypeOK'
    OBVIOUS
  <2>1. attempt \in [Provider -> Attempts] /\ start_block \in Block
    BY DEF TypeOK, Attempts
  <2>2. ASSUME NEW p \in Provider, NEW s, NEW f \in Attempts, Step(p, s, f)
        PROVE  TypeOK'
    <3>1. attempt' \in [Provider -> Attempts]
      BY <2>1, <2>2 DEF Step
    <3>2. UNCHANGED <<start_block, end_block, backups, head, phase, outcome>>
      BY <2>2 DEF Step, inputVars, queryVars
    <3> QED
      BY <3>1, <3>2 DEF TypeOK, Attempts, Block
  <2>3. ASSUME NEW p \in Provider, ChunkOk(p)
        PROVE  TypeOK'
    <3> DEFINE next == chunk_end(p) + 1
               got == [b \in Block |->
                         attempt[p].got[b] + IF b \in ChunkBlocks(p) THEN 1 ELSE 0]
               f == [pc |-> IF next <= end_block THEN "logs" ELSE "proof",
                     current_block |-> next, retries |-> 0, got |-> got,
                     asked |-> attempt[p].asked + 1,
                     behind |-> attempt[p].behind \/ chunk_end(p) > head[p]]
    <3>1. next \in Nat
      BY ChunkEnd
    <3>2. got \in [Block -> Nat]
      BY <2>1 DEF Attempts
    <3>3. attempt[p].asked + 1 \in Nat /\ attempt[p].behind \in BOOLEAN
      BY <2>1 DEF Attempts
    <3>4. f \in Attempts
      BY <3>1, <3>2, <3>3 DEF Attempts, Running
    <3>5. Step(p, "logs", f)
      BY <2>3 DEF ChunkOk, ReadChunk
    <3> QED
      BY <2>2, <3>4, <3>5
  <2>4. ASSUME NEW p \in Provider, ChunkErr(p)
        PROVE  TypeOK'
    <3>1. CASE CanRetry(p)
      <4> DEFINE f == [attempt[p] EXCEPT !.pc = "sleep", !.retries = @ + 1, !.asked = @ + 1]
      <4>1. f \in Attempts
        <5>1. attempt[p].retries + 1 \in 0..MAX_RETRIES /\ attempt[p].asked + 1 \in Nat
          BY <2>1, <3>1 DEF Attempts, CanRetry
        <5> QED
          BY <2>1, <5>1 DEF Attempts, Running
      <4>2. Step(p, "logs", f)
        BY <2>4, <3>1 DEF ChunkErr
      <4> QED
        BY <2>2, <4>1, <4>2
    <3>2. CASE ~CanRetry(p)
      BY <2>1, <2>2, <2>4, <3>2, FutureType DEF ChunkErr, Failed
    <3> QED
      BY <3>1, <3>2
  <2>5. ASSUME NEW p \in Provider, NEW s, NEW t \in {"logs", "ok"},
               Step(p, s, [attempt[p] EXCEPT !.pc = t])
        PROVE  TypeOK'
    <3>1. [attempt[p] EXCEPT !.pc = t] \in Attempts
      BY <2>1, <2>5 DEF Attempts, Running
    <3> QED
      BY <2>2, <2>5, <3>1
  <2>6. ASSUME NEW p \in Provider, ProofErr(p) \/ Timeout(p)
        PROVE  TypeOK'
    BY <2>1, <2>2, <2>6, FutureType DEF ProofErr, Timeout, Failed
  <2>7. ASSUME NEW p \in Provider, NewBlock(p)
        PROVE  TypeOK'
    <3>1. head' \in [Provider -> Block]
      <4>0. head \in [Provider -> Block]
        BY DEF TypeOK
      <4>1. head[p] + 1 \in Block
        BY <2>7, <4>0 DEF NewBlock, Block
      <4> QED
        BY <2>7, <4>0, <4>1 DEF NewBlock
    <3>2. UNCHANGED <<start_block, end_block, backups, phase, outcome, attempt>>
      BY <2>7 DEF NewBlock, inputVars, queryVars
    <3> QED
      BY <3>1, <3>2 DEF TypeOK
  <2>8. CASE StartBackups
    <3>1. Started \in Attempts
      BY <2>1, FutureType DEF Started, Running
    <3>2. attempt' \in [Provider -> Attempts]
      BY <2>1, <2>8, <3>1 DEF StartBackups
    <3> QED
      BY <2>8, <3>2 DEF StartBackups, TypeOK, Attempts, Block, inputVars
  <2>9. ASSUME NEW r \in Provider \cup {"err", "panic"}, Return(r)
        PROVE  TypeOK'
    BY <2>9 DEF Return, TypeOK, Block, inputVars
  <2>10. ASSUME NEW p \in Provider, ProofPanic(p)
         PROVE  TypeOK'
    BY <2>10 DEF ProofPanic, TypeOK, Block, inputVars
  <2>11. CASE UNCHANGED vars
    BY <2>11 DEF vars, inputVars, queryVars, TypeOK, Block
  <2> QED
    BY <2>3, <2>4, <2>5, <2>6, <2>7, <2>8, <2>9, <2>10, <2>11
    DEF Next, Query, Attempt, Wake, ProofOk, PrincipalOk, NoBackups, BackupOk, BackupsFail
<1> QED
  BY <1>1, <1>2, PTL DEF Spec

-----------------------------------------------------------------------------
(* How an attempt moves.                                                     *)

(* The only steps that change the attempt on p.                              *)
LEMMA AttemptSteps ==
  ASSUME TypeOK, [Next]_vars, NEW p \in Provider, attempt'[p] # attempt[p]
  PROVE  \/ ChunkOk(p) \/ ChunkErr(p) \/ Wake(p)
         \/ ProofOk(p) \/ ProofErr(p) \/ Timeout(p)
         \/ StartBackups /\ p \in backups
<1>1. ASSUME NEW q \in Provider, NEW s, NEW f, Step(q, s, f)
      PROVE  q = p
  BY <1>1 DEF Step, TypeOK
<1>2. ASSUME NEW q \in Provider,
             ChunkOk(q) \/ ChunkErr(q) \/ Wake(q) \/ ProofOk(q) \/ ProofErr(q) \/ Timeout(q)
      PROVE  q = p
  BY <1>1, <1>2 DEF ChunkOk, ReadChunk, ChunkErr, Wake, ProofOk, ProofErr, Timeout
<1>3. ASSUME NEW q \in Provider, ProofPanic(q) \/ NewBlock(q) \/ BackupOk(q)
      PROVE  FALSE
  BY <1>3 DEF ProofPanic, NewBlock, BackupOk, Return
<1>4. ~PrincipalOk /\ ~NoBackups /\ ~BackupsFail /\ attempt' # attempt
  BY DEF PrincipalOk, NoBackups, BackupsFail, Return
<1>5. StartBackups => p \in backups
  BY DEF StartBackups, TypeOK
<1> QED
  BY <1>2, <1>3, <1>4, <1>5 DEF Next, Query, Attempt, vars

(* The window and the backups are fixed, and no chain shrinks.               *)
LEMMA Fixed ==
  ASSUME TypeOK, [Next]_vars
  PROVE  /\ UNCHANGED <<start_block, end_block, backups>>
         /\ \A p \in Provider : head[p] \in Nat /\ head'[p] \in Nat /\ head[p] <= head'[p]
<1>0. \A p \in Provider : head[p] \in Nat
  BY ProxyAssumption DEF TypeOK, Block
<1>1. ASSUME NEW p \in Provider, Attempt(p) \/ BackupOk(p)
      PROVE  UNCHANGED <<start_block, end_block, backups, head>>
  BY <1>1 DEF Attempt, ChunkOk, ReadChunk, ChunkErr, Wake, ProofOk, ProofErr, ProofPanic,
              Timeout, Step, BackupOk, Return, inputVars
<1>2. ASSUME PrincipalOk \/ NoBackups \/ StartBackups \/ BackupsFail \/ UNCHANGED vars
      PROVE  UNCHANGED <<start_block, end_block, backups, head>>
  BY <1>2 DEF PrincipalOk, NoBackups, StartBackups, BackupsFail, Return, vars, inputVars
<1>3. ASSUME NEW p \in Provider, NewBlock(p)
      PROVE  /\ UNCHANGED <<start_block, end_block, backups>>
             /\ \A q \in Provider : head'[q] \in Nat /\ head[q] <= head'[q]
  BY <1>0, <1>3 DEF NewBlock, inputVars, TypeOK
<1> QED
  BY <1>0, <1>1, <1>2, <1>3 DEF Next, Query

(* A result ends the query: nothing but the chains moves afterwards.          *)
LEMMA Returned == Spec => [](outcome # None => phase = "done")
<1>1. Init => (outcome # None => phase = "done")
  BY DEF Init
<1>2. (outcome # None => phase = "done") /\ [Next]_vars => (outcome # None => phase = "done")'
  BY DEF Next, Query, Attempt, ChunkOk, ReadChunk, ChunkErr, Wake, ProofOk, ProofErr,
         ProofPanic, Timeout, Step, PrincipalOk, NoBackups, StartBackups, BackupOk,
         BackupsFail, Return, NewBlock, vars, queryVars
<1> QED
  BY <1>1, <1>2, PTL DEF Spec

-----------------------------------------------------------------------------
(* What an attempt has read.                                                 *)

\* The blocks of the window below current_block are in the events, once each
\* unless the provider lacked them, and no others are; the chunks are read in
\* full before the proof.
Covers(p) ==
  /\ start_block <= attempt[p].current_block
  /\ attempt[p].pc \in {"logs", "sleep"} => attempt[p].current_block <= end_block
  /\ attempt[p].pc \in {"proof", "ok"} => end_block < attempt[p].current_block
  /\ \A b \in Block :
       /\ attempt[p].got[b] \in {0, 1}
       /\ attempt[p].got[b] = 1 =>
            b \in start_block..end_block /\ b < attempt[p].current_block
       /\ b \in start_block..end_block /\ b < attempt[p].current_block /\ ~attempt[p].behind =>
            attempt[p].got[b] = 1

LEMMA FutureFields ==
  ASSUME NEW s
  PROVE  /\ Future(s).pc = s
         /\ Future(s).current_block = start_block
         /\ \A b \in Block : Future(s).got[b] = 0
BY DEF Future

LEMMA FreshCovers ==
  ASSUME start_block \in Block, end_block \in Block, NEW p \in Provider,
         NEW s \in {"idle", "failed", "timeout"} \cup
                   {IF start_block <= end_block THEN "logs" ELSE "proof"},
         attempt[p] = Future(s)
  PROVE  Covers(p)
<1>1. start_block \in Nat /\ end_block \in Nat /\ Block \subseteq Nat
  BY ProxyAssumption DEF Block
<1>2. /\ attempt[p].pc = s /\ attempt[p].current_block = start_block
      /\ \A b \in Block : attempt[p].got[b] = 0
  BY FutureFields
<1>3. attempt[p].pc \notin {"sleep", "ok"}
  BY <1>2
<1>4. attempt[p].pc \in {"logs", "sleep"} => attempt[p].current_block <= end_block
  BY <1>1, <1>2, <1>3
<1>5. attempt[p].pc \in {"proof", "ok"} => end_block < attempt[p].current_block
  BY <1>1, <1>2, <1>3
<1>6. ASSUME NEW b \in Block
      PROVE  /\ attempt[p].got[b] = 0
             /\ ~(b \in start_block..end_block /\ b < attempt[p].current_block)
  BY <1>1, <1>2, <1>6
<1>7. start_block <= attempt[p].current_block
  BY <1>1, <1>2
<1> QED
  BY <1>4, <1>5, <1>6, <1>7 DEF Covers

(* The step of a chunk keeps the events of the blocks before it and adds its  *)
(* own.                                                                      *)
LEMMA ChunkCovers ==
  ASSUME TypeOK, NEW p \in Provider, Covers(p), ChunkOk(p),
         UNCHANGED <<start_block, end_block>>
  PROVE  Covers(p)'
<1> DEFINE cb == attempt[p].current_block
           next == chunk_end(p) + 1
<1>1. /\ start_block \in Nat /\ end_block \in Nat /\ Block \subseteq Nat
      /\ head[p] \in Nat /\ \A b \in Nat : b <= end_block => b \in Block
  BY ProxyAssumption DEF TypeOK, Block
<1>2. /\ cb \in Nat /\ chunk_end(p) \in Nat /\ chunk_end(p) <= end_block
      /\ attempt[p].pc = "logs" /\ cb <= chunk_end(p) /\ start_block <= cb
  BY ChunkEnd DEF ChunkOk, ReadChunk, Step, Covers
<1>3. attempt'[p] =
        [pc            |-> IF next <= end_block THEN "logs" ELSE "proof",
         current_block |-> next,
         retries       |-> 0,
         got           |-> [b \in Block |->
                              attempt[p].got[b] + IF b \in ChunkBlocks(p) THEN 1 ELSE 0],
         asked         |-> attempt[p].asked + 1,
         behind        |-> attempt[p].behind \/ chunk_end(p) > head[p]]
  BY DEF ChunkOk, ReadChunk, Step, TypeOK
<1>4. /\ attempt'[p].pc = IF next <= end_block THEN "logs" ELSE "proof"
      /\ attempt'[p].current_block = next
      /\ ~attempt'[p].behind => ~attempt[p].behind /\ chunk_end(p) <= head[p]
  <2>1. attempt'[p].behind = (attempt[p].behind \/ chunk_end(p) > head[p])
    BY <1>3
  <2>2. ~attempt'[p].behind => ~attempt[p].behind /\ ~(chunk_end(p) > head[p])
    BY <2>1, Zenon
  <2>3. attempt'[p].pc = (IF next <= end_block THEN "logs" ELSE "proof")
        /\ attempt'[p].current_block = next
    BY <1>3
  <2> QED
    BY <1>1, <1>2, <2>2, <2>3
<1>5. \A b \in Block :
        attempt'[p].got[b] = attempt[p].got[b] + IF b \in ChunkBlocks(p) THEN 1 ELSE 0
  BY <1>3
<1>6. \A b \in Block : b \in ChunkBlocks(p) <=> cb <= b /\ b <= chunk_end(p) /\ b <= head[p]
  <2> SUFFICES ASSUME NEW b \in Block
               PROVE  b \in ChunkBlocks(p) <=> cb <= b /\ b <= chunk_end(p) /\ b <= head[p]
    OBVIOUS
  <2>1. b \in Nat
    BY <1>1
  <2>2. b \in cb..chunk_end(p) <=> cb <= b /\ b <= chunk_end(p)
    BY <1>2, <2>1
  <2> QED
    BY <2>2 DEF ChunkBlocks
<1>7. ASSUME NEW b \in Block
      PROVE  /\ attempt'[p].got[b] \in {0, 1}
             /\ attempt'[p].got[b] = 1 => b \in start_block..end_block /\ b < next
             /\ b \in start_block..end_block /\ b < next /\ ~attempt'[p].behind =>
                  attempt'[p].got[b] = 1
  <2>1. b \in Nat
    BY <1>1
  <2>2. /\ attempt[p].got[b] \in {0, 1}
        /\ attempt[p].got[b] = 1 => b \in start_block..end_block /\ b < cb
        /\ b \in start_block..end_block /\ b < cb /\ ~attempt[p].behind => attempt[p].got[b] = 1
    BY DEF Covers
  <2>3. CASE b \in ChunkBlocks(p)
    <3>1. cb <= b /\ b <= chunk_end(p)
      BY <1>6, <2>3
    <3>2. attempt[p].got[b] = 0
      BY <1>2, <2>1, <2>2, <3>1
    <3>3. attempt'[p].got[b] = 1
      BY <1>5, <2>3, <3>2
    <3>4. b \in start_block..end_block /\ b < next
      BY <1>1, <1>2, <2>1, <3>1
    <3> QED
      BY <3>3, <3>4
  <2>4. CASE b \notin ChunkBlocks(p)
    <3>1. attempt'[p].got[b] = attempt[p].got[b]
      BY <1>5, <2>2, <2>4
    <3>2. b \in start_block..end_block /\ b < next /\ ~attempt'[p].behind => b < cb
      BY <1>1, <1>2, <1>4, <1>6, <2>1, <2>4
    <3> QED
      BY <1>1, <1>2, <1>4, <2>1, <2>2, <3>1, <3>2
  <2> QED
    BY <2>3, <2>4
<1> QED
  BY <1>1, <1>2, <1>4, <1>7 DEF Covers

LEMMA CoversInvariant == Spec => []\A p \in Provider : Covers(p)
<1>1. Init => \A p \in Provider : Covers(p)
  <2> SUFFICES ASSUME Init, NEW p \in Provider
               PROVE  Covers(p)
    OBVIOUS
  <2>1. \/ attempt[p] = Future("idle")
        \/ attempt[p] = Future(IF start_block <= end_block THEN "logs" ELSE "proof")
    BY DEF Init, Started
  <2> QED
    BY <2>1, FreshCovers DEF Init
<1>2. TypeOK /\ TypeOK' /\ (\A p \in Provider : Covers(p)) /\ [Next]_vars
        => (\A p \in Provider : Covers(p))'
  <2> SUFFICES ASSUME TypeOK, TypeOK', \A p \in Provider : Covers(p), [Next]_vars,
                      NEW p \in Provider
               PROVE  Covers(p)'
    OBVIOUS
  <2>1. UNCHANGED <<start_block, end_block>>
    BY Fixed
  <2>2. CASE attempt'[p] = attempt[p]
    BY <2>1, <2>2 DEF Covers
  <2>3. CASE ChunkOk(p)
    BY <2>1, <2>3, ChunkCovers
  <2>4. ASSUME NEW s \in {"failed", "timeout"} \cup
                         {IF start_block <= end_block THEN "logs" ELSE "proof"},
               attempt'[p] = Future(s)
        PROVE  Covers(p)'
    <3>1. /\ attempt'[p].pc = s /\ attempt'[p].current_block = start_block
          /\ \A b \in Block : attempt'[p].got[b] = 0
      BY <2>4, FutureFields
    <3>2. start_block \in Nat /\ end_block \in Nat /\ Block \subseteq Nat
      BY ProxyAssumption DEF TypeOK, Block
    <3> QED
      BY <2>1, <3>1, <3>2 DEF Covers
  <2>5. ASSUME \/ attempt[p].pc \in {"logs", "sleep"} /\ attempt'[p].pc \in {"logs", "sleep"}
               \/ attempt[p].pc = "proof" /\ attempt'[p].pc = "ok",
               attempt'[p].current_block = attempt[p].current_block,
               attempt'[p].got = attempt[p].got,
               attempt'[p].behind = attempt[p].behind
        PROVE  Covers(p)'
    BY <2>1, <2>5 DEF Covers
  <2>6. attempt \in [Provider -> Attempts]
    BY DEF TypeOK, Attempts
  <2>7. CASE ChunkErr(p)
    <3>1. CASE CanRetry(p)
      <4>1. /\ attempt[p].pc = "logs"
            /\ attempt'[p] = [attempt[p] EXCEPT !.pc = "sleep", !.retries = @ + 1, !.asked = @ + 1]
        BY <2>6, <2>7, <3>1 DEF ChunkErr, Step
      <4> QED
        BY <2>5, <2>6, <4>1 DEF Attempts
    <3>2. CASE ~CanRetry(p)
      BY <2>4, <2>6, <2>7, <3>2 DEF ChunkErr, Step
    <3> QED
      BY <3>1, <3>2
  <2>8. CASE Wake(p) \/ ProofOk(p)
    <3>1. /\ attempt'[p] = [attempt[p] EXCEPT !.pc = attempt'[p].pc]
          /\ \/ attempt[p].pc = "sleep" /\ attempt'[p].pc = "logs"
             \/ attempt[p].pc = "proof" /\ attempt'[p].pc = "ok"
      BY <2>6, <2>8 DEF Wake, ProofOk, Step, Attempts
    <3> QED
      BY <2>5, <2>6, <3>1 DEF Attempts
  <2>9. CASE ProofErr(p) \/ Timeout(p)
    BY <2>4, <2>6, <2>9 DEF ProofErr, Timeout, Step
  <2>10. CASE StartBackups /\ p \in backups
    BY <2>4, <2>10 DEF StartBackups, Started
  <2> QED
    BY <2>2, <2>3, <2>7, <2>8, <2>9, <2>10, AttemptSteps
<1> QED
  BY <1>1, <1>2, TypeCorrect, PTL DEF Spec

-----------------------------------------------------------------------------
(* What the query returns.                                                   *)

\* Results are those of finished attempts, and once backups are asked the principal
\* has failed.
Outcomes ==
  /\ outcome # None => phase = "done"
  /\ \A p \in Provider : outcome = p => attempt[p].pc = "ok"
  /\ phase = "backups" => attempt[principal].pc \in Failed
  /\ \A p \in backups :
       attempt[p].pc # "idle" \/ attempt[p].asked > 0 => attempt[principal].pc \in Failed
  /\ outcome = "err" => \A p \in backups \cup {principal} : attempt[p].pc \in Failed

(* An attempt that changes was running, and no result was returned yet; or it *)
(* is a backup that starts because the principal failed.                      *)
LEMMA Changes ==
  ASSUME TypeOK, Outcomes, [Next]_vars, NEW p \in Provider, attempt'[p] # attempt[p]
  PROVE  \/ attempt[p].pc \in Running /\ outcome = None /\ UNCHANGED <<head, phase, outcome>>
         \/ /\ p \in backups /\ phase = "principal" /\ phase' = "backups"
            /\ outcome = None /\ UNCHANGED <<head, outcome>>
            /\ attempt[principal].pc \in Failed
<1>1. CASE StartBackups /\ p \in backups
  BY <1>1 DEF StartBackups, Outcomes
<1>2. CASE ChunkOk(p) \/ ChunkErr(p) \/ Wake(p) \/ ProofOk(p) \/ ProofErr(p) \/ Timeout(p)
  BY <1>2 DEF ChunkOk, ReadChunk, ChunkErr, Wake, ProofOk, ProofErr, Timeout, Step, Running,
              queryVars
<1> QED
  BY <1>1, <1>2, AttemptSteps

(* What is returned belongs to a finished attempt.                            *)
LEMMA OutcomesInvariant == Spec => []Outcomes
<1> USE ProxyAssumption
<1>1. Init => Outcomes
  <2> SUFFICES ASSUME Init
               PROVE  Outcomes
    OBVIOUS
  <2>1. \A p \in Provider : p # principal => attempt[p].pc = "idle" /\ attempt[p].asked = 0
    BY DEF Init, Future
  <2>2. \A p \in Provider : attempt[p].pc # "ok"
    BY DEF Init, Future, Started
  <2>3. /\ outcome = None /\ phase = "principal"
        /\ backups \subseteq Provider /\ principal \notin backups
    BY DEF Init
  <2> QED
    BY <2>1, <2>2, <2>3 DEF Outcomes
<1>2. TypeOK /\ TypeOK' /\ Outcomes /\ [Next]_vars => Outcomes'
  <2> SUFFICES ASSUME TypeOK, TypeOK', Outcomes, [Next]_vars
               PROVE  Outcomes'
    OBVIOUS
  <2> USE DEF Failed, Running
  <2>1. UNCHANGED backups
    BY Fixed
  <2>2. backups \subseteq Provider \ {principal}
    BY DEF TypeOK
  <2>3. \/ UNCHANGED <<phase, outcome>>
        \/ StartBackups
        \/ outcome = None /\ outcome' = "panic" /\ phase' = "done" /\ UNCHANGED attempt
        \/ /\ outcome' \in Provider /\ attempt[outcome'].pc = "ok"
           /\ phase' = "done" /\ phase # "done" /\ UNCHANGED attempt
        \/ /\ outcome' = "err" /\ phase' = "done" /\ phase # "done" /\ UNCHANGED attempt
           /\ \A p \in backups \cup {principal} : attempt[p].pc \in Failed
    <3>1. ASSUME NEW p \in Provider, Attempt(p) \/ NewBlock(p)
          PROVE  \/ UNCHANGED <<phase, outcome>>
                 \/ outcome = None /\ outcome' = "panic" /\ phase' = "done" /\ UNCHANGED attempt
      BY <3>1 DEF Attempt, ChunkOk, ReadChunk, ChunkErr, Wake, ProofOk, ProofErr, ProofPanic,
                  Timeout, Step, NewBlock, queryVars
    <3>2. ASSUME NEW p \in Provider, PrincipalOk \/ BackupOk(p)
          PROVE  /\ outcome' \in Provider /\ attempt[outcome'].pc = "ok"
                 /\ phase' = "done" /\ phase # "done" /\ UNCHANGED attempt
      BY <3>2 DEF PrincipalOk, BackupOk, Return
    <3>3. CASE NoBackups \/ BackupsFail
      BY <3>3 DEF NoBackups, BackupsFail, Return, Outcomes
    <3>4. CASE UNCHANGED vars
      BY <3>4 DEF vars, queryVars
    <3> QED
      BY <3>1, <3>2, <3>3, <3>4 DEF Next, Query
  <2>4. attempt[principal].pc \in Failed => attempt'[principal] = attempt[principal]
    BY <2>2, Changes
  <2>5. (outcome # None => phase = "done")'
    BY <2>3 DEF Outcomes, StartBackups
  <2>6. outcome # None => UNCHANGED <<attempt, outcome, phase>>
    <3>1. ASSUME outcome # None
          PROVE  \A p \in Provider : attempt'[p] = attempt[p]
      BY <3>1, Changes
    <3>2. ASSUME outcome # None
          PROVE  UNCHANGED <<phase, outcome>>
      BY <2>3, <3>2 DEF Outcomes, StartBackups
    <3> QED
      BY <3>1, <3>2 DEF TypeOK
  <2>7. (\A p \in Provider : outcome = p => attempt[p].pc = "ok")'
    BY <2>3, <2>6 DEF Outcomes, StartBackups
  <2>9. (phase = "backups" => attempt[principal].pc \in Failed)'
    BY <2>2, <2>3, <2>4 DEF Outcomes, StartBackups
  <2>10. (\A p \in backups :
            attempt[p].pc # "idle" \/ attempt[p].asked > 0 => attempt[principal].pc \in Failed)'
    <3> SUFFICES ASSUME NEW p \in backups, attempt'[p].pc # "idle" \/ attempt'[p].asked > 0
                 PROVE  attempt'[principal].pc \in Failed
      BY <2>1
    <3>1. CASE attempt'[p] = attempt[p]
      BY <2>4, <3>1 DEF Outcomes
    <3>2. CASE attempt'[p] # attempt[p]
      BY <2>2, <2>4, <3>2, Changes DEF Outcomes
    <3> QED
      BY <3>1, <3>2
  <2>11. (outcome = "err" => \A p \in backups \cup {principal} : attempt[p].pc \in Failed)'
    BY <2>1, <2>3, <2>6 DEF Outcomes, StartBackups
  <2> QED
    BY <2>5, <2>7, <2>9, <2>10, <2>11 DEF Outcomes
<1> QED
  BY <1>1, <1>2, TypeCorrect, PTL DEF Spec

(* The inputs returned hold each event of the window once and no other, save  *)
(* those of blocks their provider lacked when it answered.                    *)
THEOREM Coverage == Spec => []WindowCovered
<1>1. TypeOK /\ (\A p \in Provider : Covers(p)) /\ Outcomes => WindowCovered
  <2> SUFFICES ASSUME TypeOK, \A p \in Provider : Covers(p), Outcomes,
                      NEW p \in Provider, outcome = p, NEW b \in Block
               PROVE  /\ attempt[p].got[b] <= 1
                      /\ attempt[p].got[b] = 1 => b \in start_block..end_block
                      /\ b \in start_block..end_block /\ ~attempt[p].behind =>
                           attempt[p].got[b] = 1
    BY DEF WindowCovered
  <2>1. Covers(p) /\ end_block < attempt[p].current_block
    BY DEF Covers, Outcomes
  <2>2. attempt[p].current_block \in Nat
    BY ChunkEnd
  <2>3. b \in Nat /\ end_block \in Nat /\ start_block \in Nat
    BY ProxyAssumption DEF TypeOK, Block
  <2> QED
    BY <2>1, <2>2, <2>3 DEF Covers
<1> QED
  BY <1>1, TypeCorrect, CoversInvariant, OutcomesInvariant, PTL

(* No backup is asked before the principal failed, and an error is returned only when *)
(* every provider failed.                                                             *)
THEOREM FailoverIsOrdered == Spec => []FailoverInOrder
<1>1. Outcomes => FailoverInOrder
  BY DEF Outcomes, FailoverInOrder
<1> QED
  BY <1>1, OutcomesInvariant, PTL

-----------------------------------------------------------------------------
(* What an attempt costs.                                                    *)

\* The requests that ended a chunk, (CHUNK_SIZE + 1) blocks each, are paid for by
\* the blocks passed; the retries of the chunk under way come on top.
Cost(p) ==
  /\ attempt[p].retries <= attempt[p].asked
  /\ attempt[p].pc \in {"logs", "sleep"} =>
       (attempt[p].asked - attempt[p].retries) * (CHUNK_SIZE + 1) <=
         (MAX_RETRIES + 1) * (attempt[p].current_block - start_block)
  /\ attempt[p].asked > 0 =>
       attempt[p].asked * (CHUNK_SIZE + 1) <=
         (MAX_RETRIES + 1) * (end_block - start_block + 1 + CHUNK_SIZE)

(* Multiplication is monotonic and distributes.                              *)
LEMMA Monotonic ==
  ASSUME NEW a \in Nat, NEW b \in Nat, NEW c \in Nat, a <= b
  PROVE  a * c <= b * c /\ c * a <= c * b
<1>1. PICK k \in Nat : b = a + k
  <2>1. b - a \in Nat /\ b = a + (b - a)
    OBVIOUS
  <2> QED
    BY <2>1
<1>2. b * c = a * c + k * c /\ c * b = c * a + c * k
  BY <1>1
<1>3. k * c \in Nat /\ c * k \in Nat /\ a * c \in Nat /\ c * a \in Nat
  OBVIOUS
<1> QED
  BY <1>2, <1>3

(* k requests more, for one chunk more.                                      *)
LEMMA OneChunkMore ==
  ASSUME NEW n \in Nat, NEW k \in Nat, NEW C \in Nat, NEW M \in Nat, NEW x \in Nat,
         k <= M, n * C <= M * x
  PROVE  (n + k) * C <= M * (x + C)
<1>1. (n + k) * C = n * C + k * C /\ M * (x + C) = M * x + M * C
  OBVIOUS
<1>2. k * C <= M * C
  BY Monotonic
<1>3. n * C \in Nat /\ k * C \in Nat /\ M * x \in Nat /\ M * C \in Nat
  OBVIOUS
<1> QED
  BY <1>1, <1>2, <1>3

(* An attempt pays for what it asks.                                         *)
LEMMA CostInvariant == Spec => []\A p \in Provider : Cost(p)
<1> USE ProxyAssumption
<1>1. Init => \A p \in Provider : Cost(p)
  <2> SUFFICES ASSUME Init, NEW p \in Provider
               PROVE  Cost(p)
    OBVIOUS
  <2>1. /\ attempt[p].asked = 0 /\ attempt[p].retries = 0
        /\ attempt[p].current_block = start_block /\ start_block \in Nat
    BY DEF Init, Future, Started, Block
  <2> QED
    BY <2>1 DEF Cost
<1>2. TypeOK /\ TypeOK' /\ (\A p \in Provider : Cost(p))
        /\ (\A p \in Provider : Covers(p)) /\ [Next]_vars
        => (\A p \in Provider : Cost(p))'
  <2> SUFFICES ASSUME TypeOK, TypeOK', \A p \in Provider : Cost(p),
                      \A p \in Provider : Covers(p), [Next]_vars, NEW p \in Provider
               PROVE  Cost(p)'
    OBVIOUS
  <2> DEFINE a == attempt[p]
             n == a.asked - a.retries
             x == a.current_block - start_block
             C == CHUNK_SIZE + 1
             M == MAX_RETRIES + 1
  <2>1. UNCHANGED <<start_block, end_block>>
    BY Fixed
  <2>2. attempt \in [Provider -> Attempts]
    BY DEF TypeOK, Attempts
  <2>3. start_block \in Nat /\ end_block \in Nat
    BY DEF TypeOK, Block
  <2>4. /\ a.asked \in Nat /\ a.retries \in Nat /\ a.retries <= MAX_RETRIES
        /\ a.current_block \in Nat /\ a.retries <= a.asked
        /\ n \in Nat /\ C \in Nat /\ M \in Nat
    BY <2>2 DEF Attempts, Cost
  <2>5. CASE attempt'[p] = attempt[p]
    BY <2>1, <2>5 DEF Cost
  <2>6. ASSUME attempt'[p].asked = 0, attempt'[p].retries = 0,
               attempt'[p].current_block = start_block
        PROVE  Cost(p)'
    BY <2>1, <2>3, <2>6 DEF Cost
  <2>7. ASSUME a.pc = "logs", NEW k \in Nat, k <= M
        PROVE  /\ (n + k) * C <= M * (x + C)
               /\ (n + k) * C <= M * (end_block - start_block + C)
    <3>1. x \in Nat /\ a.current_block <= end_block /\ n * C <= M * x
      BY <2>3, <2>4, <2>7 DEF Covers, Cost
    <3>2. (n + k) * C <= M * (x + C)
      <4> HIDE DEF n, x, C, M
      <4> QED
        BY <2>4, <2>7, <3>1, OneChunkMore
    <3>3. x + C \in Nat /\ end_block - start_block + C \in Nat
          /\ x + C <= end_block - start_block + C
      BY <2>3, <2>4, <3>1
    <3>4. M * (x + C) <= M * (end_block - start_block + C)
      <4> DEFINE u == x + C
                 v == end_block - start_block + C
      <4> HIDE DEF u, v, M
      <4> SUFFICES M * u <= M * v
        BY DEF u, v
      <4>1. u \in Nat /\ v \in Nat /\ u <= v
        BY <3>3 DEF u, v
      <4> QED
        BY <2>4, <4>1, Monotonic
    <3>5. (n + k) * C \in Int /\ M * (x + C) \in Int /\ M * (end_block - start_block + C) \in Int
      BY <2>3, <2>4, <3>3
    <3> QED
      BY <3>2, <3>4, <3>5
  <2>8. a.retries + 1 \in Nat /\ a.retries + 1 <= M /\ n + (a.retries + 1) = a.asked + 1
    BY <2>4
  <2>9. CASE ChunkOk(p)
    <3>1. /\ a.pc = "logs" /\ attempt'[p].retries = 0 /\ attempt'[p].asked = a.asked + 1
          /\ attempt'[p].current_block = chunk_end(p) + 1
          /\ attempt'[p].pc = IF chunk_end(p) + 1 <= end_block THEN "logs" ELSE "proof"
      BY <2>2, <2>9 DEF ChunkOk, ReadChunk, Step
    <3>2. /\ (a.asked + 1) * C <= M * (x + C)
          /\ (a.asked + 1) * C <= M * (end_block - start_block + C)
      BY <2>7, <2>8, <3>1
    <3>3. chunk_end(p) + 1 <= end_block => chunk_end(p) + 1 - start_block = x + C
      <4>1. a.current_block \in Nat /\ chunk_end(p) \in Nat
        BY <2>4, ChunkEnd
      <4>2. chunk_end(p) < end_block => chunk_end(p) = a.current_block + CHUNK_SIZE
        BY ChunkEnd
      <4> QED
        BY <2>3, <4>1, <4>2
    <3>4. end_block - start_block + C = end_block - start_block + 1 + CHUNK_SIZE
      BY <2>3
    <3>5. attempt'[p].asked - attempt'[p].retries = a.asked + 1
      BY <2>4, <3>1
    <3>6. attempt'[p].pc \in {"logs", "sleep"} =>
            (attempt'[p].asked - attempt'[p].retries) * C <=
              M * (attempt'[p].current_block - start_block)
      <4> DEFINE u == attempt'[p].asked - attempt'[p].retries
                 v == attempt'[p].current_block - start_block
                 w == x + C
      <4>1. attempt'[p].pc \in {"logs", "sleep"} => v = w
        BY <2>3, <2>4, <3>1, <3>3, ChunkEnd
      <4>2. u * C <= M * w
        <5>1. u = a.asked + 1
          BY <3>5
        <5> HIDE DEF u
        <5> QED
          BY <3>2, <5>1
      <4> HIDE DEF u, v, w, M, C
      <4>3. attempt'[p].pc \in {"logs", "sleep"} => u * C <= M * v
        BY <4>1, <4>2
      <4> QED
        BY <4>3 DEF u, v, C, M
    <3>7. attempt'[p].asked * C <= M * (end_block - start_block + 1 + CHUNK_SIZE)
      BY <3>1, <3>2, <3>4
    <3>8. attempt'[p].retries <= attempt'[p].asked
      BY <2>4, <3>1
    <3> QED
      BY <2>1, <3>6, <3>7, <3>8 DEF Cost
  <2>10. CASE ChunkErr(p) /\ CanRetry(p)
    <3>1. /\ a.pc = "logs" /\ attempt'[p].retries = a.retries + 1
          /\ attempt'[p].asked = a.asked + 1
          /\ attempt'[p].current_block = a.current_block
          /\ attempt'[p].pc = "sleep"
      <4>1. /\ a.pc = "logs"
            /\ attempt'[p] = [attempt[p] EXCEPT !.pc = "sleep", !.retries = @ + 1, !.asked = @ + 1]
        BY <2>2, <2>10 DEF ChunkErr, Step
      <4> QED
        BY <2>2, <4>1 DEF Attempts
    <3>2. (a.asked + 1) * C <= M * (end_block - start_block + C)
      BY <2>7, <2>8, <3>1
    <3>3. end_block - start_block + C = end_block - start_block + 1 + CHUNK_SIZE
      BY <2>3
    <3>4. (a.asked + 1) - (a.retries + 1) = n /\ n * C <= M * x
      BY <2>4, <3>1 DEF Cost
    <3> QED
      BY <2>1, <2>4, <3>1, <3>2, <3>3, <3>4 DEF Cost
  <2>11. CASE Wake(p) \/ ProofOk(p)
    <3>1. /\ attempt'[p].retries = a.retries /\ attempt'[p].asked = a.asked
          /\ attempt'[p].current_block = a.current_block
          /\ (attempt'[p].pc = "logs" /\ a.pc = "sleep") \/ attempt'[p].pc = "ok"
      BY <2>2, <2>11 DEF Wake, ProofOk, Step, Attempts
    <3> QED
      BY <2>1, <3>1 DEF Cost
  <2>12. ASSUME NEW s, attempt'[p] = Future(s)
         PROVE  Cost(p)'
    BY <2>6, <2>12 DEF Future
  <2>13. CASE ProofErr(p) \/ Timeout(p) \/ (ChunkErr(p) /\ ~CanRetry(p))
    BY <2>2, <2>12, <2>13 DEF ProofErr, Timeout, ChunkErr, Step
  <2>14. CASE StartBackups /\ p \in backups
    BY <2>12, <2>14 DEF StartBackups, Started
  <2> QED
    BY <2>5, <2>9, <2>10, <2>11, <2>13, <2>14, AttemptSteps
<1> QED
  BY <1>1, <1>2, TypeCorrect, CoversInvariant, PTL DEF Spec

(* At most MAX_RETRIES + 1 requests are spent per chunk of the window.        *)
THEOREM Frugality == Spec => []RequestsBounded
<1>1. (\A p \in Provider : Cost(p)) => RequestsBounded
  BY DEF Cost, RequestsBounded
<1> QED
  BY <1>1, CostInvariant, PTL
=============================================================================
