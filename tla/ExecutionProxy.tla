--------------------------- MODULE ExecutionProxy ---------------------------
(***************************************************************************)
(* golem-symbiotic-consensus-mpt/src/rpcs/mod.rs, query_with_fallback, and  *)
(* rpcs/execution/http.rs: one query for the execution part of the proof    *)
(* inputs of a window. Each provider's attempt reads the TokensLocked       *)
(* events of the window chunk by chunk, with retries, then the storage      *)
(* proof at the window's last block; the principal is tried alone, then all *)
(* backups at once, every attempt under a timeout.                           *)
(***************************************************************************)
EXTENDS Integers

CONSTANTS
  Provider,     \* execution RPC providers
  principal,    \* the first one configured
  CHUNK_SIZE,   \* a chunk is a block and the CHUNK_SIZE blocks after it
  MAX_RETRIES,
  MaxBlock,     \* bound on block numbers
  None

ASSUME ProxyAssumption ==
  /\ principal \in Provider
  /\ CHUNK_SIZE \in Nat
  /\ MAX_RETRIES \in Nat
  /\ MaxBlock \in Nat
  /\ Provider \cap {None, "err", "panic"} = {}
  /\ None \notin {"err", "panic"}

Block == 0..MaxBlock

VARIABLES
  start_block, end_block,  \* first and last block of the window
  backups,                 \* the other providers configured, if any
  head,                    \* height of each provider's chain (external)
  phase,                   \* what query_with_fallback waits for
  outcome,                 \* the provider whose inputs are returned, "err" or "panic"
  attempt                  \* the future of each provider

inputVars == <<start_block, end_block, backups>>
queryVars == <<phase, outcome>>
vars == <<inputVars, head, queryVars, attempt>>

Running == {"logs", "sleep", "proof"}
Failed  == {"failed", "timeout"}

\* A future and its locals: the first block of the next chunk, the retries used on
\* that chunk, and how often its events hold those of each block. Two more record
\* history: the eth_getLogs requests, and whether the provider answered for blocks
\* it did not have.
Future(state) ==
  [pc |-> state, current_block |-> start_block, retries |-> 0,
   got |-> [b \in Block |-> 0], asked |-> 0, behind |-> FALSE]

Started == Future(IF start_block <= end_block THEN "logs" ELSE "proof")

Init ==
  /\ start_block \in Block
  /\ end_block \in Block
  /\ backups \in SUBSET (Provider \ {principal})
  /\ head \in [Provider -> Block]
  /\ phase = "principal"
  /\ outcome = None
  /\ attempt = [p \in Provider |-> IF p = principal THEN Started ELSE Future("idle")]

-----------------------------------------------------------------------------
(* The attempt on provider p.                                               *)

\* The future of p, which is at state, moves on to future.
Step(p, state, future) ==
  /\ outcome = None
  /\ attempt[p].pc = state
  /\ attempt' = [attempt EXCEPT ![p] = future]
  /\ UNCHANGED <<inputVars, head, queryVars>>

Minimum(a, b) == IF a <= b THEN a ELSE b

chunk_end(p) == Minimum(attempt[p].current_block + CHUNK_SIZE, end_block)

\* A provider answers for the blocks it has.
ChunkBlocks(p) == {b \in attempt[p].current_block..chunk_end(p) : b <= head[p]}

\* The answer is added to the events and the next chunk starts at next.
ReadChunk(p, next) ==
  Step(p, "logs",
    [pc            |-> IF next <= end_block THEN "logs" ELSE "proof",
     current_block |-> next,
     retries       |-> 0,
     got           |-> [b \in Block |->
                          attempt[p].got[b] + IF b \in ChunkBlocks(p) THEN 1 ELSE 0],
     asked         |-> attempt[p].asked + 1,
     behind        |-> attempt[p].behind \/ chunk_end(p) > head[p]])

\* Mutant: the next chunk starts at the last block of this one.
ChunkOkOverlap(p) ==
  ReadChunk(p, IF chunk_end(p) = end_block THEN end_block + 1 ELSE chunk_end(p))

ChunkOk(p) == ReadChunk(p, chunk_end(p) + 1)

\* Mutant: the guard on the retries admits one more.
CanRetryOneMore(p) == attempt[p].retries <= MAX_RETRIES

CanRetry(p) == attempt[p].retries < MAX_RETRIES

\* A failed request is retried after a delay, a bounded number of times.
ChunkErr(p) ==
  IF CanRetry(p)
  THEN Step(p, "logs", [attempt[p] EXCEPT !.pc = "sleep", !.retries = @ + 1, !.asked = @ + 1])
  ELSE Step(p, "logs", Future("failed"))

Wake(p) == Step(p, "sleep", [attempt[p] EXCEPT !.pc = "logs"])

\* eth_getProof at end_block, and the dry run of consensus_mpt_program on it.
ProofOk(p) ==
  /\ end_block <= head[p]
  /\ Step(p, "proof", [attempt[p] EXCEPT !.pc = "ok"])

\* The request, or the dry run, fails: there is no retry here.
ProofErr(p) == Step(p, "proof", Future("failed"))

\* The provider answers for a storage key nobody asked for: "Missing address for
\* storage slot" ends the whole task, not just the attempt.
ProofPanic(p) ==
  /\ outcome = None
  /\ attempt[p].pc = "proof"
  /\ outcome' = "panic"
  /\ phase' = "done"
  /\ UNCHANGED <<inputVars, head, attempt>>

Timeout(p) == attempt[p].pc \in Running /\ Step(p, attempt[p].pc, Future("timeout"))

-----------------------------------------------------------------------------
(* query_with_fallback.                                                     *)

Return(r) ==
  /\ outcome' = r
  /\ phase' = "done"
  /\ UNCHANGED <<inputVars, head, attempt>>

PrincipalOk ==
  /\ phase = "principal"
  /\ attempt[principal].pc = "ok"
  /\ Return(principal)

NoBackups ==
  /\ phase = "principal"
  /\ attempt[principal].pc \in Failed
  /\ backups = {}
  /\ Return("err")

StartBackups ==
  /\ phase = "principal"
  /\ attempt[principal].pc \in Failed
  /\ backups # {}
  /\ phase' = "backups"
  /\ attempt' = [p \in Provider |-> IF p \in backups THEN Started ELSE attempt[p]]
  /\ UNCHANGED <<inputVars, head, outcome>>

\* select_ok: the first success is returned and the other futures are dropped.
BackupOk(p) ==
  /\ phase = "backups"
  /\ p \in backups
  /\ attempt[p].pc = "ok"
  /\ Return(p)

\* Mutant: the first failure is returned too.
BackupsFailEarly ==
  /\ phase = "backups"
  /\ \E p \in backups : attempt[p].pc \in Failed
  /\ Return("err")

\* Mutant: a backup that timed out is still waited for.
BackupsFailUntimed ==
  /\ phase = "backups"
  /\ \A p \in backups : attempt[p].pc = "failed"
  /\ Return("err")

BackupsFail ==
  /\ phase = "backups"
  /\ \A p \in backups : attempt[p].pc \in Failed
  /\ Return("err")

-----------------------------------------------------------------------------
\* The provider's chain grows; the height it starts from is arbitrary, so only
\* growth during its attempt makes a difference.
NewBlock(p) ==
  /\ outcome = None
  /\ attempt[p].pc \in Running
  /\ head[p] < MaxBlock
  /\ head' = [head EXCEPT ![p] = @ + 1]
  /\ UNCHANGED <<inputVars, queryVars, attempt>>

Attempt(p) ==
  \/ ChunkOk(p) \/ ChunkErr(p) \/ Wake(p)
  \/ ProofOk(p) \/ ProofErr(p) \/ ProofPanic(p) \/ Timeout(p)

Query ==
  \/ PrincipalOk \/ NoBackups \/ StartBackups \/ BackupsFail
  \/ \E p \in Provider : BackupOk(p)

Next ==
  \/ Query
  \/ \E p \in Provider : Attempt(p) \/ NewBlock(p)

Spec == Init /\ [][Next]_vars

\* A timer that runs out fires, and a future that is ready is polled.
FairSpec == Spec /\ WF_vars(Query) /\ \A p \in Provider : WF_vars(Attempt(p))

-----------------------------------------------------------------------------
(* Properties.                                                              *)

\* Every reachable state of a query is well typed; a chunk is retried MAX_RETRIES times
\* at most.
TypeOK ==
  /\ start_block \in Block /\ end_block \in Block
  /\ backups \subseteq Provider \ {principal}
  /\ head \in [Provider -> Block]
  /\ phase \in {"principal", "backups", "done"}
  /\ outcome \in Provider \cup {None, "err", "panic"}
  /\ attempt \in [Provider ->
       [pc : Running \cup Failed \cup {"idle", "ok"}, current_block : Nat,
        retries : 0..MAX_RETRIES, got : [Block -> Nat], asked : Nat, behind : BOOLEAN]]

\* The inputs that are returned hold the events of every block of the window once
\* and of no other block, however chunks, retries, timeouts and rival providers
\* interleaved. The one way to lose an event is a provider that answered for
\* blocks it did not have and had caught up when its proof was read.
WindowCovered ==
  \A p \in Provider : outcome = p =>
    \A b \in Block :
      /\ attempt[p].got[b] <= 1
      /\ attempt[p].got[b] = 1 => b \in start_block..end_block
      /\ b \in start_block..end_block /\ ~attempt[p].behind => attempt[p].got[b] = 1

\* The backups are a last resort, and all of it: one is asked only when the principal's
\* attempt is over, so a principal that answers is never second-guessed, and an error
\* means that every provider was tried and none succeeded.
FailoverInOrder ==
  /\ \A p \in backups : attempt[p].asked > 0 => attempt[principal].pc \in Failed
  /\ outcome = "err" => \A p \in backups \cup {principal} : attempt[p].pc \in Failed

\* An attempt costs at most MAX_RETRIES + 1 requests per chunk: retries are
\* counted for each chunk, and a chunk that is done is not asked for again.
RequestsBounded ==
  \A p \in Provider :
    attempt[p].asked > 0 =>
      attempt[p].asked * (CHUNK_SIZE + 1) <=
        (MAX_RETRIES + 1) * (end_block - start_block + 1 + CHUNK_SIZE)

\* The query always ends, with inputs, an error or a panic.
QueryEnds == <>(outcome # None)
=============================================================================
