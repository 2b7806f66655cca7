--------------------------- MODULE BatchPipeline ---------------------------
(***************************************************************************)
(* The coordinator with the two things its batches depend on: the chain,   *)
(* which includes transactions with a delay, in blocks whose timestamp may *)
(* lag behind the coordinator's clock, and the reference solver, which     *)
(* bids for a batch once the gateway announced it and settles right away   *)
(* (solver-reference/src/main.rs).  Other solvers bid as they like.  Of    *)
(* the contracts this module keeps the status of each batch; BatchAuction  *)
(* and BatchSettlement have the rest.                                      *)
(***************************************************************************)
EXTENDS Coordinator

CONSTANTS SolutionWindow,      \* solution_window_seconds
          AuctionResolution,   \* auction_resolution_seconds
          InclusionTime,       \* longest time from sending a transaction to its block
          MaxLag,              \* bound: how far a block's timestamp is behind
          MaxTime              \* bound: the clock stops there

\* With these values of the deployment an auction can be decided in time at all.
ASSUME PipelineAssumption ==
    /\ {SolutionWindow, AuctionResolution, InclusionTime, MaxLag, MaxTime} \subseteq Nat
    /\ AuctionWait >= SolutionWindow
    /\ AuctionWait + MaxDelay + InclusionTime <= SolutionWindow + AuctionResolution

VARIABLES
    block_time,   \* the timestamp of the latest block
    status,       \* on chain: the status of each batch, "OPEN" until it is created
    bidders,      \* on chain: the batches that have a solution
    spoiled,      \* on chain: the batches whose solutions finalize_auction cannot get
                  \* through: the score of one does not fit u256, or they are more
                  \* than the gas the coordinator pays for
    settled,      \* on chain: the batches whose execution plan was executed
    bids,         \* how far the solver is with each batch
    solver_sent   \* the solver's transactions that are not yet in a block

chainVars == <<block_time, status, bidders, spoiled, settled>>
solverVars == <<bids, solver_sent>>
pipelineVars == <<coordinatorVars, chainVars, solverVars>>

CloseTime(b) == compute_batch_close_time(b + 1)

PipelineTypeOK ==
    /\ CoordinatorTypeOK
    /\ block_time \in 0..clock
    /\ status \in [BatchIds -> {"OPEN", "AUCTION", "SETTLED", "FAILED"}]
    /\ bidders \subseteq BatchIds /\ settled \subseteq bidders /\ spoiled \subseteq bidders
    /\ bids \in [BatchIds -> {"none", "submitted", "done"}]
    /\ solver_sent \in
          Seq([call : {"submit_solution", "settle_batch"}, batch : BatchIds, at : Nat])

PipelineInit ==
    /\ CoordinatorInit
    /\ block_time = clock
    /\ status = [b \in BatchIds |-> "OPEN"]
    /\ bidders = {} /\ spoiled = {}
    /\ settled = {}
    /\ bids = [b \in BatchIds |-> "none"]
    /\ solver_sent = <<>>

-----------------------------------------------------------------------------
(* The chain.  A call whose guard does not hold reverts and changes nothing. *)

create_batch(b) ==
    /\ status' = IF status[b] = "OPEN" THEN [status EXCEPT ![b] = "AUCTION"] ELSE status
    /\ UNCHANGED <<bidders, spoiled, settled>>

submit_solution(b, now) ==
    /\ bidders' = IF status[b] = "AUCTION" /\ now \in CloseTime(b)..CloseTime(b) + SolutionWindow
                  THEN bidders \cup {b} ELSE bidders
    /\ UNCHANGED <<status, spoiled, settled>>

Deadline(b) == CloseTime(b) + SolutionWindow

finalize_auction(b, now) ==
    /\ status' =
          IF /\ status[b] = "AUCTION" /\ now \in Deadline(b)..Deadline(b) + AuctionResolution
             /\ b \notin spoiled                    \* else _select_winner panics
          THEN [status EXCEPT ![b] = IF b \in bidders THEN "SETTLED" ELSE "FAILED"]
          ELSE status
    /\ UNCHANGED <<bidders, spoiled, settled>>

\* Mutant: the plan is executed before the auction is decided.
MutantSettleUndecided(b) ==
    /\ settled' = settled \cup {b}
    /\ UNCHANGED <<status, bidders, spoiled>>

settle_batch(b) ==
    /\ settled' = IF status[b] = "SETTLED" THEN settled \cup {b} ELSE settled
    /\ UNCHANGED <<status, bidders, spoiled>>

Execute(tx, now) ==
    CASE tx.call = "create_batch"     -> create_batch(tx.batch)
      [] tx.call = "finalize_auction" -> finalize_auction(tx.batch, now)
      [] tx.call = "submit_solution"  -> submit_solution(tx.batch, now)
      [] tx.call = "settle_batch"     -> settle_batch(tx.batch)

\* The timestamps a block may have now.
BlockTimes == {t \in block_time..clock : t + MaxLag >= clock}

\* A block may take less time for its timestamp than the clock a transaction was sent at.
IncludeCoordinator ==
    LET tx == Head(sent) IN
    /\ sent # <<>>
    /\ \E now \in BlockTimes :
          /\ block_time' = now
          /\ Execute(tx, now)
          /\ disturbed' = IF tx.call = "finalize_auction" /\ now < tx.at
                          THEN disturbed \cup {tx.batch} ELSE disturbed
    /\ sent' = Tail(sent)
    /\ UNCHANGED <<clock, scheduler, told, opened, faults, solverVars>>

IncludeSolver ==
    /\ solver_sent # <<>>
    /\ \E now \in BlockTimes : block_time' = now /\ Execute(Head(solver_sent), now)
    /\ solver_sent' = Tail(solver_sent)
    /\ UNCHANGED <<coordinatorVars, bids>>

\* A block with another solver's solution.  What surplus solvers claim and how often they
\* bid is up to them: it may be the one that finalize_auction cannot get through.
OtherSolverBids(b) ==
    /\ status[b] = "AUCTION"
    /\ \E now \in BlockTimes \cap (CloseTime(b)..Deadline(b)) : block_time' = now
    /\ bidders' = bidders \cup {b}
    /\ \/ b \notin bidders /\ UNCHANGED spoiled
       \/ b \notin spoiled /\ spoiled' = spoiled \cup {b}
    /\ Fault({})                                     \* bound: counted with the faults
    /\ UNCHANGED <<clock, scheduler, sent, told, opened, status, settled, solverVars>>

\* A transaction that was accepted never gets into a block.
LoseTransaction ==
    /\ sent # <<>>
    /\ sent' = Tail(sent)
    /\ Fault({Head(sent).batch})
    /\ UNCHANGED <<clock, scheduler, told, opened, chainVars, solverVars>>

-----------------------------------------------------------------------------
(* The solver: for a batch that was announced with intents, a solution and the      *)
(* settlement, one after the other, whatever the chain makes of the first.          *)

SolverSends(call, b) ==
    solver_sent' = Append(solver_sent, [call |-> call, batch |-> b, at |-> clock])

SubmitSolution(b) ==
    /\ <<"closed", b, 1>> \in told
    /\ bids[b] = "none"
    /\ bids' = [bids EXCEPT ![b] = "submitted"]
    /\ SolverSends("submit_solution", b)
    /\ UNCHANGED <<coordinatorVars, chainVars>>

SubmitSettlement(b) ==
    /\ bids[b] = "submitted"
    /\ bids' = [bids EXCEPT ![b] = "done"]
    /\ SolverSends("settle_batch", b)
    /\ UNCHANGED <<coordinatorVars, chainVars>>

\* The node refuses it; the solver goes on.
SettlementRefused(b) ==
    /\ bids[b] = "submitted"
    /\ bids' = [bids EXCEPT ![b] = "done"]
    /\ Fault({})
    /\ UNCHANGED <<clock, scheduler, sent, told, opened, chainVars, solver_sent>>

-----------------------------------------------------------------------------
NothingOverdue ==
    /\ sent # <<>> => clock < Head(sent).at + InclusionTime
    /\ solver_sent # <<>> => clock < Head(solver_sent).at + InclusionTime

PipelineTick ==
    /\ Punctual
    /\ NothingOverdue
    /\ clock < MaxTime                               \* bound
    /\ clock' = clock + 1
    /\ disturbed' = disturbed \cup Missed
    /\ UNCHANGED <<scheduler, sent, told, opened, faults, chainVars, solverVars>>

CoordinatorActs == CoordinatorStep /\ UNCHANGED <<chainVars, solverVars>>

PipelineNext ==
    \/ CoordinatorActs
    \/ IncludeCoordinator \/ IncludeSolver \/ LoseTransaction
    \/ \E b \in BatchIds : \/ OtherSolverBids(b)
                           \/ SubmitSolution(b) \/ SubmitSettlement(b) \/ SettlementRefused(b)
    \/ PipelineTick

\* The task runs and its calls are answered, blocks are produced, time passes, a solver
\* that sent one transaction sends the other.  Nobody has to bid, or to restart a process.
PipelineFairness ==
    /\ WF_pipelineVars(Work /\ UNCHANGED <<chainVars, solverVars>>)
    /\ WF_pipelineVars(IncludeCoordinator)
    /\ WF_pipelineVars(IncludeSolver)
    /\ WF_pipelineVars(PipelineTick)
    /\ \A b \in BatchIds : WF_pipelineVars(SubmitSettlement(b))

PipelineSpec == PipelineInit /\ [][PipelineNext]_pipelineVars /\ PipelineFairness

-----------------------------------------------------------------------------
(* Properties. *)

\* An auction is opened only for a window that is over, and asked for once, however often
\* the coordinator is restarted, which remembers nothing (batch_scheduler.rs:82-136).
OpenedOnce ==
    [][\A tx \in {sent'[k] : k \in DOMAIN sent'} :
          (tx.call = "create_batch" /\ Len(sent') > Len(sent) /\ tx = sent'[Len(sent')])
              => tx.batch \notin opened /\ clock >= CloseTime(tx.batch)]_pipelineVars

Decided(b) == status[b] \in {"SETTLED", "FAILED"}

LatestEnd(b) == CloseTime(b) + MaxDelay + AuctionWait + InclusionTime

EndedBy(b, time) == clock > time => Decided(b) \/ <<"failed", b>> \in told

\* Every window ends in time: soon after its auction could be decided, it is decided on
\* chain or the gateway has been told that it failed.  What excuses a batch is that the
\* process was down, that a transaction or both reports of a failure were lost, that the
\* block of finalize_auction was dated before the transaction was sent, or that its
\* solutions make finalize_auction panic or run out of gas: the transaction reverts, and
\* the coordinator, which looks at no receipt, neither learns nor reports it.
EndsInTime == \A b \in BatchIds \ (disturbed \cup spoiled) : EndedBy(b, LatestEnd(b))

\* What this module keeps of the contracts does no more than the contracts promise: its
\* chain implements the same BatchLifecycle that BatchSettlement implements.
BatchLife == INSTANCE BatchLifecycle WITH
    Batches   <- BatchIds,
    Closes    <- [b \in BatchIds |-> CloseTime(b)],
    time      <- block_time,
    fate      <- status,
    bid       <- bidders,
    executed  <- settled

BatchLifecycleSpec == BatchLife!Spec

\* solver-reference/src/main.rs:238: "settlement is triggered by the coordinator after
\* finalize_auction": an auction that was won is settled at last.
WonIsSettled == \A b \in BatchIds : status[b] = "SETTLED" ~> b \in settled

\* docs/how-it-works.mdx:59: "If no solver wins the auction, or if the settlement
\* transaction fails, the batch is marked as failed and all orders inside it are
\* requeued": also a window that other solvers spoil ends in time.
SpoiledEndsToo == \A b \in BatchIds \ disturbed : EndedBy(b, LatestEnd(b))
=============================================================================
