---------------------------- MODULE BatchAuction ----------------------------
(***************************************************************************)
(* contracts/src/batch_auction.cairo: the coordinator opens an auction for *)
(* a closed batch, bonded solvers commit to solutions, the coordinator     *)
(* finalizes it and the winner's bond is locked.                           *)
(*                                                                         *)
(* A commitment is a hash of the batch and an execution plan; as the hash  *)
(* does not collide, it is the plan.                                       *)
(***************************************************************************)
EXTENDS SolverBond, WinnerSelection

CONSTANTS Batches,             \* batches the coordinator may open
          CloseTime,           \* the close_time it passes for each of them
          SolutionWindow,      \* solution_window_seconds
          AuctionResolution,   \* auction_resolution_seconds
          Plans,               \* execution plans to commit to
          Surpluses, Fees,     \* what a solution may claim
          AdminSlashes,        \* amounts the admin may slash
          MaxSolutions         \* bound: solutions of one batch

ASSUME AuctionAssumption ==
    /\ CloseTime \in [Batches -> Nat]
    /\ SolutionWindow \in Nat \ {0}              \* asserted by create_batch
    /\ AuctionResolution \in Nat
    /\ Surpluses \subseteq 0..MaxU256
    /\ Fees \subseteq 0..10000                   \* asserted by submit_solution
    /\ AdminSlashes \subseteq Nat
    /\ MaxSolutions \in Nat
    /\ NoSolver \notin Solvers

VARIABLES
    batches,             \* the Batch record of each batch; "OPEN" until it is created
    solutions,           \* the solutions of each batch in the order of submission
    solver_reputation    \* reputation of each solver when it last submitted, to any batch

auctionVars == <<batches, solutions, solver_reputation>>

\* winning_commitment is what the SolverSelected event announces.
Batch == [status : {"OPEN", "AUCTION", "SETTLED", "FAILED"},
          close_time : Nat, auction_deadline : Nat,
          winning_solver : Solvers \cup {NoSolver},
          winning_commitment : Plans \cup {NoSolver}]

Solution == [solver : Solvers, solution_commitment : Plans,
             surplus : Surpluses, fee : Fees, time : Nat]

AuctionTypeOK ==
    /\ batches \in [Batches -> Batch]
    /\ solutions \in [Batches -> Seq(Solution)]
    /\ solver_reputation \in [Solvers -> Nat]

NoBatch == [status |-> "OPEN", close_time |-> 0, auction_deadline |-> 0,
            winning_solver |-> NoSolver, winning_commitment |-> NoSolver]

AuctionInit ==
    /\ batches = [b \in Batches |-> NoBatch]
    /\ solutions = [b \in Batches |-> <<>>]
    /\ solver_reputation = [s \in Solvers |-> 0]

-----------------------------------------------------------------------------
create_batch(b) ==
    /\ batches[b].status = "OPEN"
    /\ batches' = [batches EXCEPT ![b] =
           [@ EXCEPT !.status = "AUCTION",
                     !.close_time = CloseTime[b],
                     !.auction_deadline = CloseTime[b] + SolutionWindow]]
    /\ UNCHANGED <<solutions, solver_reputation, bondVars>>

\* Mutant: the status of the batch is not looked at.
MutantSubmitAnyStatus(s, b, plan, surplus, fee) ==
    /\ batches[b].status # "OPEN"
    /\ now <= batches[b].auction_deadline
    /\ now >= batches[b].close_time
    /\ ~solver_info[s].blacklisted
    /\ solver_info[s].bond_amount >= minimum_bond
    /\ Len(solutions[b]) < MaxSolutions
    /\ solver_reputation' =
           [solver_reputation EXCEPT ![s] = Reputation(solver_info[s], now)]
    /\ solutions' = [solutions EXCEPT ![b] = Append(@,
           [solver |-> s, solution_commitment |-> plan,
            surplus |-> surplus, fee |-> fee, time |-> now])]
    /\ UNCHANGED <<batches, bondVars>>

\* Mutant: solutions are accepted before the batch closes.
MutantSubmitEarly(s, b, plan, surplus, fee) ==
    /\ batches[b].status = "AUCTION"
    /\ now <= batches[b].auction_deadline
    /\ ~solver_info[s].blacklisted
    /\ solver_info[s].bond_amount >= minimum_bond
    /\ Len(solutions[b]) < MaxSolutions
    /\ solver_reputation' =
           [solver_reputation EXCEPT ![s] = Reputation(solver_info[s], now)]
    /\ solutions' = [solutions EXCEPT ![b] = Append(@,
           [solver |-> s, solution_commitment |-> plan,
            surplus |-> surplus, fee |-> fee, time |-> now])]
    /\ UNCHANGED <<batches, bondVars>>

\* A solver may submit several solutions; none replaces another.
submit_solution(s, b, plan, surplus, fee) ==
    /\ batches[b].status = "AUCTION"
    /\ now <= batches[b].auction_deadline
    /\ now >= batches[b].close_time
    /\ ~solver_info[s].blacklisted
    /\ solver_info[s].bond_amount >= minimum_bond
    /\ Len(solutions[b]) < MaxSolutions          \* bound
    /\ solver_reputation' =
           [solver_reputation EXCEPT ![s] = Reputation(solver_info[s], now)]
    /\ solutions' = [solutions EXCEPT ![b] = Append(@,
           [solver |-> s, solution_commitment |-> plan,
            surplus |-> surplus, fee |-> fee, time |-> now])]
    /\ UNCHANGED <<batches, bondVars>>

\* Mutant: the auction may be decided before its deadline.
MutantFinalizeEarly(b) ==
    /\ batches[b].status = "AUCTION"
    /\ now <= batches[b].auction_deadline + AuctionResolution

InResolutionWindow(b) ==
    /\ batches[b].status = "AUCTION"
    /\ now >= batches[b].auction_deadline
    /\ now <= batches[b].auction_deadline + AuctionResolution

FailBatch(b) ==
    /\ solutions[b] = <<>>
    /\ batches' = [batches EXCEPT ![b].status = "FAILED"]
    /\ UNCHANGED <<solutions, solver_reputation, bondVars>>

\* Locking the zero address, when no solution beats nothing, changes no solver.
SelectWinner(b) ==
    LET sols   == solutions[b]
        winner == Winner(sols, solver_reputation)
    IN  /\ sols # <<>>
        /\ "auction" \in wired                   \* else set_locked reverts
        /\ ScoresFit(sols, solver_reputation)
        /\ batches' = [batches EXCEPT
               ![b].status = "SETTLED",
               ![b].winning_solver = winner,
               ![b].winning_commitment =
                   IF winner = NoSolver THEN NoSolver
                   ELSE sols[WinnerIndex(sols, solver_reputation)].solution_commitment]
        /\ solver_info' = [s \in Solvers |->
               IF s = winner THEN LockedAs(solver_info[s], TRUE) ELSE solver_info[s]]
        /\ UNCHANGED <<solutions, solver_reputation, slash_history, minimum_bond,
                       pending_minimum_bond, wired, wallet, held, receipts>>

finalize_auction(b) == InResolutionWindow(b) /\ (FailBatch(b) \/ SelectWinner(b))

\* The settlement contract may call it too, but never does.
slash_solver(s, amount) ==
    "auction" \in wired /\ slash(s, amount) /\ UNCHANGED auctionVars

AuctionStep ==
    \/ \E b \in Batches : create_batch(b) \/ finalize_auction(b)
    \/ \E s \in Solvers, b \in Batches, plan \in Plans, surplus \in Surpluses, fee \in Fees :
          submit_solution(s, b, plan, surplus, fee)
    \/ \E s \in Solvers, amount \in AdminSlashes : slash_solver(s, amount)

AuctionTick == Tick /\ UNCHANGED <<auctionVars, bondVars>>

\* The auction with a settlement contract that grades, slashes and unlocks at will.
AuctionNext ==
    \/ AuctionStep /\ UNCHANGED now
    \/ (SolverStep \/ BondAdminStep \/ CallerStep) /\ UNCHANGED <<auctionVars, now>>
    \/ AuctionTick

AuctionSpecInit == ClockInit /\ BondInit /\ AuctionInit

AuctionSpec == AuctionSpecInit /\ [][AuctionNext]_<<now, auctionVars, bondVars>>

-----------------------------------------------------------------------------
(* Properties. *)

\* A decision is final: a batch that is SETTLED or FAILED keeps its winner and its
\* solutions, although at auction_deadline itself submit_solution and
\* finalize_auction are both in time.
DecidedUnchanged ==
    \A b \in Batches :
        batches[b].status \in {"SETTLED", "FAILED"} =>
            batches'[b] = batches[b] /\ solutions'[b] = solutions[b]

DecisionIsFinal == [][DecidedUnchanged]_<<now, auctionVars, bondVars>>

\* The winner of a batch committed to the winning plan during the solution window,
\* and a FAILED batch drew no solution.
WinnerCompeted ==
    \A b \in Batches :
        /\ batches[b].status = "FAILED" => solutions[b] = <<>>
        /\ batches[b].winning_solver # NoSolver =>
              \E k \in DOMAIN solutions[b] :
                  /\ solutions[b][k].solver = batches[b].winning_solver
                  /\ solutions[b][k].solution_commitment = batches[b].winning_commitment
                  /\ solutions[b][k].time \in CloseTime[b]..(CloseTime[b] + SolutionWindow)
=============================================================================
