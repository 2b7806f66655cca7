----------------------------- MODULE WinnerScan -----------------------------
(***************************************************************************)
(* The loop of _select_winner in contracts/src/batch_auction.cairo, one    *)
(* step per iteration, over any list of solutions.                         *)
(***************************************************************************)
EXTENDS WinnerSelection

CONSTANTS Solvers,
          SolutionLists,     \* the lists to scan
          Reputations        \* the stored reputations, functions on Solvers

\* What the loop looks at in a solution.
Scanned == [solver : Solvers, surplus : 0..MaxU256, fee : 0..10000, time : Nat]

ASSUME ScanAssumption ==
    /\ SolutionLists \subseteq Seq(Scanned)
    /\ Reputations \subseteq [Solvers -> Nat]

VARIABLES solutions, solver_reputation,     \* what the loop reads
          i,                                \* solutions read so far
          best_solver, best                 \* best_score, best_fee, best_submission_time

scanVars == <<solutions, solver_reputation, i, best_solver, best>>

ScanInit ==
    /\ solutions \in SolutionLists
    /\ solver_reputation \in Reputations
    /\ i = 0
    /\ best_solver = NoSolver
    /\ best = StartRank

\* Mutant: of equal scores the earlier one wins, whatever the fees.
MutantFeeIgnored(sol) ==
    LET rank == Rank(sol, solver_reputation)
    IN  \/ rank.score > best.score
        \/ rank.score = best.score /\ rank.time < best.time

Replaces(sol) ==
    LET rank == Rank(sol, solver_reputation)
    IN  \/ rank.score > best.score
        \/ /\ rank.score = best.score
           /\ \/ rank.fee < best.fee
              \/ rank.fee = best.fee /\ rank.time < best.time

\* Mutant: of equal solutions the last one wins.
MutantLastWins ==
    /\ i < Len(solutions)
    /\ i' = i + 1
    /\ LET sol == solutions[i + 1]
       IN  IF ~Beats(best, Rank(sol, solver_reputation))
           THEN best_solver' = sol.solver /\ best' = Rank(sol, solver_reputation)
           ELSE UNCHANGED <<best_solver, best>>
    /\ UNCHANGED <<solutions, solver_reputation>>

ReadSolution ==
    /\ i < Len(solutions)
    /\ Score(solutions[i + 1], solver_reputation) <= MaxU256
    /\ i' = i + 1
    /\ LET sol == solutions[i + 1]
       IN  IF Replaces(sol)
           THEN best_solver' = sol.solver /\ best' = Rank(sol, solver_reputation)
           ELSE UNCHANGED <<best_solver, best>>
    /\ UNCHANGED <<solutions, solver_reputation>>

ScanSpec == ScanInit /\ [][ReadSolution]_scanVars

-----------------------------------------------------------------------------
(* Properties. *)

\* After i iterations best_* describe the first of the best among the solutions
\* read, or nothing yet if none of them is better than the initial values.
ScanInv ==
    /\ solutions \in SolutionLists
    /\ solver_reputation \in Reputations
    /\ i \in 0..Len(solutions)
    /\ \/ /\ best_solver = NoSolver /\ best = StartRank
          /\ \A j \in 1..i : ~Beats(Rank(solutions[j], solver_reputation), StartRank)
       \/ \E k \in 1..i :
             /\ best_solver = solutions[k].solver
             /\ best = Rank(solutions[k], solver_reputation)
             /\ Beats(best, StartRank)
             /\ \A j \in 1..i :
                   LET rank == Rank(solutions[j], solver_reputation)
                   IN  (j < k => Beats(best, rank)) /\ (j > k => ~Beats(rank, best))

\* When the loop ends it has found the winner: the solution with the highest score,
\* ties going to the lower fee, then to the earlier submission, then to the first.
ScanFindsWinner ==
    i = Len(solutions) => best_solver = Winner(solutions, solver_reputation)
=============================================================================
