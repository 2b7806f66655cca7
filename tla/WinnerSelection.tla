-------------------------- MODULE WinnerSelection --------------------------
(***************************************************************************)
(* How contracts/src/batch_auction.cairo ranks the solutions of a batch.   *)
(* Winner states the outcome; WinnerScan has the contract's loop and       *)
(* WinnerScanProofs the proof that the loop computes it.                   *)
(***************************************************************************)
EXTENDS Integers, Sequences

CONSTANTS NoSolver,                   \* the zero address
          SurplusWeight, FeeWeight, ReputationWeight,
          MaxU256                     \* largest u256

ASSUME WeightAssumption ==
    /\ SurplusWeight \in Nat /\ FeeWeight \in Nat /\ ReputationWeight \in Nat
    /\ MaxU256 \in Nat

\* _calculate_score; rep is the stored solver_reputation of every solver.
Score(sol, rep) ==
    sol.surplus * SurplusWeight + (10000 - sol.fee) * FeeWeight
        + rep[sol.solver] * ReputationWeight

\* A score that does not fit makes the transaction panic.
ScoresFit(sols, rep) == \A k \in DOMAIN sols : Score(sols[k], rep) <= MaxU256

Rank(sol, rep) == [score |-> Score(sol, rep), fee |-> sol.fee, time |-> sol.time]

\* What the best_* variables hold before the first solution is read.
StartRank == [score |-> 0, fee |-> 10000, time |-> 0]

\* The higher score, then the lower fee, then the earlier submission.
Beats(a, b) ==
    \/ a.score > b.score
    \/ a.score = b.score /\ a.fee < b.fee
    \/ a.score = b.score /\ a.fee = b.fee /\ a.time < b.time

\* Solution k is the first of the best ones, and better than nothing.
IsWinner(k, sols, rep) ==
    /\ Beats(Rank(sols[k], rep), StartRank)
    /\ \A j \in DOMAIN sols :
          /\ j < k => Beats(Rank(sols[k], rep), Rank(sols[j], rep))
          /\ j > k => ~Beats(Rank(sols[j], rep), Rank(sols[k], rep))

HasWinner(sols, rep) == \E k \in DOMAIN sols : IsWinner(k, sols, rep)

WinnerIndex(sols, rep) == CHOOSE k \in DOMAIN sols : IsWinner(k, sols, rep)

\* The address finalize_auction stores as winning_solver.
Winner(sols, rep) ==
    IF HasWinner(sols, rep) THEN sols[WinnerIndex(sols, rep)].solver ELSE NoSolver
=============================================================================
