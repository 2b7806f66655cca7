-------------------------- MODULE WinnerScanProofs --------------------------
(***************************************************************************)
(* The loop of _select_winner finds the winner of every list of solutions. *)
(***************************************************************************)
EXTENDS WinnerScan, TLAPS

IsRank(r) == r \in [score : Int, fee : Int, time : Int]

LEMMA BeatsIsAnOrder ==
    ASSUME NEW a, NEW b, NEW c, IsRank(a), IsRank(b), IsRank(c)
    PROVE  /\ ~(Beats(a, b) /\ Beats(b, a))
           /\ Beats(a, b) /\ Beats(b, c) => Beats(a, c)
           /\ ~Beats(a, b) /\ ~Beats(b, c) => ~Beats(a, c)
           /\ Beats(a, b) /\ ~Beats(c, b) => Beats(a, c)
           /\ ~Beats(b, a) /\ Beats(b, c) => Beats(a, c)
  BY DEF Beats, IsRank

LEMMA FeeIsInteger ==
    ASSUME NEW sol, sol.fee \in 0..10000
    PROVE  sol.fee \in Int /\ 10000 - sol.fee \in Int
<1> DEFINE fee == sol.fee
<1>1. fee \in 0..10000
  OBVIOUS
<1> HIDE DEF fee
<1>2. fee \in Int /\ 10000 - fee \in Int
  BY <1>1
<1> QED
  BY <1>2 DEF fee

LEMMA SolutionHasRank ==
    ASSUME NEW sol \in Scanned, NEW rep \in Reputations
    PROVE  IsRank(Rank(sol, rep))
<1>1. /\ sol.solver \in Solvers /\ sol.surplus \in 0..MaxU256
      /\ sol.fee \in 0..10000 /\ sol.time \in Nat
  BY DEF Scanned
<1>2. /\ sol.surplus \in Int /\ sol.fee \in Int /\ 10000 - sol.fee \in Int
      /\ SurplusWeight \in Int /\ FeeWeight \in Int /\ ReputationWeight \in Int
  <2>1. sol.fee \in Int /\ 10000 - sol.fee \in Int
    BY <1>1, FeeIsInteger
  <2> QED
    BY <2>1, <1>1, WeightAssumption
<1>3. rep[sol.solver] \in Int
  BY <1>1, ScanAssumption
<1>4. /\ sol.surplus * SurplusWeight \in Int
      /\ (10000 - sol.fee) * FeeWeight \in Int
      /\ rep[sol.solver] * ReputationWeight \in Int
  BY <1>2, <1>3
<1>5. Score(sol, rep) \in Int
  BY <1>4 DEF Score
<1> QED
  BY <1>1, <1>2, <1>5 DEF IsRank, Rank

LEMMA SolutionsHaveRanks ==
    ASSUME NEW sols \in SolutionLists, NEW rep \in Reputations, NEW k \in 1..Len(sols)
    PROVE  IsRank(Rank(sols[k], rep))
<1>1. sols[k] \in Scanned
  BY ScanAssumption
<1> QED
  BY <1>1, SolutionHasRank

LEMMA StartIsRank == IsRank(StartRank)
  BY DEF IsRank, StartRank

LEMMA ScanStep == ScanInv /\ [ReadSolution]_scanVars => ScanInv'
<1> SUFFICES ASSUME ScanInv, [ReadSolution]_scanVars PROVE ScanInv'
  OBVIOUS
<1>1. CASE UNCHANGED scanVars
  BY <1>1 DEF ScanInv, scanVars
<1>2. CASE ReadSolution
  <2> DEFINE n == i + 1
             R(j) == Rank(solutions[j], solver_reputation)
  <2>1. /\ i \in Nat /\ n \in 1..Len(solutions) /\ i' = n
        /\ solutions' = solutions /\ solver_reputation' = solver_reputation
        /\ solutions \in SolutionLists /\ solver_reputation \in Reputations
    <3>1. Len(solutions) \in Nat
      BY ScanAssumption DEF ScanInv
    <3> QED
      BY <1>2, <3>1 DEF ScanInv, ReadSolution
  <2>2. \A j \in 1..n : IsRank(R(j))
    <3>1. Len(solutions) \in Nat /\ \A j \in 1..n : j \in 1..Len(solutions)
      BY <2>1, ScanAssumption
    <3> QED
      BY <2>1, <3>1, SolutionsHaveRanks
  <2>3. Replaces(solutions[n]) <=> Beats(R(n), best)
    BY DEF Replaces, Beats
  <2>4. IF Replaces(solutions[n]) THEN best_solver' = solutions[n].solver /\ best' = R(n)
                                  ELSE best_solver' = best_solver /\ best' = best
    BY <1>2, <2>1 DEF ReadSolution
  <2>5. i' \in 0..Len(solutions')
    <3>1. Len(solutions) \in Nat
      BY <2>1, ScanAssumption
    <3> QED
      BY <2>1, <3>1
  <2> HIDE DEF R
  <2>6. CASE /\ best_solver = NoSolver /\ best = StartRank
             /\ \A j \in 1..i : ~Beats(R(j), StartRank)
    <3>1. CASE Beats(R(n), best)
      <4>1. best_solver' = solutions[n].solver /\ best' = R(n) /\ Beats(best', StartRank)
        BY <3>1, <2>3, <2>4, <2>6
      <4>2. \A j \in 1..n : (j < n => Beats(best', R(j))) /\ (j > n => ~Beats(R(j), best'))
        <5> SUFFICES ASSUME NEW j \in 1..n, j < n PROVE Beats(best', R(j))
          BY <2>1
        <5>1. ~Beats(R(j), StartRank)
          BY <2>1, <2>6
        <5> QED
          BY <5>1, <4>1, <2>1, <2>2, StartIsRank, BeatsIsAnOrder
      <4> QED
        BY <2>1, <2>5, <4>1, <4>2 DEF ScanInv, R
    <3>2. CASE ~Beats(R(n), best)
      <4>1. best_solver' = NoSolver /\ best' = StartRank
        BY <3>2, <2>3, <2>4, <2>6
      <4>2. \A j \in 1..n : ~Beats(R(j), StartRank)
        BY <3>2, <2>1, <2>6
      <4> QED
        BY <2>1, <2>5, <4>1, <4>2 DEF ScanInv, R
    <3> QED
      BY <3>1, <3>2
  <2>7. ASSUME NEW k \in 1..i,
               best_solver = solutions[k].solver, best = R(k), Beats(best, StartRank),
               \A j \in 1..i : /\ j < k => Beats(best, R(j))
                               /\ j > k => ~Beats(R(j), best)
        PROVE  ScanInv'
    <3>1. k \in 1..n /\ IsRank(R(k)) /\ IsRank(R(n))
      BY <2>1, <2>2
    <3>2. CASE Beats(R(n), best)
      <4>1. best_solver' = solutions[n].solver /\ best' = R(n)
        BY <3>2, <2>3, <2>4
      <4>2. Beats(best', StartRank)
        BY <4>1, <3>2, <2>7, <3>1, StartIsRank, BeatsIsAnOrder
      <4>3. \A j \in 1..n : (j < n => Beats(best', R(j))) /\ (j > n => ~Beats(R(j), best'))
        <5> SUFFICES ASSUME NEW j \in 1..n, j < n PROVE Beats(best', R(j))
          BY <2>1
        <5>1. j \in 1..i /\ IsRank(R(j))
          BY <2>1, <2>2
        <5>2. j = k \/ Beats(best, R(j)) \/ ~Beats(R(j), best)
          BY <5>1, <2>7
        <5> QED
          BY <5>1, <5>2, <4>1, <3>1, <3>2, <2>7, BeatsIsAnOrder
      <4> QED
        BY <2>1, <2>5, <4>1, <4>2, <4>3 DEF ScanInv, R
    <3>3. CASE ~Beats(R(n), best)
      <4>1. best_solver' = best_solver /\ best' = best
        BY <3>3, <2>3, <2>4
      <4>2. \A j \in 1..n : (j < k => Beats(best, R(j))) /\ (j > k => ~Beats(R(j), best))
        BY <3>3, <2>1, <2>7
      <4> QED
        BY <2>1, <2>5, <2>7, <3>1, <4>1, <4>2 DEF ScanInv, R
    <3> QED
      BY <3>2, <3>3
  <2> QED
    BY <2>6, <2>7 DEF ScanInv, R
<1> QED
  BY <1>1, <1>2

\* What the scan knows at its end is who the winner is.
LEMMA EndOfScan == ScanInv => ScanFindsWinner
<1> SUFFICES ASSUME ScanInv, i = Len(solutions)
             PROVE  best_solver = Winner(solutions, solver_reputation)
  BY DEF ScanFindsWinner
<1> DEFINE R(j) == Rank(solutions[j], solver_reputation)
           Best(k) == IsWinner(k, solutions, solver_reputation)
<1>1. /\ solutions \in SolutionLists /\ solver_reputation \in Reputations
      /\ i \in Nat /\ DOMAIN solutions = 1..i
  BY ScanAssumption DEF ScanInv
<1>2. \A j \in 1..i : IsRank(R(j))
  BY <1>1, SolutionsHaveRanks
<1>3. \A k \in 1..i : Best(k) <=> /\ Beats(R(k), StartRank)
                                  /\ \A j \in 1..i : /\ j < k => Beats(R(k), R(j))
                                                     /\ j > k => ~Beats(R(j), R(k))
  BY <1>1 DEF IsWinner
<1> HIDE DEF R, Best
<1>4. ASSUME NEW k \in 1..i, NEW l \in 1..i, Best(k), Best(l) PROVE k = l
  <2>1. ASSUME NEW a \in 1..i, NEW b \in 1..i, Best(a), Best(b), a < b PROVE FALSE
    <3>1. Beats(R(b), R(a)) /\ ~Beats(R(b), R(a))
      BY <2>1, <1>1, <1>3
    <3> QED
      BY <3>1
  <2> QED
    BY <2>1, <1>4, <1>1
<1>5. CASE /\ best_solver = NoSolver
           /\ \A j \in 1..i : ~Beats(R(j), StartRank)
  <2>1. ~\E k \in 1..i : Best(k)
    BY <1>3, <1>5
  <2> QED
    BY <2>1, <1>1, <1>5 DEF Winner, HasWinner, Best
<1>6. ASSUME NEW k \in 1..i, best_solver = solutions[k].solver, best = R(k),
             Beats(best, StartRank),
             \A j \in 1..i : (j < k => Beats(best, R(j))) /\ (j > k => ~Beats(R(j), best))
      PROVE  best_solver = Winner(solutions, solver_reputation)
  <2>1. Best(k)
    BY <1>3, <1>6
  <2>2. WinnerIndex(solutions, solver_reputation) = k
    BY <2>1, <1>1, <1>4 DEF WinnerIndex, Best
  <2> QED
    BY <2>1, <2>2, <1>1, <1>6 DEF Winner, HasWinner, Best
<1> QED
  BY <1>5, <1>6 DEF ScanInv, R

LEMMA ScanStart == ScanInit => ScanInv
<1> SUFFICES ASSUME ScanInit PROVE ScanInv
  OBVIOUS
<1>1. Len(solutions) \in Nat
  BY ScanAssumption DEF ScanInit
<1> QED
  BY <1>1 DEF ScanInit, ScanInv

\* The loop of _select_winner keeps the first of the best solutions it has read.
THEOREM ScanKeepsTheBest == ScanSpec => []ScanInv
<1> QED
  BY ScanStart, ScanStep, PTL DEF ScanSpec

\* When the loop of _select_winner ends, best_solver is the winner by the rule of
\* the ranking, for every list of solutions and every stored reputation.
THEOREM LoopFindsWinner == ScanSpec => []ScanFindsWinner
<1> QED
  BY ScanKeepsTheBest, EndOfScan, PTL
=============================================================================
