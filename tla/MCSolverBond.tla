---------------------------- MODULE MCSolverBond ----------------------------
(***************************************************************************)
(* SolverBond for TLC, with the statement of a document the contract is    *)
(* measured against.                                                       *)
(***************************************************************************)
EXTENDS SolverBond, TLC

\* Every definition treats the solvers alike.
SolverSymmetry == Permutations(Solvers)

\* A solver is blacklisted with bond left in the contract only after more than
\* MaxSlashes slashes inside one slash window (docs/requirements/prd.md:1258,
\* "Solver has >3 slashing events in 30-day window").
BlacklistNeedsRecentSlashes ==
    [][\A s \in Solvers :
          (~solver_info[s].blacklisted /\ solver_info'[s].blacklisted /\ held'[s] > 0)
          => Cardinality({i \in DOMAIN slash_history'[s] :
                 slash_history'[s][i].timestamp + SlashWindow >= now}) > MaxSlashes
      ]_<<now, bondVars>>
=============================================================================
