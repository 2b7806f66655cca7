---------------------------- MODULE MCWinnerScan ----------------------------
(***************************************************************************)
(* WinnerScan for TLC: every list of up to three solutions that differ in  *)
(* surplus, fee and time, in the order of their submission.                *)
(***************************************************************************)
EXTENDS WinnerScan

CONSTANTS Surpluses, Fees, Times

Submitted == [solver : Solvers, surplus : Surpluses, fee : Fees, time : Times]

MCSolutionLists ==
    {<<>>} \cup {<<a>> : a \in Submitted}
           \cup {sols \in [1..2 -> Submitted] : sols[1].time <= sols[2].time}
           \cup {sols \in [1..3 -> Submitted] :
                    sols[1].time <= sols[2].time /\ sols[2].time <= sols[3].time}

MCReputations == [Solvers -> 0..1]
=============================================================================
