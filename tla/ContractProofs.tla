--------------------------- MODULE ContractProofs ---------------------------
(***************************************************************************)
(* Proofs about the four contracts.  SolverBond and IntentRegistry first,  *)
(* each by itself; then the auction on top of the bond contract; then the  *)
(* settlement that joins all of them: each contract keeps its own          *)
(* invariant, and a settlement is all or nothing, honors what the orders   *)
(* ask for and leaves a faithful solver alone.                             *)
(***************************************************************************)
EXTENDS BatchSettlement, SumTheorems, WellFoundedInduction

-----------------------------------------------------------------------------
(* SolverBond, for every set of solvers and every value of the amounts,    *)
(* delays, windows and percentages its assumptions admit.                  *)

-----------------------------------------------------------------------------
(* Lemmas about the operators. *)

\* Two percentages of an amount, each rounded down, never exceed it.
LEMMA CutsFit ==
    ASSUME NEW a \in Nat
    PROVE  /\ (a * UserBps) \div 10000 \in Nat
           /\ (a * TreasuryBps) \div 10000 \in Nat
           /\ (a * UserBps) \div 10000 + (a * TreasuryBps) \div 10000 <= a
<1> DEFINE x == a * UserBps
           y == a * TreasuryBps
<1>1. x \in Nat /\ y \in Nat
    BY BondAssumption
<1>2. x + y <= a * 10000
    <2>1. x + y = a * (UserBps + TreasuryBps)
        BY BondAssumption
    <2>2. \A k, m \in Nat : k <= m => a * k <= a * m
        OBVIOUS
    <2>3. QED
        BY <2>1, <2>2, BondAssumption
<1> HIDE DEF x, y
<1>3. /\ x \div 10000 \in Nat
      /\ y \div 10000 \in Nat
      /\ x \div 10000 + y \div 10000 <= a
    BY <1>1, <1>2
<1>4. QED
    BY <1>3 DEF x, y

\* _distribute_slash pays out exactly the amount slashed, in non-negative shares.
LEMMA SlashSplit ==
    ASSUME NEW a \in Nat
    PROVE  /\ \A r \in Recipients : Share(a, r) \in Nat
           /\ Share(a, "user") + Share(a, "treasury") + Share(a, "whistleblower") = a
<1>1. /\ Share(a, "user") = (a * UserBps) \div 10000
      /\ Share(a, "treasury") = (a * TreasuryBps) \div 10000
      /\ Share(a, "whistleblower")
             = a - (a * UserBps) \div 10000 - (a * TreasuryBps) \div 10000
    BY DEF Share
<1>2. QED
    BY <1>1, CutsFit DEF Recipients

\* A slash takes at most the bond.
LEMMA ActualSlashBounds ==
    ASSUME NEW info \in SolverInfo, NEW amount \in Nat
    PROVE  /\ ActualSlash(info, amount) \in Nat
           /\ ActualSlash(info, amount) <= info.bond_amount
BY DEF ActualSlash, SolverInfo

\* What the calls make of a record is a record.
LEMMA RecordsStayRecords ==
    ASSUME NEW info \in SolverInfo, NEW amount \in Nat, NEW t \in Nat
    PROVE  /\ Deposited(info, amount, t) \in SolverInfo
           /\ WithdrawalRequested(info, amount, t) \in SolverInfo
           /\ amount <= info.bond_amount => Withdrawn(info, amount) \in SolverInfo
           /\ Slashed(info, amount, t) \in SolverInfo
           /\ SuccessRecorded(info, t) \in SolverInfo
           /\ FailureRecorded(info, t) \in SolverInfo
           /\ \A b \in BOOLEAN : LockedAs(info, b) \in SolverInfo
<1>1. /\ info.bond_amount \in Nat
      /\ info.bond_amount + amount \in Nat
      /\ info.successful_settlements + 1 \in Nat
      /\ info.failed_settlements + 1 \in Nat
      /\ info.slash_count_30d + 1 \in Nat
    BY DEF SolverInfo
<1>2. \A n \in Nat : /\ [info EXCEPT !.bond_amount = n, !.last_activity = t] \in SolverInfo
                     /\ [info EXCEPT !.bond_amount = n, !.withdrawal_request_time = 0,
                                     !.withdrawal_request_amount = 0] \in SolverInfo
                     /\ [info EXCEPT !.successful_settlements = n,
                                     !.last_activity = t] \in SolverInfo
                     /\ [info EXCEPT !.failed_settlements = n,
                                     !.last_activity = t] \in SolverInfo
    BY DEF SolverInfo
<1>3. Deposited(info, amount, t) \in SolverInfo
    BY <1>1, <1>2 DEF Deposited
<1>4. WithdrawalRequested(info, amount, t) \in SolverInfo
    BY DEF WithdrawalRequested, SolverInfo
<1>5. amount <= info.bond_amount => Withdrawn(info, amount) \in SolverInfo
    <2>1. amount <= info.bond_amount => info.bond_amount - amount \in Nat
        BY <1>1
    <2>2. QED
        BY <2>1, <1>2 DEF Withdrawn
<1>6. Slashed(info, amount, t) \in SolverInfo
    <2>1. \A bond, count, failures \in Nat, b \in BOOLEAN :
             [info EXCEPT !.bond_amount = bond, !.slash_count_30d = count,
                          !.last_slash_timestamp = t, !.failed_settlements = failures,
                          !.withdrawal_request_amount = 0,
                          !.withdrawal_request_time = 0,
                          !.blacklisted = b] \in SolverInfo
        BY DEF SolverInfo
    <2>2. info.blacklisted \in BOOLEAN
        BY DEF SolverInfo
    <2>3. info.bond_amount - ActualSlash(info, amount) \in Nat
        BY <1>1, ActualSlashBounds
    <2>4. QED
        BY <1>1, <2>1, <2>2, <2>3 DEF Slashed, SlashCountAfter
<1>7. SuccessRecorded(info, t) \in SolverInfo /\ FailureRecorded(info, t) \in SolverInfo
    BY <1>1, <1>2 DEF SuccessRecorded, FailureRecorded
<1>8. \A b \in BOOLEAN : LockedAs(info, b) \in SolverInfo
    BY DEF LockedAs, SolverInfo
<1>9. QED
    BY <1>3, <1>4, <1>5, <1>6, <1>7, <1>8

-----------------------------------------------------------------------------
(* AccountInv is kept by every call, for the solver the call is about. *)

LEMMA AccountDeposited ==
    ASSUME NEW info \in SolverInfo, NEW h \in Int, NEW t \in Nat, NEW amount \in Nat,
           AccountInv(info, h, t)
    PROVE  AccountInv(Deposited(info, amount, t), h + amount, t)
BY DEF AccountInv, Deposited, SolverInfo

LEMMA AccountRequested ==
    ASSUME NEW info \in SolverInfo, NEW h \in Int, NEW t \in Nat, NEW amount \in Nat,
           AccountInv(info, h, t), amount <= info.bond_amount
    PROVE  AccountInv(WithdrawalRequested(info, amount, t), h, t)
BY DEF AccountInv, WithdrawalRequested, SolverInfo

LEMMA AccountWithdrawn ==
    ASSUME NEW info \in SolverInfo, NEW h \in Int, NEW t \in Nat, NEW amount \in Nat,
           AccountInv(info, h, t), amount <= info.bond_amount
    PROVE  AccountInv(Withdrawn(info, amount), h - amount, t)
BY DEF AccountInv, Withdrawn, SolverInfo

LEMMA AccountSlashed ==
    ASSUME NEW info \in SolverInfo, NEW h \in Int, NEW t \in Nat, NEW amount \in Nat,
           AccountInv(info, h, t)
    PROVE  AccountInv(Slashed(info, amount, t), h - ActualSlash(info, amount), t)
<1> DEFINE actual == ActualSlash(info, amount)
           after  == Slashed(info, amount, t)
           repeated == SlashCountAfter(info, t) > MaxSlashes
<1>1. /\ actual \in Nat
      /\ actual <= info.bond_amount
    BY ActualSlashBounds
<1>2. /\ after.bond_amount = IF repeated THEN 0 ELSE info.bond_amount - actual
      /\ after.last_slash_timestamp = t
      /\ after.withdrawal_request_amount = 0
    BY DEF Slashed, SolverInfo
<1>3. ~after.blacklisted => ~info.blacklisted /\ ~repeated
    BY Zenon DEF Slashed, SolverInfo
<1> HIDE DEF actual, after
<1>4. info.bond_amount \in Nat
    BY DEF SolverInfo
<1>5. AccountInv(after, h - actual, t)
    BY <1>1, <1>2, <1>3, <1>4 DEF AccountInv
<1>6. QED
    BY <1>5 DEF after, actual

LEMMA AccountGraded ==
    ASSUME NEW info \in SolverInfo, NEW h \in Int, NEW t \in Nat,
           AccountInv(info, h, t)
    PROVE  /\ AccountInv(SuccessRecorded(info, t), h, t)
           /\ AccountInv(FailureRecorded(info, t), h, t)
           /\ \A b \in BOOLEAN : AccountInv(LockedAs(info, b), h, t)
           /\ AccountInv(info, h, t + 1)
<1>1. AccountInv(SuccessRecorded(info, t), h, t)
    BY DEF AccountInv, SuccessRecorded, SolverInfo
<1>2. AccountInv(FailureRecorded(info, t), h, t)
    BY DEF AccountInv, FailureRecorded, SolverInfo
<1>3. \A b \in BOOLEAN : AccountInv(LockedAs(info, b), h, t)
    BY DEF AccountInv, LockedAs, SolverInfo
<1>4. AccountInv(info, h, t + 1)
    BY DEF AccountInv, SolverInfo
<1>5. QED
    BY <1>1, <1>2, <1>3, <1>4

-----------------------------------------------------------------------------
(* The invariant. *)

LEMMA BondInitInv ==
    ASSUME ClockInit, NEW contracts \in SUBSET Callers, BondInitWith(contracts)
    PROVE  BondInv
<1>1. now \in Nat
    BY ClockAssumption DEF ClockInit
<1>2. NewSolver \in SolverInfo
    BY DEF NewSolver, SolverInfo
<1>3. BondTypeOK
    <2>1. <<>> \in Seq(SlashEvent)
        OBVIOUS
    <2>2. QED
        BY <1>2, <2>1, BondAssumption DEF BondInitWith, BondTypeOK
<1>4. \A s \in Solvers : AccountInv(solver_info[s], held[s], now)
    BY <1>1 DEF BondInitWith, NewSolver, AccountInv
<1>5. QED
    BY <1>1, <1>3, <1>4 DEF BondInv

\* A transaction that replaces one solver's record and adjusts what is held for
\* it keeps every solver's part of the invariant, if it keeps that solver's.
LEMMA OneAccountChanges ==
    ASSUME BondInv, UNCHANGED now,
           NEW s \in Solvers, NEW after \in SolverInfo, NEW h \in Int,
           AccountInv(after, h, now),
           solver_info' = [solver_info EXCEPT ![s] = after],
           held' = [held EXCEPT ![s] = h]
    PROVE  /\ solver_info' \in [Solvers -> SolverInfo]
           /\ held' \in [Solvers -> Int]
           /\ \A q \in Solvers : AccountInv(solver_info'[q], held'[q], now')
<1>1. /\ solver_info \in [Solvers -> SolverInfo]
      /\ held \in [Solvers -> Int]
    BY DEF BondInv, BondTypeOK
<1>2. /\ solver_info' \in [Solvers -> SolverInfo]
      /\ held' \in [Solvers -> Int]
    BY <1>1
<1>3. ASSUME NEW q \in Solvers
      PROVE  AccountInv(solver_info'[q], held'[q], now')
    <2>1. CASE q = s
        BY <2>1, <1>1
    <2>2. CASE q # s
        <3>1. solver_info'[q] = solver_info[q] /\ held'[q] = held[q]
            BY <2>2, <1>1
        <3>2. QED
            BY <3>1 DEF BondInv
    <2>3. QED
        BY <2>1, <2>2
<1>4. QED
    BY <1>2, <1>3

\* What a slash changes, whatever else its transaction does to the record.
LEMMA SlashEffectsInv ==
    ASSUME BondInv, UNCHANGED now,
           NEW s \in Solvers, NEW amount \in Nat, NEW after \in SolverInfo,
           AccountInv(after, held[s] - ActualSlash(solver_info[s], amount), now),
           SlashEffects(s, amount, after)
    PROVE  /\ solver_info' \in [Solvers -> SolverInfo]
           /\ held' \in [Solvers -> Int]
           /\ slash_history' \in [Solvers -> Seq(SlashEvent)]
           /\ receipts' \in [Recipients -> Nat]
           /\ \A q \in Solvers : AccountInv(solver_info'[q], held'[q], now')
<1> DEFINE actual == ActualSlash(solver_info[s], amount)
<1>1. /\ solver_info[s] \in SolverInfo
      /\ held[s] \in Int
      /\ now \in Nat
    BY DEF BondInv, BondTypeOK
<1>2. actual \in Nat
    BY <1>1, ActualSlashBounds
<1>3. solver_info' = [solver_info EXCEPT ![s] = after]
    BY DEF SlashEffects
<1>4. /\ \A r \in Recipients : Share(actual, r) \in Nat
      /\ Share(actual, "user") + Share(actual, "treasury")
             + Share(actual, "whistleblower") = actual
    BY <1>2, SlashSplit
<1>5. held' = [held EXCEPT ![s] = held[s] - actual]
    BY <1>4 DEF SlashEffects
<1>6. receipts' \in [Recipients -> Nat]
    BY <1>4 DEF SlashEffects, BondInv, BondTypeOK
<1>7. slash_history' \in [Solvers -> Seq(SlashEvent)]
    <2>1. slash_history \in [Solvers -> Seq(SlashEvent)]
        BY DEF BondInv, BondTypeOK
    <2>2. [slash_amount |-> actual, timestamp |-> now] \in SlashEvent
        BY <1>1, <1>2 DEF SlashEvent
    <2>3. Append(slash_history[s], [slash_amount |-> actual, timestamp |-> now])
              \in Seq(SlashEvent)
        BY <2>1, <2>2
    <2>4. slash_history' = [slash_history EXCEPT ![s] =
              Append(slash_history[s], [slash_amount |-> actual, timestamp |-> now])]
        BY DEF SlashEffects
    <2>5. QED
        BY <2>1, <2>3, <2>4
<1>8. held[s] - actual \in Int
    BY <1>1, <1>2
<1>9. QED
    BY <1>3, <1>5, <1>6, <1>7, <1>8, OneAccountChanges

\* A slash of any amount, whoever asks for it.
LEMMA SlashKeepsInv ==
    ASSUME BondInv, UNCHANGED now,
           NEW s \in Solvers, NEW amount \in Nat, slash(s, amount)
    PROVE  BondInv'
<1>1. /\ now \in Nat
      /\ BondTypeOK
      /\ solver_info[s] \in SolverInfo
      /\ held[s] \in Int
      /\ AccountInv(solver_info[s], held[s], now)
    BY DEF BondInv, BondTypeOK
<1>2. /\ Slashed(solver_info[s], amount, now) \in SolverInfo
      /\ AccountInv(Slashed(solver_info[s], amount, now),
                    held[s] - ActualSlash(solver_info[s], amount), now)
    BY <1>1, RecordsStayRecords, AccountSlashed
<1>3. /\ solver_info' \in [Solvers -> SolverInfo]
      /\ held' \in [Solvers -> Int]
      /\ slash_history' \in [Solvers -> Seq(SlashEvent)]
      /\ receipts' \in [Recipients -> Nat]
      /\ \A q \in Solvers : AccountInv(solver_info'[q], held'[q], now')
    BY <1>2, SlashEffectsInv DEF slash
<1>4. QED
    BY <1>1, <1>3 DEF slash, BondInv, BondTypeOK

\* A transaction that only rewrites one solver's record.
LEMMA RecordChangeKeepsInv ==
    ASSUME BondInv, UNCHANGED now,
           NEW s \in Solvers, NEW after \in SolverInfo,
           AccountInv(after, held[s], now),
           solver_info' = [solver_info EXCEPT ![s] = after],
           UNCHANGED <<slash_history, minimum_bond, pending_minimum_bond, wired,
                       wallet, held, receipts>>
    PROVE  BondInv'
<1>1. /\ now \in Nat
      /\ BondTypeOK
      /\ held[s] \in Int
    BY DEF BondInv, BondTypeOK
<1>2. held' = [held EXCEPT ![s] = held[s]]
    BY <1>1 DEF BondTypeOK
<1>3. /\ solver_info' \in [Solvers -> SolverInfo]
      /\ held' \in [Solvers -> Int]
      /\ \A q \in Solvers : AccountInv(solver_info'[q], held'[q], now')
    BY <1>1, <1>2, OneAccountChanges
<1>4. QED
    BY <1>1, <1>3 DEF BondInv, BondTypeOK

LEMMA BondStepInv == BondInv /\ [BondNext]_<<now, bondVars>> => BondInv'
<1> SUFFICES ASSUME BondInv, [BondNext]_<<now, bondVars>>
             PROVE  BondInv'
    OBVIOUS
<1>1. /\ now \in Nat
      /\ BondTypeOK
      /\ \A s \in Solvers : /\ solver_info[s] \in SolverInfo
                            /\ held[s] \in Int
                            /\ AccountInv(solver_info[s], held[s], now)
    BY DEF BondInv, BondTypeOK
<1>2. Amounts \subseteq Nat /\ MinimumBonds \subseteq Nat
    BY BondAssumption
<1>3. ASSUME NEW s \in Solvers, NEW amount \in Amounts,
             deposit_bond(s, amount), UNCHANGED now
      PROVE  BondInv'
    <2>1. /\ Deposited(solver_info[s], amount, now) \in SolverInfo
          /\ AccountInv(Deposited(solver_info[s], amount, now), held[s] + amount, now)
        BY <1>1, <1>2, RecordsStayRecords, AccountDeposited
    <2>2. held[s] + amount \in Int
        BY <1>1, <1>2
    <2>3. /\ solver_info' \in [Solvers -> SolverInfo]
          /\ held' \in [Solvers -> Int]
          /\ \A q \in Solvers : AccountInv(solver_info'[q], held'[q], now')
        BY <1>3, <2>1, <2>2, OneAccountChanges DEF deposit_bond
    <2>4. wallet' \in [Solvers -> Nat]
        BY <1>1, <1>2, <1>3 DEF deposit_bond, BondTypeOK
    <2>5. QED
        BY <1>1, <1>3, <2>3, <2>4 DEF deposit_bond, BondInv, BondTypeOK
<1>4. ASSUME NEW s \in Solvers, NEW amount \in Amounts,
             request_withdrawal(s, amount), UNCHANGED now
      PROVE  BondInv'
    <2>1. /\ WithdrawalRequested(solver_info[s], amount, now) \in SolverInfo
          /\ AccountInv(WithdrawalRequested(solver_info[s], amount, now), held[s], now)
        BY <1>1, <1>2, <1>4, RecordsStayRecords, AccountRequested DEF request_withdrawal
    <2>2. held' = [held EXCEPT ![s] = held[s]]
        BY <1>1, <1>4 DEF request_withdrawal, BondTypeOK
    <2>3. /\ solver_info' \in [Solvers -> SolverInfo]
          /\ held' \in [Solvers -> Int]
          /\ \A q \in Solvers : AccountInv(solver_info'[q], held'[q], now')
        BY <1>1, <1>4, <2>1, <2>2, OneAccountChanges DEF request_withdrawal
    <2>4. QED
        BY <1>1, <1>4, <2>3 DEF request_withdrawal, BondInv, BondTypeOK
<1>5. ASSUME NEW s \in Solvers, NEW amount \in Amounts,
             withdraw(s, amount), UNCHANGED now
      PROVE  BondInv'
    <2>1. /\ Withdrawn(solver_info[s], amount) \in SolverInfo
          /\ AccountInv(Withdrawn(solver_info[s], amount), held[s] - amount, now)
        BY <1>1, <1>2, <1>5, RecordsStayRecords, AccountWithdrawn DEF withdraw
    <2>2. held[s] - amount \in Int
        BY <1>1, <1>2
    <2>3. /\ solver_info' \in [Solvers -> SolverInfo]
          /\ held' \in [Solvers -> Int]
          /\ \A q \in Solvers : AccountInv(solver_info'[q], held'[q], now')
        BY <1>5, <2>1, <2>2, OneAccountChanges DEF withdraw
    <2>4. wallet' \in [Solvers -> Nat]
        BY <1>1, <1>2, <1>5 DEF withdraw, BondTypeOK
    <2>5. QED
        BY <1>1, <1>5, <2>3, <2>4 DEF withdraw, BondInv, BondTypeOK
<1>6. ASSUME NEW s \in Solvers, NEW amount \in Amounts,
             slash(s, amount), UNCHANGED now
      PROVE  BondInv'
    BY <1>2, <1>6, SlashKeepsInv
<1>7. ASSUME NEW s \in Solvers, record_settlement_success(s), UNCHANGED now
      PROVE  BondInv'
    <2>1. SuccessRecorded(solver_info[s], now) \in SolverInfo
        BY <1>1, RecordsStayRecords, 0 \in Nat
    <2>2. AccountInv(SuccessRecorded(solver_info[s], now), held[s], now)
        BY <1>1, AccountGraded
    <2>3. QED
        BY <1>7, <2>1, <2>2, RecordChangeKeepsInv DEF record_settlement_success, RecordSettlement
<1>8. ASSUME NEW s \in Solvers, record_settlement_failure(s), UNCHANGED now
      PROVE  BondInv'
    <2>1. FailureRecorded(solver_info[s], now) \in SolverInfo
        BY <1>1, RecordsStayRecords, 0 \in Nat
    <2>2. AccountInv(FailureRecorded(solver_info[s], now), held[s], now)
        BY <1>1, AccountGraded
    <2>3. QED
        BY <1>8, <2>1, <2>2, RecordChangeKeepsInv DEF record_settlement_failure, RecordSettlement
<1>9. ASSUME NEW s \in Solvers, NEW locked \in BOOLEAN,
              set_locked(s, locked), UNCHANGED now
       PROVE  BondInv'
    <2>1. LockedAs(solver_info[s], locked) \in SolverInfo
        BY <1>1, RecordsStayRecords, 0 \in Nat
    <2>2. AccountInv(LockedAs(solver_info[s], locked), held[s], now)
        BY <1>1, AccountGraded
    <2>3. QED
        BY <1>9, <2>1, <2>2, RecordChangeKeepsInv DEF set_locked
<1>10. CASE /\ \/ \E m \in MinimumBonds : propose_minimum_bond(m)
               \/ apply_minimum_bond
               \/ \E c \in Callers : set_contract(c)
            /\ UNCHANGED now
    <2>1. UNCHANGED <<solver_info, slash_history, wallet, held, receipts>>
        BY <1>10 DEF propose_minimum_bond, apply_minimum_bond, set_contract
    <2>2. /\ minimum_bond' \in Nat
          /\ pending_minimum_bond' \in [value : Nat, time : Nat]
          /\ wired' \subseteq Callers
        BY <1>1, <1>2, <1>10
        DEF propose_minimum_bond, apply_minimum_bond, set_contract, BondTypeOK
    <2>3. QED
        BY <1>1, <1>10, <2>1, <2>2 DEF BondInv, BondTypeOK
<1>11. CASE BondTick
    <2>1. now' = now + 1 /\ UNCHANGED bondVars
        BY <1>11 DEF BondTick, Tick
    <2>2. \A q \in Solvers : AccountInv(solver_info'[q], held'[q], now')
        BY <1>1, <2>1, AccountGraded DEF bondVars
    <2>3. QED
        BY <1>1, <2>1, <2>2 DEF bondVars, BondInv, BondTypeOK
<1>12. CASE UNCHANGED <<now, bondVars>>
    BY <1>12 DEF bondVars, BondInv, BondTypeOK
<1>13. QED
    BY <1>3, <1>4, <1>5, <1>6, <1>7, <1>8, <1>9, <1>10, <1>11, <1>12
    DEF BondNext, SolverStep, BondAdminStep, CallerStep

THEOREM BondInvariant == BondSpec => []BondInv
<1>1. BondSpecInit => BondInv
    BY BondInitInv, {} \in SUBSET Callers DEF BondSpecInit, BondInit
<1>2. QED
    BY <1>1, BondStepInv, PTL DEF BondSpec

\* Every reachable state of the bond contract is well typed.
THEOREM BondTypeCorrect == BondSpec => []BondTypeOK
<1>1. BondInv => BondTypeOK
    BY DEF BondInv
<1>2. QED
    BY <1>1, BondInvariant, PTL

\* The contract always holds, for each solver, at least that solver's bond.
THEOREM Solvency == BondSpec => []BondBacked
<1>1. BondInv => BondBacked
    BY DEF BondInv, BondBacked, AccountInv
<1>2. QED
    BY <1>1, BondInvariant, PTL

\* Rounding strands no token of a solver that is not blacklisted.
THEOREM NothingStranded == BondSpec => []NothingStrandedBeforeBlacklist
<1>1. BondInv => NothingStrandedBeforeBlacklist
    BY DEF BondInv, NothingStrandedBeforeBlacklist, AccountInv
<1>2. QED
    BY <1>1, BondInvariant, PTL

\* A pending request never exceeds the bond and is younger than the last slash.
THEOREM RequestsAfterSlashes == BondSpec => []RequestAfterSlash
<1>1. BondInv => RequestAfterSlash
    BY DEF BondInv, RequestAfterSlash, AccountInv
<1>2. QED
    BY <1>1, BondInvariant, PTL

-----------------------------------------------------------------------------
(* What can happen to the bonds, whichever contract calls. *)

\* A grade or a lock leaves bond and blacklist as they are, a slash makes neither better.
SameStanding(after, info) ==
    /\ after \in SolverInfo
    /\ after.bond_amount = info.bond_amount
    /\ after.blacklisted = info.blacklisted

\* What a call of another contract does to the bonds.  A slash, whatever else its
\* transaction does to the record it leaves:
Slashing(s) ==
    \E amount \in Nat, after \in SolverInfo :
        /\ SlashEffects(s, amount, after)
        /\ UNCHANGED wallet
        /\ solver_info[s].blacklisted => after.blacklisted
        /\ after.bond_amount <= solver_info[s].bond_amount

\* A grade or a lock:
Grading(s) ==
    \E after \in SolverInfo :
        /\ solver_info' = [solver_info EXCEPT ![s] = after]
        /\ UNCHANGED <<slash_history, wallet, held, receipts>>
        /\ SameStanding(after, solver_info[s])

\* All that may happen to the bonds in one transaction.
BondEffect ==
    \/ SolverStep
    \/ \E s \in Solvers : Slashing(s) \/ Grading(s)
    \/ UNCHANGED <<solver_info, slash_history, wallet, held, receipts>>

LEMMA GradesKeepStanding ==
    ASSUME NEW info \in SolverInfo, NEW t \in Nat
    PROVE  /\ SameStanding(SuccessRecorded(info, t), info)
           /\ SameStanding(FailureRecorded(info, t), info)
           /\ \A b \in BOOLEAN : SameStanding(LockedAs(info, b), info)
<1>1. /\ SuccessRecorded(info, t) \in SolverInfo
      /\ FailureRecorded(info, t) \in SolverInfo
      /\ \A b \in BOOLEAN : LockedAs(info, b) \in SolverInfo
    BY RecordsStayRecords, 0 \in Nat
<1>2. /\ SuccessRecorded(info, t).bond_amount = info.bond_amount
      /\ SuccessRecorded(info, t).blacklisted = info.blacklisted
      /\ FailureRecorded(info, t).bond_amount = info.bond_amount
      /\ FailureRecorded(info, t).blacklisted = info.blacklisted
    BY Zenon DEF SuccessRecorded, FailureRecorded, SolverInfo
<1>3. \A b \in BOOLEAN : /\ LockedAs(info, b).bond_amount = info.bond_amount
                         /\ LockedAs(info, b).blacklisted = info.blacklisted
    BY Zenon DEF LockedAs, SolverInfo
<1>4. QED
    BY <1>1, <1>2, <1>3 DEF SameStanding

LEMMA SlashLowersStanding ==
    ASSUME NEW info \in SolverInfo, NEW amount \in Nat, NEW t \in Nat
    PROVE  /\ Slashed(info, amount, t) \in SolverInfo
           /\ Slashed(info, amount, t).bond_amount <= info.bond_amount
           /\ info.blacklisted => Slashed(info, amount, t).blacklisted
<1>1. Slashed(info, amount, t) \in SolverInfo
    BY RecordsStayRecords
<1>2. info.blacklisted => Slashed(info, amount, t).blacklisted
    BY Zenon DEF Slashed, SolverInfo
<1>3. Slashed(info, amount, t).bond_amount <= info.bond_amount
    <2>1. Slashed(info, amount, t).bond_amount
              = IF SlashCountAfter(info, t) > MaxSlashes THEN 0
                ELSE info.bond_amount - ActualSlash(info, amount)
        BY DEF Slashed, SolverInfo
    <2>2. info.bond_amount \in Nat
        BY DEF SolverInfo
    <2>3. QED
        BY <2>1, <2>2, ActualSlashBounds
<1>4. QED
    BY <1>1, <1>2, <1>3

\* Every step of the bond contract is one of these.
LEMMA BondStepEffect == BondInv /\ [BondNext]_<<now, bondVars>> => BondEffect
<1> SUFFICES ASSUME BondInv, BondNext, ~ SolverStep
             PROVE  BondEffect
    BY DEF BondEffect, bondVars
<1>1. now \in Nat /\ \A s \in Solvers : solver_info[s] \in SolverInfo
    BY DEF BondInv, BondTypeOK
<1>2. ASSUME NEW s \in Solvers, NEW amount \in Nat, slash(s, amount)
      PROVE  Slashing(s)
    BY <1>1, <1>2, SlashLowersStanding DEF slash, Slashing
<1>3. ASSUME NEW s \in Solvers,
             \/ record_settlement_success(s) \/ record_settlement_failure(s)
             \/ \E locked \in BOOLEAN : set_locked(s, locked)
      PROVE  Grading(s)
    <2> DEFINE Grades(after) ==
                   /\ \/ after = SuccessRecorded(solver_info[s], now)
                      \/ after = FailureRecorded(solver_info[s], now)
                      \/ \E locked \in BOOLEAN : after = LockedAs(solver_info[s], locked)
                   /\ solver_info' = [solver_info EXCEPT ![s] = after]
                   /\ UNCHANGED <<slash_history, wallet, held, receipts>>
    <2>1. PICK after : Grades(after)
        <3>1. ASSUME record_settlement_success(s)
              PROVE  Grades(SuccessRecorded(solver_info[s], now))
            BY <3>1 DEF record_settlement_success, RecordSettlement
        <3>2. ASSUME record_settlement_failure(s)
              PROVE  Grades(FailureRecorded(solver_info[s], now))
            BY <3>2 DEF record_settlement_failure, RecordSettlement
        <3>3. ASSUME NEW locked \in BOOLEAN, set_locked(s, locked)
              PROVE  Grades(LockedAs(solver_info[s], locked))
            BY <3>3 DEF set_locked
        <3> HIDE DEF Grades
        <3>4. QED
            BY <1>3, <3>1, <3>2, <3>3
    <2>2. SameStanding(after, solver_info[s])
        BY <1>1, <2>1, GradesKeepStanding
    <2>3. QED
        BY <2>1, <2>2 DEF Grading, SameStanding
<1>4. CASE \/ \E m \in MinimumBonds : propose_minimum_bond(m)
           \/ apply_minimum_bond
           \/ \E c \in Callers : set_contract(c)
           \/ BondTick
    BY <1>4 DEF BondEffect, BondTick, bondVars, propose_minimum_bond, apply_minimum_bond,
        set_contract
<1>5. Amounts \subseteq Nat
    BY BondAssumption
<1>6. QED
    BY <1>2, <1>3, <1>4, <1>5 DEF BondEffect, BondNext, BondAdminStep, CallerStep

\* Nobody but the solver itself is paid from a bond, after a quiet delay.
LEMMA EffectPaysAfterDelay ==
    ASSUME BondInv, BondEffect
    PROVE  PaidAfterQuietDelay
<1> SUFFICES ASSUME NEW s \in Solvers, wallet'[s] > wallet[s]
             PROVE  now >= solver_info[s].last_slash_timestamp + WithdrawalDelay
    BY DEF PaidAfterQuietDelay
<1>1. /\ wallet \in [Solvers -> Nat]
      /\ solver_info[s] \in SolverInfo
      /\ AccountInv(solver_info[s], held[s], now)
      /\ now \in Nat
    BY DEF BondInv, BondTypeOK
<1>2. PICK q \in Solvers, amount \in Amounts : withdraw(q, amount)
    <2>1. CASE \E q \in Solvers, amount \in Amounts : deposit_bond(q, amount)
        BY <2>1, <1>1, BondAssumption DEF deposit_bond
    <2>2. CASE UNCHANGED wallet
        BY <2>2, <1>1
    <2>3. QED
        BY <2>1, <2>2 DEF BondEffect, SolverStep, Slashing, Grading, request_withdrawal
<1>3. q = s
    BY <1>1, <1>2 DEF withdraw
<1>4. amount \in Nat /\ amount > 0
    BY <1>1, <1>2, <1>3, BondAssumption DEF withdraw
<1>5. /\ solver_info[s].withdrawal_request_amount > 0
      /\ now >= solver_info[s].withdrawal_request_time + WithdrawalDelay
    BY <1>1, <1>2, <1>3, <1>4 DEF withdraw, SolverInfo
<1>6. solver_info[s].withdrawal_request_time >= solver_info[s].last_slash_timestamp
    BY <1>1, <1>5 DEF AccountInv
<1>7. /\ solver_info[s].withdrawal_request_time \in Nat
      /\ solver_info[s].last_slash_timestamp \in Nat
      /\ WithdrawalDelay \in Nat
    BY <1>1, BondAssumption DEF SolverInfo
<1>8. QED
    BY <1>1, <1>5, <1>6, <1>7

\* Nothing makes a bond grow or a blacklisted solver a welcome one.
LEMMA EffectKeepsBlacklist ==
    ASSUME BondTypeOK, BondEffect
    PROVE  NoWayBack
<1> SUFFICES ASSUME NEW s \in Solvers, solver_info[s].blacklisted
             PROVE  /\ solver_info'[s].blacklisted
                    /\ solver_info'[s].bond_amount <= solver_info[s].bond_amount
    BY DEF NoWayBack
<1>1. /\ solver_info \in [Solvers -> SolverInfo]
      /\ solver_info[s] \in SolverInfo
      /\ solver_info[s].bond_amount \in Nat
      /\ Amounts \subseteq Nat
    BY BondAssumption DEF BondTypeOK, SolverInfo
<1>2. CASE UNCHANGED solver_info
    BY <1>1, <1>2
<1>3. ASSUME NEW q \in Solvers, NEW amount \in Amounts,
             deposit_bond(q, amount) \/ request_withdrawal(q, amount) \/ withdraw(q, amount)
      PROVE  /\ solver_info'[s].blacklisted
             /\ solver_info'[s].bond_amount <= solver_info[s].bond_amount
    <2>1. CASE q # s
        BY <1>1, <1>3, <2>1 DEF deposit_bond, request_withdrawal, withdraw
    <2>2. CASE q = s
        <3>1. amount \in Nat
            BY <1>1
        <3>2. \/ solver_info'[s] = WithdrawalRequested(solver_info[s], amount, now)
              \/ solver_info'[s] = Withdrawn(solver_info[s], amount)
            BY <1>1, <1>3, <2>2 DEF deposit_bond, request_withdrawal, withdraw
        <3>3. /\ WithdrawalRequested(solver_info[s], amount, now).blacklisted
              /\ WithdrawalRequested(solver_info[s], amount, now).bond_amount
                     = solver_info[s].bond_amount
              /\ Withdrawn(solver_info[s], amount).blacklisted
              /\ Withdrawn(solver_info[s], amount).bond_amount
                     = solver_info[s].bond_amount - amount
            BY <1>1, Zenon DEF WithdrawalRequested, Withdrawn, SolverInfo
        <3>4. QED
            BY <1>1, <3>1, <3>2, <3>3
    <2>3. QED
        BY <2>1, <2>2
<1>4. ASSUME NEW q \in Solvers, Slashing(q) \/ Grading(q)
      PROVE  /\ solver_info'[s].blacklisted
             /\ solver_info'[s].bond_amount <= solver_info[s].bond_amount
    <2>1. PICK after \in SolverInfo :
              /\ solver_info' = [solver_info EXCEPT ![q] = after]
              /\ solver_info[q].blacklisted => after.blacklisted
              /\ \/ after.bond_amount <= solver_info[q].bond_amount
                 \/ after.bond_amount = solver_info[q].bond_amount
        BY <1>4 DEF Slashing, Grading, SlashEffects, SameStanding
    <2>2. CASE q # s
        BY <1>1, <2>1, <2>2
    <2>3. CASE q = s
        BY <1>1, <2>1, <2>3
    <2>4. QED
        BY <2>2, <2>3
<1>5. QED
    BY <1>2, <1>3, <1>4 DEF BondEffect, SolverStep

\* No payment reaches a solver's wallet within a withdrawal delay after a slash.
THEOREM SlashPrecedesWithdrawal == BondSpec => SlashBeforeWithdraw
<1>1. BondInv /\ [BondNext]_<<now, bondVars>> => [PaidAfterQuietDelay]_<<now, bondVars>>
    BY BondStepEffect, EffectPaysAfterDelay
<1>2. QED
    BY <1>1, BondInvariant, PTL DEF BondSpec, SlashBeforeWithdraw

\* Once blacklisted, a solver neither returns nor rebuilds its bond.
THEOREM BlacklistPermanence == BondSpec => BlacklistIsPermanent
<1>1. BondInv /\ [BondNext]_<<now, bondVars>> => [NoWayBack]_<<now, bondVars>>
    BY BondStepEffect, EffectKeepsBlacklist DEF BondInv
<1>2. QED
    BY <1>1, BondInvariant, PTL DEF BondSpec, BlacklistIsPermanent

-----------------------------------------------------------------------------
(* Every slash is paid out once, in full, and written down. *)

LEMMA SumIsSumOver == \A f : SumFunction(f) = SumOver(f, DOMAIN f)
BY DEF SumFunction, SumFunctionOnSet, FoldFunctionOnSet, SumOver, MapThenSumSet

\* The entries of a history, and what they add up to when there is one more.
Taken(history) == [k \in DOMAIN history |-> history[k].slash_amount]

LEMMA TotalIsNat ==
    ASSUME NEW history \in Seq(SlashEvent)
    PROVE  /\ SumOver(Taken(history), 1..Len(history)) \in Nat
           /\ DOMAIN Taken(history) = 1..Len(history)
<1>1. PICK n \in Nat : n = Len(history) /\ DOMAIN history = 1..n
    OBVIOUS
<1>2. \A k \in 1..n : history[k] \in SlashEvent
    BY <1>1
<1>3. \A k \in 1..n : Taken(history)[k] \in Nat
    BY <1>1, <1>2 DEF Taken, SlashEvent
<1>4. IsFiniteSet(1..n)
    BY FS_Interval
<1>5. SumOver(Taken(history), 1..n) \in Nat
    BY <1>3, <1>4, SumIsNat
<1>6. DOMAIN Taken(history) = 1..n
    BY <1>1 DEF Taken
<1>7. QED
    BY <1>1, <1>5, <1>6

LEMMA TotalGrows ==
    ASSUME NEW history \in Seq(SlashEvent), NEW event \in SlashEvent
    PROVE  SumOver(Taken(Append(history, event)), 1..Len(history) + 1)
               = event.slash_amount + SumOver(Taken(history), 1..Len(history))
<1>1. PICK n \in Nat : n = Len(history) /\ DOMAIN history = 1..n
    OBVIOUS
<1> DEFINE longer == Append(history, event)
<1>2. /\ longer \in Seq(SlashEvent) /\ DOMAIN longer = 1..n + 1 /\ longer[n + 1] = event
      /\ \A k \in 1..n : longer[k] = history[k]
    <2>1. /\ longer \in Seq(SlashEvent) /\ DOMAIN longer = 1..Len(history) + 1
          /\ longer[Len(history) + 1] = event
          /\ \A k \in 1..Len(history) : longer[k] = history[k]
        OBVIOUS
    <2>2. QED
        BY <1>1, <2>1
<1> HIDE DEF longer
<1>3. /\ \A k \in 1..n + 1 : longer[k] \in SlashEvent
      /\ \A k \in 1..n : k \in 1..n + 1
      /\ n + 1 \in 1..n + 1 /\ (1..n + 1) \ {n + 1} = 1..n
    BY <1>1, <1>2
<1>4. /\ \A k \in 1..n + 1 : Taken(longer)[k] \in Nat
      /\ Taken(longer)[n + 1] = event.slash_amount
      /\ \A k \in 1..n : Taken(longer)[k] = Taken(history)[k]
    BY <1>1, <1>2, <1>3 DEF Taken, SlashEvent
<1>5. IsFiniteSet(1..n) /\ IsFiniteSet(1..n + 1)
    BY FS_Interval
<1>6. SumOver(Taken(longer), 1..n + 1) = Taken(longer)[n + 1] + SumOver(Taken(longer), 1..n)
    <2>1. PICK D, last : D = 1..n + 1 /\ last = n + 1
        OBVIOUS
    <2>2. IsFiniteSet(D) /\ last \in D /\ \A k \in D : Taken(longer)[k] \in Nat
        BY <1>3, <1>4, <1>5, <2>1
    <2>3. SumOver(Taken(longer), D) = Taken(longer)[last] + SumOver(Taken(longer), D \ {last})
        BY <2>2, SumWithout
    <2>4. QED
        BY <1>3, <2>1, <2>3
<1>7. SumOver(Taken(longer), 1..n) = SumOver(Taken(history), 1..n)
    BY <1>4, <1>5, SumOfEqual
<1>8. QED
    BY <1>1, <1>4, <1>6, <1>7 DEF longer

\* The sum over the three recipients.
LEMMA RecipientsSum ==
    ASSUME NEW f \in [Recipients -> Nat]
    PROVE  SumOver(f, Recipients) = f["user"] + f["treasury"] + f["whistleblower"]
<1>1. /\ Recipients = {"user", "treasury", "whistleblower"} /\ IsFiniteSet(Recipients)
      /\ \A r \in Recipients : f[r] \in Nat
    <2>1. IsFiniteSet({"user", "treasury", "whistleblower"})
        <3>1. {"user", "treasury", "whistleblower"}
                  = ({} \cup {"user"}) \cup {"treasury"} \cup {"whistleblower"}
            OBVIOUS
        <3>2. IsFiniteSet({} \cup {"user"})
            BY FS_EmptySet, FS_AddElement
        <3>3. IsFiniteSet(({} \cup {"user"}) \cup {"treasury"})
            BY <3>2, FS_AddElement
        <3>4. QED
            BY <3>1, <3>3, FS_AddElement
    <2>2. QED
        BY <2>1 DEF Recipients
<1>2. SumOver(f, Recipients) = f["user"] + SumOver(f, Recipients \ {"user"})
    BY <1>1, SumWithout
<1>3. SumOver(f, Recipients \ {"user"})
          = f["treasury"] + SumOver(f, (Recipients \ {"user"}) \ {"treasury"})
    BY <1>1, SumWithout
<1>4. (Recipients \ {"user"}) \ {"treasury"} = {"whistleblower"}
    BY <1>1
<1>5. SumOver(f, {"whistleblower"}) = f["whistleblower"]
    BY <1>1, SumOfOne
<1>6. f["user"] \in Nat /\ f["treasury"] \in Nat /\ f["whistleblower"] \in Nat
    BY <1>1
<1>7. QED
    BY <1>2, <1>3, <1>4, <1>5, <1>6

\* What was taken of each solver.
Totals(histories) ==
    [s \in Solvers |-> SumOver(Taken(histories[s]), 1..Len(histories[s]))]

\* A history in the words of the sums.
LEMMA TotalOfHistory ==
    ASSUME NEW histories \in [Solvers -> Seq(SlashEvent)], NEW s \in Solvers
    PROVE  /\ SumFunction([k \in DOMAIN histories[s] |-> histories[s][k].slash_amount])
                  = Totals(histories)[s]
           /\ Totals(histories)[s] \in Nat
<1>1. PICK history \in Seq(SlashEvent) : history = histories[s]
    OBVIOUS
<1>2. SumFunction(Taken(history)) = SumOver(Taken(history), 1..Len(history))
    BY SumIsSumOver, TotalIsNat
<1>3. Taken(histories[s]) = [k \in DOMAIN histories[s] |-> histories[s][k].slash_amount]
    BY DEF Taken
<1>4. QED
    BY <1>1, <1>2, <1>3, TotalIsNat DEF Totals

LEMMA AccountedSums ==
    ASSUME NEW histories \in [Solvers -> Seq(SlashEvent)], NEW paid \in [Recipients -> Nat]
    PROVE  /\ SumFunction(paid) = SumOver(paid, Recipients)
           /\ SumFunction([s \in Solvers |-> SumFunction(Taken(histories[s]))])
                  = SumOver(Totals(histories), Solvers)
<1>1. [s \in Solvers |-> SumFunction(Taken(histories[s]))] = Totals(histories)
    <2>1. Totals(histories) = [s \in Solvers |-> Totals(histories)[s]]
        BY DEF Totals
    <2>2. \A s \in Solvers : SumFunction(Taken(histories[s])) = Totals(histories)[s]
        BY TotalOfHistory DEF Taken
    <2>3. QED
        BY <2>1, <2>2
<1>2. DOMAIN paid = Recipients /\ DOMAIN Totals(histories) = Solvers
    BY DEF Totals
<1>3. QED
    BY <1>1, <1>2, SumIsSumOver

\* The property in these words.
LEMMA AccountedNow ==
    ASSUME BondTypeOK
    PROVE  SlashesAccounted <=>
               SumOver(receipts, Recipients) = SumOver(Totals(slash_history), Solvers)
<1>1. /\ slash_history \in [Solvers -> Seq(SlashEvent)]
      /\ receipts \in [Recipients -> Nat]
    BY DEF BondTypeOK
<1>2. SlashesAccounted <=>
          SumFunction(receipts)
              = SumFunction([s \in Solvers |-> SumFunction(Taken(slash_history[s]))])
    BY DEF SlashesAccounted, SlashedInTotal, Taken
<1>3. QED
    BY <1>1, <1>2, AccountedSums

LEMMA AccountedNext ==
    ASSUME BondTypeOK'
    PROVE  SlashesAccounted' <=>
               SumOver(receipts', Recipients) = SumOver(Totals(slash_history'), Solvers)
<1>1. /\ slash_history' \in [Solvers -> Seq(SlashEvent)]
      /\ receipts' \in [Recipients -> Nat]
    BY DEF BondTypeOK
<1>2. SlashesAccounted' <=>
          SumFunction(receipts')
              = SumFunction([s \in Solvers |-> SumFunction(Taken(slash_history'[s]))])
    BY DEF SlashesAccounted, SlashedInTotal, Taken
<1>3. QED
    BY <1>1, <1>2, AccountedSums

\* At first nothing is taken and nobody is paid.
LEMMA NothingTakenFirst ==
    ASSUME BondTypeOK, NEW contracts \in SUBSET Callers, BondInitWith(contracts)
    PROVE  SlashesAccounted
<1>1. /\ slash_history = [s \in Solvers |-> <<>>]
      /\ receipts = [r \in Recipients |-> 0] /\ receipts \in [Recipients -> Nat]
    BY DEF BondInitWith, BondTypeOK
<1>2. SumOver(receipts, Recipients) = 0
    <2>1. receipts["user"] = 0 /\ receipts["treasury"] = 0 /\ receipts["whistleblower"] = 0
        BY <1>1 DEF Recipients
    <2>2. QED
        BY <1>1, <2>1, RecipientsSum
<1>3. \A s \in Solvers : Totals(slash_history)[s] = 0
    <2>1. 1..Len(<<>>) = {}
        OBVIOUS
    <2>2. SumOver(Taken(<<>>), 1..Len(<<>>)) = 0
        BY <2>1, SumOfNone
    <2>3. QED
        BY <1>1, <2>2 DEF Totals
<1>4. SumOver(Totals(slash_history), Solvers) = 0
    BY <1>3, SumOfZeros, BondAssumption
<1>5. QED
    BY <1>2, <1>4, AccountedNow

\* A slash is what is added to the history.
LEMMA SlashAddsToHistory ==
    ASSUME BondInv, BondTypeOK', NEW s \in Solvers, NEW amount \in Nat, NEW after,
           SlashEffects(s, amount, after)
    PROVE  /\ Totals(slash_history')[s]
                  = ActualSlash(solver_info[s], amount) + Totals(slash_history)[s]
           /\ \A q \in Solvers \ {s} : Totals(slash_history')[q] = Totals(slash_history)[q]
<1>1. /\ slash_history \in [Solvers -> Seq(SlashEvent)]
      /\ slash_history' \in [Solvers -> Seq(SlashEvent)]
      /\ solver_info[s] \in SolverInfo /\ now \in Nat
    BY DEF BondInv, BondTypeOK
<1>2. PICK actual \in Nat : actual = ActualSlash(solver_info[s], amount)
    BY <1>1, ActualSlashBounds
<1>3. PICK event \in SlashEvent : event = [slash_amount |-> actual, timestamp |-> now]
    BY <1>1 DEF SlashEvent
<1>4. /\ slash_history' = [slash_history EXCEPT ![s] = Append(@, event)]
      /\ event.slash_amount = actual
    BY <1>2, <1>3 DEF SlashEffects
<1>5. PICK history \in Seq(SlashEvent) : history = slash_history[s]
    BY <1>1
<1>6. /\ slash_history'[s] = Append(history, event)
      /\ Len(Append(history, event)) = Len(history) + 1
    BY <1>1, <1>4, <1>5
<1>7. Totals(slash_history')[s] = SumOver(Taken(Append(history, event)), 1..Len(history) + 1)
    BY <1>6 DEF Totals
<1>8. Totals(slash_history)[s] = SumOver(Taken(history), 1..Len(history))
    BY <1>5 DEF Totals
<1>9. Totals(slash_history')[s] = actual + Totals(slash_history)[s]
    BY <1>4, <1>7, <1>8, TotalGrows
<1>10. \A q \in Solvers \ {s} : slash_history'[q] = slash_history[q]
    BY <1>1, <1>4
<1>11. QED
    BY <1>2, <1>9, <1>10 DEF Totals

\* A slash adds the same to one history and to what the recipients have.
LEMMA SlashIsAccounted ==
    ASSUME BondInv, BondTypeOK', SlashesAccounted, NEW s \in Solvers, NEW amount \in Nat,
           NEW after, SlashEffects(s, amount, after)
    PROVE  SlashesAccounted'
<1>1. /\ slash_history \in [Solvers -> Seq(SlashEvent)]
      /\ slash_history' \in [Solvers -> Seq(SlashEvent)]
      /\ receipts \in [Recipients -> Nat] /\ receipts' \in [Recipients -> Nat]
      /\ solver_info[s] \in SolverInfo /\ now \in Nat
    BY DEF BondInv, BondTypeOK
<1>2. PICK actual \in Nat : actual = ActualSlash(solver_info[s], amount)
    BY <1>1, ActualSlashBounds
<1>3. receipts' = [r \in Recipients |-> receipts[r] + Share(actual, r)]
    BY <1>2 DEF SlashEffects
<1>5. SumOver(receipts', Recipients) = SumOver(receipts, Recipients) + actual
    <2>1. /\ "user" \in Recipients /\ "treasury" \in Recipients
          /\ "whistleblower" \in Recipients
        BY DEF Recipients
    <2>2. PICK u, t, w \in Nat : /\ u = Share(actual, "user") /\ t = Share(actual, "treasury")
                                 /\ w = Share(actual, "whistleblower")
                                 /\ u + t + w = actual
        <3>1. /\ \A r \in Recipients : Share(actual, r) \in Nat
              /\ Share(actual, "user") + Share(actual, "treasury")
                    + Share(actual, "whistleblower") = actual
            BY SlashSplit
        <3>2. PICK u \in Nat : u = Share(actual, "user")
            BY <2>1, <3>1
        <3>3. PICK t \in Nat : t = Share(actual, "treasury")
            BY <2>1, <3>1
        <3>4. PICK w \in Nat : w = Share(actual, "whistleblower")
            BY <2>1, <3>1
        <3>5. QED
            BY <3>1, <3>2, <3>3, <3>4
    <2>3. /\ receipts'["user"] = receipts["user"] + u
          /\ receipts'["treasury"] = receipts["treasury"] + t
          /\ receipts'["whistleblower"] = receipts["whistleblower"] + w
        BY <1>3, <2>1, <2>2
    <2>4. /\ receipts["user"] \in Nat /\ receipts["treasury"] \in Nat
          /\ receipts["whistleblower"] \in Nat
        BY <1>1, <2>1
    <2>5. PICK before, later \in [Recipients -> Nat] : before = receipts /\ later = receipts'
        BY <1>1
    <2>6. /\ SumOver(before, Recipients)
                 = before["user"] + before["treasury"] + before["whistleblower"]
          /\ SumOver(later, Recipients)
                 = later["user"] + later["treasury"] + later["whistleblower"]
        BY RecipientsSum
    <2>7. QED
        BY <2>2, <2>3, <2>4, <2>5, <2>6
<1> DEFINE before == Totals(slash_history)
           later  == Totals(slash_history')
<1>6. /\ later[s] = actual + before[s]
      /\ \A q \in Solvers \ {s} : later[q] = before[q]
    BY <1>2, SlashAddsToHistory
<1>7. (\A q \in Solvers : before[q] \in Nat) /\ (\A q \in Solvers : later[q] \in Nat)
    BY <1>1, TotalIsNat DEF Totals
<1> HIDE DEF before, later
<1>8. SumOver(later, Solvers) = SumOver(before, Solvers) + actual
    <2>1. IsFiniteSet(Solvers) /\ IsFiniteSet(Solvers \ {s})
        BY BondAssumption, FS_Subset
    <2>2. /\ SumOver(later, Solvers) = later[s] + SumOver(later, Solvers \ {s})
          /\ SumOver(before, Solvers) = before[s] + SumOver(before, Solvers \ {s})
        BY <1>7, <2>1, SumWithout
    <2>3. SumOver(later, Solvers \ {s}) = SumOver(before, Solvers \ {s})
        BY <1>6, <2>1, SumOfEqual
    <2>4. before[s] \in Nat /\ SumOver(before, Solvers \ {s}) \in Nat
        BY <1>7, <2>1, SumIsNat
    <2>5. QED
        BY <1>6, <2>2, <2>3, <2>4
<1>9. SumOver(receipts, Recipients) = SumOver(before, Solvers)
    BY AccountedNow DEF BondInv, before
<1>10. SumOver(receipts', Recipients) = SumOver(later, Solvers)
    BY <1>5, <1>8, <1>9
<1>11. SlashesAccounted' <=> SumOver(receipts', Recipients) = SumOver(later, Solvers)
    BY AccountedNext DEF later
<1>12. QED
    BY <1>10, <1>11

\* Whatever else happens leaves the histories and the recipients alone.
LEMMA EffectIsAccounted ==
    ASSUME BondInv, BondTypeOK', BondEffect, SlashesAccounted
    PROVE  SlashesAccounted'
<1>1. CASE \E s \in Solvers : Slashing(s)
    BY <1>1, SlashIsAccounted DEF Slashing
<1>2. CASE UNCHANGED <<slash_history, receipts>>
    BY <1>2 DEF SlashesAccounted, SlashedInTotal
<1>3. QED
    BY <1>1, <1>2 DEF BondEffect, SolverStep, Grading, deposit_bond, request_withdrawal, withdraw

\* What the recipients have is what the histories say was taken.
THEOREM SlashesAreAccounted == BondSpec => []SlashesAccounted
<1>1. BondSpecInit => SlashesAccounted
    BY BondInitInv, NothingTakenFirst, {} \in SUBSET Callers DEF BondSpecInit, BondInit, BondInv
<1>2. BondInv /\ BondInv' /\ SlashesAccounted /\ [BondNext]_<<now, bondVars>> => SlashesAccounted'
    BY BondStepEffect, EffectIsAccounted DEF BondInv
<1>3. QED
    BY <1>1, <1>2, BondInvariant, PTL DEF BondSpec

-----------------------------------------------------------------------------
(* No token is made or lost. *)

\* The property in these words.
LEMMA ConservedNow ==
    ASSUME BondTypeOK
    PROVE  TokensConserved <=>
               \A s \in Solvers : wallet[s] + held[s] + Totals(slash_history)[s] = Supply
BY TotalOfHistory DEF BondTypeOK, TokensConserved, SlashedInTotal

LEMMA ConservedNext ==
    ASSUME BondTypeOK'
    PROVE  TokensConserved' <=>
               \A s \in Solvers : wallet'[s] + held'[s] + Totals(slash_history')[s] = Supply
BY TotalOfHistory DEF BondTypeOK, TokensConserved, SlashedInTotal

LEMMA ConservedFirst ==
    ASSUME BondTypeOK, NEW contracts \in SUBSET Callers, BondInitWith(contracts)
    PROVE  TokensConserved
<1>1. /\ slash_history = [s \in Solvers |-> <<>>]
      /\ wallet = [s \in Solvers |-> Supply] /\ held = [s \in Solvers |-> 0]
    BY DEF BondInitWith
<1>2. SumOver(Taken(<<>>), 1..Len(<<>>)) = 0
    <2>1. 1..Len(<<>>) = {}
        OBVIOUS
    <2>2. QED
        BY <2>1, SumOfNone
<1>3. \A s \in Solvers : Totals(slash_history)[s] = 0
    BY <1>1, <1>2 DEF Totals
<1>4. Supply \in Nat
    BY BondAssumption
<1>5. QED
    BY <1>1, <1>3, <1>4, ConservedNow

\* Deposits and payments move tokens, slashes write down what they take.
LEMMA EffectConserves ==
    ASSUME BondInv, BondTypeOK', BondEffect, TokensConserved
    PROVE  TokensConserved'
<1>1. SUFFICES ASSUME NEW s \in Solvers
               PROVE  wallet'[s] + held'[s] + Totals(slash_history')[s] = Supply
    BY ConservedNext
<1>2. /\ BondTypeOK
      /\ wallet \in [Solvers -> Nat] /\ held \in [Solvers -> Int]
      /\ slash_history \in [Solvers -> Seq(SlashEvent)]
      /\ wallet[s] \in Nat /\ held[s] \in Int
      /\ Amounts \subseteq Nat
    BY BondAssumption DEF BondInv, BondTypeOK
<1>3. /\ Totals(slash_history)[s] \in Nat
      /\ wallet[s] + held[s] + Totals(slash_history)[s] = Supply
    BY <1>2, ConservedNow, TotalOfHistory
<1>4. ASSUME UNCHANGED <<slash_history, wallet, held>>
      PROVE  wallet'[s] + held'[s] + Totals(slash_history')[s] = Supply
    BY <1>3, <1>4
<1>5. ASSUME NEW q \in Solvers, NEW amount \in Amounts,
             deposit_bond(q, amount) \/ withdraw(q, amount)
      PROVE  wallet'[s] + held'[s] + Totals(slash_history')[s] = Supply
    <2>1. amount \in Nat /\ slash_history' = slash_history
        BY <1>2, <1>5 DEF deposit_bond, withdraw
    <2>2. wallet'[s] + held'[s] = wallet[s] + held[s]
        <3>1. \/ /\ wallet' = [wallet EXCEPT ![q] = wallet[q] - amount]
                 /\ held' = [held EXCEPT ![q] = held[q] + amount]
              \/ /\ wallet' = [wallet EXCEPT ![q] = wallet[q] + amount]
                 /\ held' = [held EXCEPT ![q] = held[q] - amount]
            BY <1>5 DEF deposit_bond, withdraw
        <3>2. CASE q = s
            BY <1>2, <2>1, <3>1, <3>2
        <3>3. CASE q # s
            BY <1>2, <3>1, <3>3
        <3>4. QED
            BY <3>2, <3>3
    <2>3. QED
        BY <1>3, <2>1, <2>2
<1>6. ASSUME NEW q \in Solvers, Slashing(q)
      PROVE  wallet'[s] + held'[s] + Totals(slash_history')[s] = Supply
    <2>1. PICK amount \in Nat, after \in SolverInfo :
              SlashEffects(q, amount, after) /\ UNCHANGED wallet
        BY <1>6 DEF Slashing
    <2>2. PICK actual \in Nat : actual = ActualSlash(solver_info[q], amount)
        <3>1. solver_info[q] \in SolverInfo
            BY <1>2 DEF BondTypeOK
        <3>2. QED
            BY <3>1, ActualSlashBounds
    <2>3. held' = [held EXCEPT ![q] = held[q] - actual]
        <3>1. held' = [held EXCEPT ![q] = held[q] - (Share(actual, "user")
                             + Share(actual, "treasury") + Share(actual, "whistleblower"))]
            BY <2>1, <2>2 DEF SlashEffects
        <3>2. Share(actual, "user") + Share(actual, "treasury")
                  + Share(actual, "whistleblower") = actual
            BY SlashSplit
        <3>3. QED
            BY <3>1, <3>2
    <2>4. /\ Totals(slash_history')[q] = actual + Totals(slash_history)[q]
          /\ \A p \in Solvers \ {q} : Totals(slash_history')[p] = Totals(slash_history)[p]
        BY <2>1, <2>2, SlashAddsToHistory
    <2>5. CASE q = s
        <3>1. held'[s] = held[s] - actual
            BY <1>2, <2>3, <2>5
        <3>2. Totals(slash_history')[s] = actual + Totals(slash_history)[s]
            BY <2>4, <2>5
        <3>3. wallet'[s] = wallet[s]
            BY <2>1
        <3>4. QED
            BY <1>2, <1>3, <3>1, <3>2, <3>3
    <2>6. CASE q # s
        <3>1. held'[s] = held[s] /\ wallet'[s] = wallet[s]
            BY <1>2, <2>1, <2>3, <2>6
        <3>2. QED
            BY <1>3, <2>4, <2>6, <3>1
    <2>7. QED
        BY <2>5, <2>6
<1>7. QED
    BY <1>4, <1>5, <1>6 DEF BondEffect, SolverStep, Grading, request_withdrawal

\* A solver's tokens are in its wallet, with the contract or in its slash history.
THEOREM TokensAreConserved == BondSpec => []TokensConserved
<1>1. BondSpecInit => TokensConserved
    BY BondInitInv, ConservedFirst, {} \in SUBSET Callers DEF BondSpecInit, BondInit, BondInv
<1>2. BondInv /\ BondInv' /\ TokensConserved /\ [BondNext]_<<now, bondVars>> => TokensConserved'
    BY BondStepEffect, EffectConserves DEF BondInv
<1>3. QED
    BY <1>1, <1>2, BondInvariant, PTL DEF BondSpec

-----------------------------------------------------------------------------
(* IntentRegistry, for every set of intents, users, nonces, assets and     *)
(* deadlines and every batch window.                                       *)

\* Nonces are used exactly by the committed intents, one intent each.
NoncesInv ==
    /\ user_nonces = {NonceKey[i] : i \in {j \in Intents : status[j] # "NONE"}}
    /\ NonceAdmitsOneIntent

RegistryInv ==
    /\ now \in StartTime..MaxTime
    /\ RegistryTypeOK
    /\ NoncesInv
    /\ CommittedIntentsAreListedOnce

-----------------------------------------------------------------------------
(* Lemmas about batches. *)

\* A timestamp of a modelled block belongs to a batch that has not ended.
LEMMA BatchOfNow ==
    ASSUME NEW t \in StartTime..MaxTime
    PROVE  /\ BatchOf(t) \in BatchIds
           /\ BatchOf(t) \in Nat
           /\ t < WindowEnd(BatchOf(t))
<1>1. /\ t \in Nat /\ t - Genesis \in Nat
      /\ BatchWindow \in Nat \ {0}
      /\ Genesis \in Nat
    BY ClockAssumption, RegistryAssumption
<1>2. BatchOf(t) \in BatchIds
    BY RegistryAssumption DEF BatchOf
<1>3. BatchOf(t) \in Nat
    BY <1>2, RegistryAssumption
<1>4. t - Genesis < (BatchOf(t) + 1) * BatchWindow
    BY <1>1, <1>3 DEF BatchOf
<1>5. QED
    BY <1>1, <1>2, <1>3, <1>4 DEF WindowEnd

\* Appending one intent to one list.
LEMMA AppendedLists ==
    ASSUME batch_intents \in [BatchIds -> Seq(Intents)],
           NEW b \in BatchIds, NEW i \in Intents,
           batch_intents' = [batch_intents EXCEPT ![b] = Append(batch_intents[b], i)]
    PROVE  /\ batch_intents' \in [BatchIds -> Seq(Intents)]
           /\ \A c \in BatchIds \ {b} : batch_intents'[c] = batch_intents[c]
           /\ Len(batch_intents'[b]) = Len(batch_intents[b]) + 1
           /\ \A k \in 1..Len(batch_intents[b]) : batch_intents'[b][k] = batch_intents[b][k]
           /\ batch_intents'[b][Len(batch_intents[b]) + 1] = i
           /\ \A c \in BatchIds : /\ DOMAIN batch_intents[c] = 1..Len(batch_intents[c])
                                  /\ DOMAIN batch_intents'[c] = 1..Len(batch_intents'[c])
                                  /\ Len(batch_intents[c]) \in Nat
<1>1. batch_intents[b] \in Seq(Intents) /\ Append(batch_intents[b], i) \in Seq(Intents)
    OBVIOUS
<1>2. batch_intents' \in [BatchIds -> Seq(Intents)]
    BY <1>1
<1>3. batch_intents'[b] = Append(batch_intents[b], i)
    OBVIOUS
<1>4. QED
    BY <1>1, <1>2, <1>3

\* The lists after a commitment of an intent that was in none of them.
LEMMA ListedOnceAfterCommit ==
    ASSUME RegistryTypeOK, CommittedIntentsAreListedOnce,
           NEW b \in BatchIds, NEW i \in Intents, status[i] = "NONE",
           status' = [status EXCEPT ![i] = "PENDING"],
           batch_intents' = [batch_intents EXCEPT ![b] = Append(batch_intents[b], i)]
    PROVE  CommittedIntentsAreListedOnce'
<1> DEFINE n == Len(batch_intents[b])
<1>1. /\ batch_intents \in [BatchIds -> Seq(Intents)]
      /\ status \in [Intents -> IntentStatus]
    BY DEF RegistryTypeOK
<1>2. /\ \A c \in BatchIds \ {b} : batch_intents'[c] = batch_intents[c]
      /\ Len(batch_intents'[b]) = n + 1
      /\ \A k \in 1..n : batch_intents'[b][k] = batch_intents[b][k]
      /\ batch_intents'[b][n + 1] = i
      /\ \A c \in BatchIds : /\ DOMAIN batch_intents[c] = 1..Len(batch_intents[c])
                             /\ DOMAIN batch_intents'[c] = 1..Len(batch_intents'[c])
                             /\ Len(batch_intents[c]) \in Nat
    BY <1>1, AppendedLists
<1>3. \A c \in BatchIds : \A k \in DOMAIN batch_intents[c] : batch_intents[c][k] # i
    BY DEF CommittedIntentsAreListedOnce
<1>4. \A c \in BatchIds : \A k \in DOMAIN batch_intents'[c] :
          \/ c = b /\ k = n + 1 /\ batch_intents'[c][k] = i
          \/ k \in DOMAIN batch_intents[c] /\ batch_intents'[c][k] = batch_intents[c][k]
    BY <1>2
<1>5. \A c \in BatchIds : \A k \in DOMAIN batch_intents[c] :
          k \in DOMAIN batch_intents'[c] /\ batch_intents'[c][k] = batch_intents[c][k]
    BY <1>2
<1>6. n + 1 \in DOMAIN batch_intents'[b]
    BY <1>2
<1>7. ASSUME NEW j \in Intents
      PROVE  status'[j] # "NONE" <=>
                 \E c \in BatchIds : \E k \in DOMAIN batch_intents'[c] : batch_intents'[c][k] = j
    <2>1. CASE j = i
        BY <2>1, <1>1, <1>2, <1>6
    <2>2. CASE j # i
        <3>1. status'[j] = status[j]
            BY <2>2, <1>1
        <3>2. status[j] # "NONE" <=>
                  \E c \in BatchIds : \E k \in DOMAIN batch_intents[c] : batch_intents[c][k] = j
            BY DEF CommittedIntentsAreListedOnce
        <3>3. QED
            BY <3>1, <3>2, <2>2, <1>4, <1>5
    <2>3. QED
        BY <2>1, <2>2
<1>8. ASSUME NEW c \in BatchIds, NEW d \in BatchIds,
             NEW k \in DOMAIN batch_intents'[c], NEW l \in DOMAIN batch_intents'[d],
             batch_intents'[c][k] = batch_intents'[d][l]
      PROVE  c = d /\ k = l
    BY <1>3, <1>4, <1>8 DEF CommittedIntentsAreListedOnce
<1>9. QED
    BY <1>7, <1>8 DEF CommittedIntentsAreListedOnce

-----------------------------------------------------------------------------
(* The invariant. *)

LEMMA RegistryInitInv ==
    ASSUME ClockInit, NEW settlement \in BOOLEAN, RegistryInitWith(settlement), AssetTypeOK
    PROVE  RegistryInv
<1>1. now \in StartTime..MaxTime
    BY ClockAssumption DEF ClockInit
<1>2. RegistryTypeOK
    <2>1. batch_intents \in [BatchIds -> Seq(Intents)]
        <3>1. <<>> \in Seq(Intents)
            OBVIOUS
        <3>2. QED
            BY <3>1 DEF RegistryInitWith
    <2>2. /\ status \in [Intents -> IntentStatus]
          /\ user_nonces = {} /\ paused \in BOOLEAN /\ settlementSet \in BOOLEAN
        BY DEF RegistryInitWith, IntentStatus
    <2>3. QED
        BY <2>1, <2>2 DEF RegistryInitWith, RegistryTypeOK
<1>3. NoncesInv
    BY DEF RegistryInitWith, NoncesInv, NonceAdmitsOneIntent
<1>4. CommittedIntentsAreListedOnce
    BY DEF RegistryInitWith, CommittedIntentsAreListedOnce
<1>5. QED
    BY <1>1, <1>2, <1>3, <1>4 DEF RegistryInv

\* Ending pending intents, one or several, changes no nonce and no list.
LEMMA EndsKeepInv ==
    ASSUME RegistryInv, UNCHANGED now,
           NEW S \in SUBSET Intents, NEW e \in {"SETTLED", "CANCELED", "EXPIRED"},
           \A i \in S : status[i] = "PENDING",
           status' = [i \in Intents |-> IF i \in S THEN e ELSE status[i]],
           UNCHANGED <<user_nonces, batch_intents, paused, settlementSet, whitelisted>>
    PROVE  RegistryInv'
<1>1. status \in [Intents -> IntentStatus]
    BY DEF RegistryInv, RegistryTypeOK
<1>2. \A i \in Intents : status'[i] # "NONE" <=> status[i] # "NONE"
    OBVIOUS
<1>3. RegistryTypeOK'
    BY <1>1 DEF RegistryInv, RegistryTypeOK, IntentStatus, AssetTypeOK
<1>4. NoncesInv'
    BY <1>2 DEF RegistryInv, NoncesInv, NonceAdmitsOneIntent
<1>5. CommittedIntentsAreListedOnce'
    BY <1>2 DEF RegistryInv, CommittedIntentsAreListedOnce
<1>6. QED
    BY <1>3, <1>4, <1>5 DEF RegistryInv

LEMMA EndIntentKeepsInv ==
    ASSUME RegistryInv, UNCHANGED now,
           NEW i \in Intents, NEW e \in {"SETTLED", "CANCELED", "EXPIRED"},
           EndIntent(i, e)
    PROVE  RegistryInv'
<1>1. status \in [Intents -> IntentStatus]
    BY DEF RegistryInv, RegistryTypeOK
<1>2. status' = [j \in Intents |-> IF j \in {i} THEN e ELSE status[j]]
    BY <1>1 DEF EndIntent
<1>3. \A j \in {i} : status[j] = "PENDING"
    BY DEF EndIntent
<1>4. UNCHANGED <<user_nonces, batch_intents, paused, settlementSet, whitelisted>>
    BY DEF EndIntent
<1>5. {i} \in SUBSET Intents
    OBVIOUS
<1>6. QED
    BY <1>2, <1>3, <1>4, <1>5, EndsKeepInv

LEMMA CommitKeepsInv ==
    ASSUME RegistryInv, UNCHANGED now, NEW i \in Intents, commit_intent(i)
    PROVE  RegistryInv'
<1>1. /\ now \in StartTime..MaxTime
      /\ RegistryTypeOK
      /\ status \in [Intents -> IntentStatus]
    BY DEF RegistryInv, RegistryTypeOK
<1>2. BatchOf(now) \in BatchIds
    BY <1>1, BatchOfNow
<1>3. CommittedIntentsAreListedOnce'
    BY <1>1, <1>2, ListedOnceAfterCommit DEF RegistryInv, commit_intent
<1>4. batch_intents' \in [BatchIds -> Seq(Intents)]
    BY <1>1, <1>2 DEF RegistryTypeOK, commit_intent
<1>5. RegistryTypeOK'
    BY <1>1, <1>4 DEF RegistryTypeOK, commit_intent, IntentStatus, AssetTypeOK
<1>6. \A j \in Intents : status'[j] # "NONE" <=> (j = i \/ status[j] # "NONE")
    BY <1>1 DEF commit_intent
<1>7. NoncesInv'
    <2>1. user_nonces' = {NonceKey[j] : j \in {k \in Intents : status'[k] # "NONE"}}
        BY <1>6 DEF RegistryInv, NoncesInv, commit_intent
    <2>2. \A j \in Intents : status[j] # "NONE" => NonceKey[j] # NonceKey[i]
        BY DEF RegistryInv, NoncesInv, commit_intent
    <2>3. NonceAdmitsOneIntent'
        BY <1>6, <2>2 DEF RegistryInv, NoncesInv, NonceAdmitsOneIntent
    <2>4. QED
        BY <2>1, <2>3 DEF NoncesInv
<1>8. QED
    BY <1>1, <1>3, <1>5, <1>7 DEF RegistryInv

LEMMA RegistryAdminKeepsInv ==
    ASSUME RegistryInv, UNCHANGED now, RegistryAdminStep
    PROVE  RegistryInv'
<1>1. UNCHANGED <<status, user_nonces, batch_intents>>
    BY DEF RegistryAdminStep, pause, unpause, set_batch_settlement_contract
<1>2. paused' \in BOOLEAN /\ settlementSet' \in BOOLEAN /\ whitelisted' \subseteq Assets
    BY DEF RegistryInv, RegistryTypeOK, AssetTypeOK, RegistryAdminStep, pause, unpause,
           set_batch_settlement_contract, AssetStep, whitelist_asset, remove_asset
<1>3. QED
    BY <1>1, <1>2 DEF RegistryInv, RegistryTypeOK, AssetTypeOK, NoncesInv,
        NonceAdmitsOneIntent, CommittedIntentsAreListedOnce

LEMMA RegistryTickKeepsInv ==
    ASSUME RegistryInv, RegistryTick
    PROVE  RegistryInv'
<1>1. /\ now' = now + 1 /\ now' \in StartTime..MaxTime
      /\ now \in Nat
      /\ UNCHANGED registryVars
    BY ClockAssumption DEF RegistryInv, RegistryTick, Tick
<1>2. QED
    BY <1>1 DEF RegistryInv, RegistryTypeOK, AssetTypeOK, NoncesInv,
        NonceAdmitsOneIntent, CommittedIntentsAreListedOnce, registryVars

LEMMA RegistryStepInv == RegistryInv /\ [RegistryNext]_<<now, registryVars>> => RegistryInv'
<1> SUFFICES ASSUME RegistryInv, [RegistryNext]_<<now, registryVars>>
             PROVE  RegistryInv'
    OBVIOUS
<1>1. ASSUME NEW i \in Intents, commit_intent(i), UNCHANGED now
      PROVE  RegistryInv'
    BY <1>1, CommitKeepsInv
<1>2. ASSUME NEW i \in Intents, cancel_intent(i), UNCHANGED now
      PROVE  RegistryInv'
    BY <1>2, EndIntentKeepsInv DEF cancel_intent
<1>3. ASSUME NEW i \in Intents, mark_expired(i), UNCHANGED now
      PROVE  RegistryInv'
    BY <1>3, EndIntentKeepsInv DEF mark_expired
<1>4. ASSUME NEW i \in Intents, mark_settled(i), UNCHANGED now
      PROVE  RegistryInv'
    BY <1>4, EndIntentKeepsInv DEF mark_settled
<1>5. CASE RegistryAdminStep /\ UNCHANGED now
    BY <1>5, RegistryAdminKeepsInv
<1>6. CASE RegistryTick
    BY <1>6, RegistryTickKeepsInv
<1>7. CASE UNCHANGED <<now, registryVars>>
    BY <1>7 DEF RegistryInv, RegistryTypeOK, AssetTypeOK, NoncesInv, NonceAdmitsOneIntent,
        CommittedIntentsAreListedOnce, registryVars
<1>8. QED
    BY <1>1, <1>2, <1>3, <1>4, <1>5, <1>6, <1>7 DEF RegistryNext, RegistryUserStep

LEMMA RegistryInvariant == RegistrySpec => []RegistryInv
<1>1. RegistrySpecInit => RegistryInv
    BY RegistryInitInv, FALSE \in BOOLEAN
    DEF RegistrySpecInit, RegistryInit, AssetInit, AssetTypeOK
<1>2. QED
    BY <1>1, RegistryStepInv, PTL DEF RegistrySpec

\* Every reachable state of the registry is well typed.
THEOREM RegistryTypeCorrect == RegistrySpec => []RegistryTypeOK
<1>1. RegistryInv => RegistryTypeOK
    BY DEF RegistryInv
<1>2. QED
    BY <1>1, RegistryInvariant, PTL

\* A nonce of a user admits one intent, whatever became of it.
THEOREM NonceUniqueness == RegistrySpec => []NonceAdmitsOneIntent
<1>1. RegistryInv => NonceAdmitsOneIntent
    BY DEF RegistryInv, NoncesInv
<1>2. QED
    BY <1>1, RegistryInvariant, PTL

\* Every committed intent stands in exactly one place of exactly one batch.
THEOREM ListedOnce == RegistrySpec => []CommittedIntentsAreListedOnce
<1>1. RegistryInv => CommittedIntentsAreListedOnce
    BY DEF RegistryInv
<1>2. QED
    BY <1>1, RegistryInvariant, PTL

-----------------------------------------------------------------------------
(* Closed batches, and the life cycle. *)

\* No call adds an intent to a batch whose window is over.
LEMMA ClosedStep ==
    RegistryInv /\ [RegistryNext]_<<now, registryVars>>
        => [ClosedListUnchanged]_<<now, registryVars>>
<1> SUFFICES ASSUME RegistryInv, RegistryNext, NEW b \in BatchIds, now >= WindowEnd(b)
             PROVE  batch_intents'[b] = batch_intents[b]
    BY DEF ClosedListUnchanged
<1>1. /\ now \in StartTime..MaxTime
      /\ batch_intents \in [BatchIds -> Seq(Intents)]
    BY DEF RegistryInv, RegistryTypeOK
<1>2. ASSUME NEW i \in Intents, commit_intent(i)
      PROVE  batch_intents'[b] = batch_intents[b]
    <2>1. /\ BatchOf(now) \in BatchIds
          /\ now < WindowEnd(BatchOf(now))
        BY <1>1, BatchOfNow
    <2>2. b # BatchOf(now)
        <3>1. /\ now \in Nat
              /\ WindowEnd(b) \in Nat
            <4>1. b + 1 \in Nat /\ BatchWindow \in Nat /\ Genesis \in Nat
                BY RegistryAssumption
            <4>2. (b + 1) * BatchWindow \in Nat
                BY <4>1
            <4>3. QED
                BY <4>1, <4>2, <1>1, ClockAssumption DEF WindowEnd
        <3>2. QED
            BY <3>1, <2>1
    <2>3. QED
        BY <1>1, <1>2, <2>1, <2>2 DEF commit_intent
<1>3. CASE UNCHANGED batch_intents
    BY <1>3
<1>4. QED
    BY <1>2, <1>3 DEF RegistryNext, RegistryUserStep, RegistryAdminStep, RegistryTick,
        registryVars, cancel_intent, mark_expired, mark_settled, EndIntent, pause,
        unpause, set_batch_settlement_contract

\* After the end of its window a batch gains no intent.
THEOREM ClosedBatches == RegistrySpec => ClosedBatchIsFrozen
<1>1. QED
    BY ClosedStep, RegistryInvariant, PTL DEF RegistrySpec, RegistrySpecInit, ClosedBatchIsFrozen

\* Every call is a commitment, an end, or no change of any status.
LEMMA LifecycleStep == RegistryInv /\ [RegistryNext]_<<now, registryVars>> => [Lifecycle!Next]_status
<1> SUFFICES ASSUME RegistryInv, RegistryNext
             PROVE  [Lifecycle!Next]_status
    BY DEF registryVars
<1>1. ASSUME NEW i \in Intents, commit_intent(i)
      PROVE  Lifecycle!Commit(i)
    BY <1>1 DEF Lifecycle!Commit, RegistryInv, NoncesInv, commit_intent
<1>2. ASSUME NEW i \in Intents, NEW e \in {"SETTLED", "CANCELED", "EXPIRED"},
             EndIntent(i, e)
      PROVE  Lifecycle!End(i)
    BY <1>2 DEF Lifecycle!End, Lifecycle!Ends, EndIntent
<1>3. ASSUME NEW i \in Intents, cancel_intent(i) \/ mark_expired(i) \/ mark_settled(i)
      PROVE  Lifecycle!End(i)
    BY <1>2, <1>3 DEF cancel_intent, mark_expired, mark_settled
<1>4. CASE UNCHANGED status
    BY <1>4
<1>5. QED
    BY <1>1, <1>3, <1>4 DEF Lifecycle!Next, RegistryNext, RegistryUserStep,
        RegistryAdminStep, RegistryTick, registryVars, pause, unpause,
        set_batch_settlement_contract

\* The registry implements IntentLifecycle: its initial state is an initial state
\* there, and every call is a commitment, an end, or no change of any status.
THEOREM RegistryImplementsLifecycle == RegistrySpec => LifecycleSpec
<1>1. RegistryInit => Lifecycle!Init
    BY DEF RegistryInit, RegistryInitWith, Lifecycle!Init
<1>2. QED
    BY <1>1, LifecycleStep, RegistryInvariant, PTL DEF RegistrySpec, RegistrySpecInit, LifecycleSpec, Lifecycle!Spec

-----------------------------------------------------------------------------
(* BatchAuction: the auction keeps the invariant of the bond contract it   *)
(* works on, its winners competed, its decisions are final.                *)

\* An open auction has the times create_batch gave it, every solution came in the
\* solution window and not in the future, and only a decided batch has a winner.
InWindow ==
    \A b \in Batches :
        /\ batches[b].status # "OPEN" =>
              /\ batches[b].close_time = CloseTime[b]
              /\ batches[b].auction_deadline = CloseTime[b] + SolutionWindow
        /\ \A k \in DOMAIN solutions[b] :
              /\ solutions[b][k].time \in CloseTime[b]..(CloseTime[b] + SolutionWindow)
              /\ solutions[b][k].time <= now
        /\ batches[b].winning_solver # NoSolver => batches[b].status = "SETTLED"

AuctionInv ==
    /\ BondInv
    /\ AuctionTypeOK
    /\ InWindow
    /\ WinnerCompeted

-----------------------------------------------------------------------------
(* Lemmas about the operators. *)

\* A reputation is a percentage: never negative.
LEMMA ReputationIsNat ==
    ASSUME NEW info \in SolverInfo, NEW t \in Nat
    PROVE  Reputation(info, t) \in Nat
<1> DEFINE won == info.successful_settlements
           all == Attempts(info)
<1>1. won \in Nat /\ all \in Nat
    BY DEF SolverInfo, Attempts
<1>2. all >= MinAttempts => all \in Nat \ {0}
    BY <1>1, BondAssumption
<1>3. Reputation(info, t) \in {0, BaseReputation} \/ (/\ all >= MinAttempts
                                                     /\ Reputation(info, t) = (won * 100) \div all)
    BY <1>1, BondAssumption DEF Reputation
<1> HIDE DEF won, all
<1>4. \A d \in Nat \ {0} : (won * 100) \div d \in Nat
    BY <1>1
<1>5. QED
    BY <1>2, <1>3, <1>4, BondAssumption

\* The times of a batch are timestamps.
LEMMA TimesAreNat ==
    ASSUME NEW b \in Batches
    PROVE  CloseTime[b] \in Nat /\ CloseTime[b] + SolutionWindow \in Nat
<1>1. CloseTime[b] \in Nat
    BY AuctionAssumption
<1>2. SolutionWindow \in Nat
    BY AuctionAssumption
<1>3. QED
    BY <1>1, <1>2

LEMMA WindowsAreNat == SolutionWindow \in Nat /\ AuctionResolution \in Nat
<1>1. SolutionWindow \in Nat
    BY AuctionAssumption
<1>2. AuctionResolution \in Nat
    BY AuctionAssumption
<1> QED BY <1>1, <1>2

LEMMA AdminSlashesAreNat == \A amount \in AdminSlashes : amount \in Nat
<1>1. AdminSlashes \subseteq Nat
    BY AuctionAssumption
<1> QED BY <1>1

\* A winner that is not the zero address submitted the winning solution.
LEMMA WinnerSubmitted ==
    ASSUME NEW sols, NEW rep, Winner(sols, rep) # NoSolver
    PROVE  /\ WinnerIndex(sols, rep) \in DOMAIN sols
           /\ sols[WinnerIndex(sols, rep)].solver = Winner(sols, rep)
BY DEF Winner, HasWinner, WinnerIndex

-----------------------------------------------------------------------------
(* The invariant. *)

LEMMA AuctionInitInv ==
    ASSUME BondInv, AuctionInit
    PROVE  AuctionInv
<1>1. NoBatch \in Batch
    BY DEF NoBatch, Batch
<1>2. \A b \in Batches : batches[b] = NoBatch /\ solutions[b] = <<>>
    BY DEF AuctionInit
<1>3. solutions \in [Batches -> Seq(Solution)]
    <2>1. <<>> \in Seq(Solution)
        OBVIOUS
    <2>2. QED
        BY <2>1 DEF AuctionInit
<1>4. AuctionTypeOK
    BY <1>1, <1>3 DEF AuctionTypeOK, AuctionInit
<1>5. InWindow /\ WinnerCompeted
    BY <1>2 DEF InWindow, WinnerCompeted, NoBatch
<1>6. QED
    BY <1>4, <1>5 DEF AuctionInv

LEMMA CreateKeepsInv ==
    ASSUME AuctionInv, UNCHANGED now, NEW b \in Batches, create_batch(b)
    PROVE  AuctionInv'
<1>1. /\ batches \in [Batches -> Batch]
      /\ batches[b] \in Batch
      /\ CloseTime[b] \in Nat
      /\ CloseTime[b] + SolutionWindow \in Nat
    BY TimesAreNat DEF AuctionInv, AuctionTypeOK
<1> DEFINE opened == [batches[b] EXCEPT !.status = "AUCTION",
                                        !.close_time = CloseTime[b],
                                        !.auction_deadline = CloseTime[b] + SolutionWindow]
<1>2. /\ opened \in Batch
      /\ opened.status = "AUCTION"
      /\ opened.close_time = CloseTime[b]
      /\ opened.auction_deadline = CloseTime[b] + SolutionWindow
      /\ opened.winning_solver = batches[b].winning_solver
      /\ opened.winning_commitment = batches[b].winning_commitment
    BY <1>1 DEF Batch
<1>3. batches' = [batches EXCEPT ![b] = opened]
    BY DEF create_batch
<1> HIDE DEF opened
<1>4. AuctionTypeOK'
    BY <1>1, <1>2, <1>3 DEF AuctionInv, AuctionTypeOK, create_batch
<1>5. BondInv'
    <2>1. [BondNext]_<<now, bondVars>>
        BY DEF create_batch
    <2>2. QED
        BY <2>1, BondStepInv DEF AuctionInv
<1>6. ASSUME NEW c \in Batches
      PROVE  /\ solutions'[c] = solutions[c]
             /\ c # b => batches'[c] = batches[c]
             /\ c = b => batches'[c] = opened
    BY <1>1, <1>3 DEF create_batch
<1>7. InWindow'
    <2>1. batches[b].winning_solver = NoSolver
        BY DEF AuctionInv, InWindow, create_batch
    <2>2. QED
        BY <1>2, <1>6, <2>1 DEF AuctionInv, InWindow
<1>8. WinnerCompeted'
    BY <1>2, <1>6 DEF AuctionInv, WinnerCompeted
<1>9. QED
    BY <1>4, <1>5, <1>7, <1>8 DEF AuctionInv

LEMMA SubmitKeepsInv ==
    ASSUME AuctionInv, UNCHANGED now,
           NEW s \in Solvers, NEW b \in Batches, NEW plan \in Plans,
           NEW surplus \in Surpluses, NEW fee \in Fees,
           submit_solution(s, b, plan, surplus, fee)
    PROVE  AuctionInv'
<1> DEFINE sol == [solver |-> s, solution_commitment |-> plan,
                   surplus |-> surplus, fee |-> fee, time |-> now]
<1>1. /\ now \in Nat
      /\ solver_info[s] \in SolverInfo
      /\ solutions \in [Batches -> Seq(Solution)]
      /\ solver_reputation \in [Solvers -> Nat]
    BY DEF AuctionInv, AuctionTypeOK, BondInv, BondTypeOK
<1>2. sol \in Solution /\ sol.time = now
    BY <1>1 DEF Solution
<1>3. now \in CloseTime[b]..(CloseTime[b] + SolutionWindow)
    <2>1. /\ batches[b].close_time = CloseTime[b]
          /\ batches[b].auction_deadline = CloseTime[b] + SolutionWindow
        BY DEF AuctionInv, InWindow, submit_solution
    <2>2. CloseTime[b] \in Nat /\ CloseTime[b] + SolutionWindow \in Nat
        BY TimesAreNat
    <2>3. QED
        BY <1>1, <2>1, <2>2 DEF submit_solution
<1>4. solutions' = [solutions EXCEPT ![b] = Append(solutions[b], sol)]
    BY DEF submit_solution
<1> HIDE DEF sol
<1>5. Append(solutions[b], sol) \in Seq(Solution)
    BY <1>1, <1>2
<1>6. solver_reputation' \in [Solvers -> Nat]
    BY <1>1, ReputationIsNat DEF submit_solution
<1>7. AuctionTypeOK'
    BY <1>1, <1>4, <1>5, <1>6 DEF AuctionInv, AuctionTypeOK, submit_solution
<1>8. BondInv'
    <2>1. [BondNext]_<<now, bondVars>>
        BY DEF submit_solution
    <2>2. QED
        BY <2>1, BondStepInv DEF AuctionInv
<1>9. ASSUME NEW c \in Batches
      PROVE  /\ batches'[c] = batches[c]
             /\ c # b => solutions'[c] = solutions[c]
             /\ \A k \in DOMAIN solutions[c] :
                   k \in DOMAIN solutions'[c] /\ solutions'[c][k] = solutions[c][k]
             /\ \A k \in DOMAIN solutions'[c] :
                   k \in DOMAIN solutions[c] \/ solutions'[c][k] = sol
    <2>1. solutions[c] \in Seq(Solution)
        BY <1>1
    <2>2. CASE c = b
        BY <1>1, <1>2, <1>4, <2>1, <2>2 DEF submit_solution
    <2>3. CASE c # b
        BY <1>1, <1>4, <2>3 DEF submit_solution
    <2>4. QED
        BY <2>2, <2>3
<1>10. InWindow'
    <2>1. ASSUME NEW c \in Batches, NEW k \in DOMAIN solutions'[c]
          PROVE  /\ solutions'[c][k].time \in CloseTime[c]..(CloseTime[c] + SolutionWindow)
                 /\ solutions'[c][k].time <= now'
        <3>1. CASE k \in DOMAIN solutions[c]
            BY <1>9, <3>1 DEF AuctionInv, InWindow
        <3>2. CASE k \notin DOMAIN solutions[c]
            <4>1. c = b /\ solutions'[c][k] = sol
                BY <1>9, <2>1, <3>2
            <4>2. QED
                BY <1>1, <1>2, <1>3, <4>1
        <3>3. QED
            BY <3>1, <3>2
    <2>2. QED
        BY <1>9, <2>1 DEF AuctionInv, InWindow
<1>11. WinnerCompeted'
    <2>1. \A c \in Batches : batches[c].status = "FAILED" => c # b
        BY DEF submit_solution
    <2>2. QED
        BY <1>9, <2>1 DEF AuctionInv, WinnerCompeted
<1>12. QED
    BY <1>7, <1>8, <1>10, <1>11 DEF AuctionInv

LEMMA FailKeepsInv ==
    ASSUME AuctionInv, UNCHANGED now, NEW b \in Batches, InResolutionWindow(b), FailBatch(b)
    PROVE  AuctionInv'
<1> DEFINE failed == [batches[b] EXCEPT !.status = "FAILED"]
<1>1. batches \in [Batches -> Batch] /\ batches[b] \in Batch
    BY DEF AuctionInv, AuctionTypeOK
<1>2. /\ failed \in Batch
      /\ failed.status = "FAILED"
      /\ failed.close_time = batches[b].close_time
      /\ failed.auction_deadline = batches[b].auction_deadline
      /\ failed.winning_solver = batches[b].winning_solver
      /\ failed.winning_commitment = batches[b].winning_commitment
    BY <1>1 DEF Batch
<1>3. batches' = [batches EXCEPT ![b] = failed]
    BY DEF FailBatch
<1> HIDE DEF failed
<1>4. AuctionTypeOK'
    BY <1>1, <1>2, <1>3 DEF AuctionInv, AuctionTypeOK, FailBatch
<1>5. BondInv'
    <2>1. [BondNext]_<<now, bondVars>>
        BY DEF FailBatch
    <2>2. QED
        BY <2>1, BondStepInv DEF AuctionInv
<1>6. ASSUME NEW c \in Batches
      PROVE  /\ solutions'[c] = solutions[c]
             /\ c # b => batches'[c] = batches[c]
             /\ c = b => batches'[c] = failed
    BY <1>1, <1>3 DEF FailBatch
<1>7. batches[b].status = "AUCTION" /\ solutions[b] = <<>>
    BY DEF InResolutionWindow, FailBatch
<1>8. InWindow'
    BY <1>2, <1>6, <1>7 DEF AuctionInv, InWindow
<1>9. WinnerCompeted'
    BY <1>2, <1>6, <1>7 DEF AuctionInv, WinnerCompeted
<1>10. QED
    BY <1>4, <1>5, <1>8, <1>9 DEF AuctionInv

\* What a decision does to the bonds is set_locked for the winner, or nothing.
LEMMA SelectWinnerKeepsBondInv ==
    ASSUME BondInv, UNCHANGED now, NEW b \in Batches, SelectWinner(b)
    PROVE  BondInv'
<1> DEFINE winner == Winner(solutions[b], solver_reputation)
<1>1. solver_info \in [Solvers -> SolverInfo]
    BY DEF BondInv, BondTypeOK
<1>2. /\ solver_info' = [s \in Solvers |->
             IF s = winner THEN LockedAs(solver_info[s], TRUE) ELSE solver_info[s]]
      /\ UNCHANGED <<slash_history, minimum_bond, pending_minimum_bond,
                     wired, wallet, held, receipts>>
    BY DEF SelectWinner
<1> HIDE DEF winner
<1>3. CASE winner \in Solvers
    <2>1. solver_info' = [solver_info EXCEPT ![winner] = LockedAs(@, TRUE)]
        BY <1>1, <1>2, <1>3
    <2>2. set_locked(winner, TRUE)
        BY <1>2, <2>1 DEF set_locked
    <2>3. BondNext
        BY <1>3, <2>2 DEF BondNext, CallerStep
    <2>4. QED
        BY <2>3, BondStepInv
<1>4. CASE winner \notin Solvers
    <2>1. UNCHANGED bondVars
        BY <1>1, <1>2, <1>4 DEF bondVars
    <2>2. QED
        BY <2>1, BondStepInv
<1>5. QED
    BY <1>3, <1>4

LEMMA SelectKeepsInv ==
    ASSUME AuctionInv, UNCHANGED now,
           NEW b \in Batches, InResolutionWindow(b), SelectWinner(b)
    PROVE  AuctionInv'
<1> DEFINE sols   == solutions[b]
           index  == WinnerIndex(sols, solver_reputation)
           winner == Winner(sols, solver_reputation)
           plan   == IF winner = NoSolver THEN NoSolver ELSE sols[index].solution_commitment
           decided == [batches[b] EXCEPT !.status = "SETTLED", !.winning_solver = winner,
                                         !.winning_commitment = plan]
<1>1. /\ batches \in [Batches -> Batch] /\ batches[b] \in Batch
      /\ sols \in Seq(Solution)
      /\ solver_reputation \in [Solvers -> Nat]
    BY DEF AuctionInv, AuctionTypeOK
<1>2. winner # NoSolver => index \in DOMAIN sols /\ sols[index].solver = winner
    BY WinnerSubmitted
<1>3. batches' = [batches EXCEPT ![b] = decided]
    BY DEF SelectWinner
<1> HIDE DEF sols, index, winner
<1>4. winner # NoSolver => sols[index] \in Solution
    BY <1>1, <1>2
<1>5. winner \in Solvers \cup {NoSolver} /\ plan \in Plans \cup {NoSolver}
    BY <1>2, <1>4 DEF Solution
<1> HIDE DEF plan
<1>6. /\ decided \in Batch
      /\ decided.status = "SETTLED"
      /\ decided.close_time = batches[b].close_time
      /\ decided.auction_deadline = batches[b].auction_deadline
      /\ decided.winning_solver = winner
      /\ decided.winning_commitment = plan
    BY <1>1, <1>5 DEF Batch
<1> HIDE DEF decided
<1>7. UNCHANGED <<solutions, solver_reputation>>
    BY DEF SelectWinner
<1>8. AuctionTypeOK'
    BY <1>1, <1>3, <1>6, <1>7 DEF AuctionInv, AuctionTypeOK
<1>9. BondInv'
    BY SelectWinnerKeepsBondInv DEF AuctionInv
<1>10. ASSUME NEW c \in Batches
       PROVE  /\ solutions'[c] = solutions[c]
              /\ c # b => batches'[c] = batches[c]
              /\ c = b => batches'[c] = decided
    BY <1>1, <1>3, <1>7
<1>11. batches[b].status = "AUCTION"
    BY DEF InResolutionWindow
<1>12. InWindow'
    BY <1>6, <1>10, <1>11 DEF AuctionInv, InWindow
<1>13. winner # NoSolver =>
          \E k \in DOMAIN solutions[b] :
              /\ solutions[b][k].solver = winner
              /\ solutions[b][k].solution_commitment = plan
              /\ solutions[b][k].time \in CloseTime[b]..(CloseTime[b] + SolutionWindow)
    BY <1>2 DEF AuctionInv, InWindow, sols, plan
<1>14. WinnerCompeted'
    BY <1>6, <1>10, <1>13 DEF AuctionInv, WinnerCompeted
<1>15. QED
    BY <1>8, <1>9, <1>12, <1>14 DEF AuctionInv

\* Steps that leave the auction alone, while time may pass.
LEMMA OthersKeepInv ==
    ASSUME AuctionInv, UNCHANGED auctionVars, BondInv', now' >= now
    PROVE  AuctionInv'
<1>1. AuctionTypeOK' /\ WinnerCompeted'
    BY DEF AuctionInv, AuctionTypeOK, WinnerCompeted, auctionVars
<1>2. ASSUME NEW b \in Batches, NEW k \in DOMAIN solutions[b]
      PROVE  solutions[b][k].time <= now'
    <2>1. solutions[b][k].time <= now /\ now \in Nat /\ now' \in Nat
        BY DEF AuctionInv, InWindow, BondInv
    <2>2. solutions[b][k].time \in Nat
        <3>1. solutions[b] \in Seq(Solution)
            BY DEF AuctionInv, AuctionTypeOK
        <3>2. solutions[b][k] \in Solution
            BY <3>1
        <3>3. QED
            BY <3>2 DEF Solution
    <2>3. QED
        BY <2>1, <2>2
<1>3. InWindow'
    BY <1>2 DEF AuctionInv, InWindow, auctionVars
<1>4. QED
    BY <1>1, <1>3 DEF AuctionInv

LEMMA WinnersAreSolvers == \A s \in Solvers : s # NoSolver
BY AuctionAssumption

LEMMA NowIsNat == AuctionInv => now \in Nat
BY DEF AuctionInv, BondInv

LEMMA AuctionStepInv == AuctionInv /\ [AuctionNext]_<<now, auctionVars, bondVars>> => AuctionInv'
<1> SUFFICES ASSUME AuctionInv, [AuctionNext]_<<now, auctionVars, bondVars>>
             PROVE  AuctionInv'
    OBVIOUS
<1>1. CASE AuctionStep /\ UNCHANGED now
    <2>1. ASSUME NEW b \in Batches, create_batch(b)
          PROVE  AuctionInv'
        BY <1>1, <2>1, CreateKeepsInv
    <2>2. ASSUME NEW b \in Batches, finalize_auction(b)
          PROVE  AuctionInv'
        BY <1>1, <2>2, FailKeepsInv, SelectKeepsInv DEF finalize_auction
    <2>3. ASSUME NEW s \in Solvers, NEW b \in Batches, NEW plan \in Plans,
                 NEW surplus \in Surpluses, NEW fee \in Fees,
                 submit_solution(s, b, plan, surplus, fee)
          PROVE  AuctionInv'
        BY <1>1, <2>3, SubmitKeepsInv
    <2>4. ASSUME NEW s \in Solvers, NEW amount \in AdminSlashes, slash_solver(s, amount)
          PROVE  AuctionInv'
        <3>1. amount \in Nat
            BY AuctionAssumption
        <3>2. BondInv'
            BY <1>1, <2>4, <3>1, SlashKeepsInv DEF AuctionInv, slash_solver
        <3>3. QED
            BY <1>1, <2>4, <3>2, NowIsNat, OthersKeepInv DEF slash_solver
    <2>5. QED
        BY <1>1, <2>1, <2>2, <2>3, <2>4 DEF AuctionStep
<1>2. CASE (SolverStep \/ BondAdminStep \/ CallerStep) /\ UNCHANGED <<auctionVars, now>>
    <2>1. BondNext
        BY <1>2 DEF BondNext
    <2>2. QED
        BY <1>2, <2>1, NowIsNat, BondStepInv, OthersKeepInv DEF AuctionInv
<1>3. CASE AuctionTick
    <2>1. BondNext /\ UNCHANGED auctionVars /\ now' >= now
        BY <1>3, NowIsNat DEF BondNext, BondTick, AuctionTick, Tick
    <2>2. QED
        BY <2>1, BondStepInv, OthersKeepInv DEF AuctionInv
<1>4. CASE UNCHANGED <<now, auctionVars, bondVars>>
    <2>1. [BondNext]_<<now, bondVars>> /\ UNCHANGED auctionVars /\ now' >= now
        BY <1>4, NowIsNat
    <2>2. QED
        BY <2>1, BondStepInv, OthersKeepInv DEF AuctionInv
<1>5. QED
    BY <1>1, <1>2, <1>3, <1>4 DEF AuctionNext

-----------------------------------------------------------------------------
(* The theorems. *)

LEMMA AuctionInvariant == AuctionSpec => []AuctionInv
<1>1. AuctionSpecInit => AuctionInv
    BY BondInitInv, AuctionInitInv, {} \in SUBSET Callers DEF AuctionSpecInit, BondInit
<1>2. QED
    BY <1>1, AuctionStepInv, PTL DEF AuctionSpec

\* Every reachable state of the auction is well typed; no reputation is negative.
THEOREM AuctionTypeCorrect == AuctionSpec => []AuctionTypeOK
<1>1. AuctionInv => AuctionTypeOK
    BY DEF AuctionInv
<1>2. QED
    BY <1>1, AuctionInvariant, PTL

\* A batch is won by a solver that committed to the winning plan in the window.
THEOREM OnlyCompetitorsWin == AuctionSpec => []WinnerCompeted
<1>1. AuctionInv => WinnerCompeted
    BY DEF AuctionInv
<1>2. QED
    BY <1>1, AuctionInvariant, PTL

\* The auction, its locks and its slashes included, leaves every bond covered.
THEOREM AuctionKeepsBondsBacked == AuctionSpec => []BondBacked
<1>1. AuctionInv => BondBacked
    BY DEF AuctionInv, BondInv, BondBacked, AccountInv
<1>2. QED
    BY <1>1, AuctionInvariant, PTL

\* No call changes a decided batch.
LEMMA DecidedStep ==
    AuctionInv /\ [AuctionNext]_<<now, auctionVars, bondVars>>
        => [DecidedUnchanged]_<<now, auctionVars, bondVars>>
<1> SUFFICES ASSUME AuctionInv, AuctionNext, NEW c \in Batches,
                    batches[c].status \in {"SETTLED", "FAILED"}
             PROVE  batches'[c] = batches[c] /\ solutions'[c] = solutions[c]
    BY DEF DecidedUnchanged
<1>1. batches \in [Batches -> Batch] /\ solutions \in [Batches -> Seq(Solution)]
    BY DEF AuctionInv, AuctionTypeOK
<1>2. ASSUME NEW b \in Batches, create_batch(b)
      PROVE  batches'[c] = batches[c] /\ solutions'[c] = solutions[c]
    BY <1>1, <1>2 DEF create_batch
<1>3. ASSUME NEW b \in Batches, finalize_auction(b)
      PROVE  batches'[c] = batches[c] /\ solutions'[c] = solutions[c]
    BY <1>1, <1>3 DEF finalize_auction, InResolutionWindow, FailBatch, SelectWinner
<1>4. ASSUME NEW s \in Solvers, NEW b \in Batches, NEW plan \in Plans,
             NEW surplus \in Surpluses, NEW fee \in Fees,
             submit_solution(s, b, plan, surplus, fee)
      PROVE  batches'[c] = batches[c] /\ solutions'[c] = solutions[c]
    BY <1>1, <1>4 DEF submit_solution
<1>5. CASE UNCHANGED auctionVars
    BY <1>5 DEF auctionVars
<1>6. QED
    BY <1>2, <1>3, <1>4, <1>5 DEF AuctionNext, AuctionStep, AuctionTick, slash_solver

\* A decided batch keeps its winner and its solutions.
THEOREM DecisionsAreFinal == AuctionSpec => DecisionIsFinal
<1>1. QED
    BY DecidedStep, AuctionInvariant, PTL DEF AuctionSpec, DecisionIsFinal

-----------------------------------------------------------------------------
(* BatchSettlement: the four contracts together.                           *)

\* Only a batch that was won is executed or has its winner slashed.
WonBefore ==
    /\ \A b \in Batches : settlements[b] # NotExecuted => batches[b].winning_solver # NoSolver
    /\ \A report \in slashed_for : batches[report.batch].winning_solver # NoSolver

SettlementInv ==
    /\ AuctionInv
    /\ RegistryInv
    /\ settlements \in [Batches -> Plans \cup {NotExecuted}]
    /\ slashed_for \subseteq SlashReport
    /\ admin_locked \subseteq Solvers
    /\ WonBefore
    /\ SettledTogether
    /\ MinOutputMet
    /\ LockHasReason
    /\ FaithfulNotSlashed

-----------------------------------------------------------------------------
(* Lemmas about won batches. *)

\* What the assumption on the constants says of a batch, a plan and a slash.
LEMMA BatchesHaveIds == Batches \subseteq BatchIds
BY SettlementAssumption

LEMMA PlansAreExecutions == \A plan \in Plans : plan # NotExecuted
<1>1. NotExecuted \notin Plans
    BY SettlementAssumption
<1> QED BY <1>1

LEMMA SharesAreNat == ConstraintBps \in Nat /\ MismatchBps \in Nat
<1>1. ConstraintBps \in 0..10000 /\ MismatchBps \in 0..10000
    BY SettlementAssumption
<1> QED BY <1>1

\* When solutions exist the batch's window is over.
LEMMA SolutionsInClosedBatch ==
    ASSUME AuctionInv, NEW b \in Batches, solutions[b] # <<>>
    PROVE  b \in BatchIds /\ now >= WindowEnd(b)
<1>1. solutions[b] \in Seq(Solution)
    BY DEF AuctionInv, AuctionTypeOK
<1>2. 1 \in DOMAIN solutions[b]
    BY <1>1
<1>3. /\ solutions[b][1].time \in CloseTime[b]..(CloseTime[b] + SolutionWindow)
      /\ solutions[b][1].time <= now
      /\ now \in Nat
    BY <1>2 DEF AuctionInv, InWindow, BondInv
<1>4. CloseTime[b] = WindowEnd(b) /\ b \in BatchIds
    BY SettlementAssumption
<1>5. CloseTime[b] \in Nat /\ CloseTime[b] + SolutionWindow \in Nat
    BY TimesAreNat
<1>6. QED
    BY <1>3, <1>4, <1>5

LEMMA WonHasSolutions ==
    ASSUME AuctionInv, NEW b \in Batches, batches[b].winning_solver # NoSolver
    PROVE  /\ batches[b].status = "SETTLED"
           /\ solutions[b] # <<>>
           /\ batches[b].winning_solver \in Solvers
<1>1. batches[b].status = "SETTLED"
    BY DEF AuctionInv, InWindow
<1>2. solutions[b] # <<>>
    BY DEF AuctionInv, WinnerCompeted
<1>3. batches[b].winning_solver \in Solvers
    BY DEF AuctionInv, AuctionTypeOK, Batch
<1>4. QED
    BY <1>1, <1>2, <1>3

\* The plan a winner is held to is one that it committed to.
LEMMA CommitmentSubmitted ==
    ASSUME AuctionInv, NEW b \in Batches, batches[b].winning_solver # NoSolver
    PROVE  \E k \in DOMAIN solutions[b] :
               /\ solutions[b][k].solver = batches[b].winning_solver
               /\ solutions[b][k].solution_commitment = Commitment(b)
<1> DEFINE mine == {k \in DOMAIN solutions[b] :
                       solutions[b][k].solver = batches[b].winning_solver}
<1>1. solutions[b] \in Seq(Solution)
    BY DEF AuctionInv, AuctionTypeOK
<1>2. mine \subseteq Nat
    BY <1>1
<1>3. mine # {}
    BY DEF AuctionInv, WinnerCompeted
<1>4. \E k \in mine : \A j \in mine : k <= j
    <2>1. PICK k \in mine : \A j \in mine : ~(<<j, k>> \in OpToRel(<, Nat))
        BY <1>2, <1>3, WFMin, NatLessThanWellFounded
    <2>2. \A j \in mine : ~(j < k)
        BY <1>2, <2>1 DEF OpToRel
    <2>3. QED
        BY <1>2, <2>2
<1>5. Commitment(b) = solutions[b][CHOOSE k \in mine : \A j \in mine : k <= j].solution_commitment
    BY DEF Commitment
<1>6. (CHOOSE k \in mine : \A j \in mine : k <= j) \in mine
    BY <1>4
<1>7. QED
    BY <1>5, <1>6

\* Nothing a report speaks of changes any more once the batch is won and closed.
LEMMA FaithfulFrozen ==
    ASSUME NEW s, NEW b, UNCHANGED <<solutions[b], batch_intents[b]>>
    PROVE  Faithful(s, b)' <=> Faithful(s, b)
BY DEF Faithful, BatchIntents

\* But for the admin, only winning a batch that was still in auction locks a bond.
LEMMA LocksOnlyWinners ==
    ASSUME AuctionInv, AuctionStep \/ SolverStep,
           NEW s \in Solvers, solver_info'[s].locked
    PROVE  \/ solver_info[s].locked
           \/ \E b \in Batches : /\ batches[b].status = "AUCTION"
                                 /\ batches'[b].winning_solver = s
<1>1. /\ solver_info \in [Solvers -> SolverInfo]
      /\ batches \in [Batches -> Batch]
    BY DEF AuctionInv, AuctionTypeOK, BondInv, BondTypeOK
<1>2. solver_info[s] \in SolverInfo
    BY <1>1
<1>3. ASSUME NEW b \in Batches, create_batch(b) \/ FailBatch(b)
      PROVE  solver_info'[s] = solver_info[s]
    BY <1>3 DEF create_batch, FailBatch, bondVars
<1>4. ASSUME NEW b \in Batches, InResolutionWindow(b), SelectWinner(b)
      PROVE  \/ solver_info'[s] = solver_info[s]
             \/ batches[b].status = "AUCTION" /\ batches'[b].winning_solver = s
    <2> DEFINE winner == Winner(solutions[b], solver_reputation)
    <2>1. solver_info' = [q \in Solvers |->
             IF q = winner THEN LockedAs(solver_info[q], TRUE) ELSE solver_info[q]]
        BY <1>4 DEF SelectWinner
    <2>2. batches'[b].winning_solver = winner
        BY <1>1, <1>4 DEF SelectWinner, Batch
    <2> HIDE DEF winner
    <2>3. batches[b].status = "AUCTION"
        BY <1>4 DEF InResolutionWindow
    <2>4. QED
        BY <2>1, <2>2, <2>3
<1>5. ASSUME NEW q \in Solvers, NEW b \in Batches, NEW plan \in Plans,
             NEW surplus \in Surpluses, NEW fee \in Fees,
             submit_solution(q, b, plan, surplus, fee)
      PROVE  solver_info'[s] = solver_info[s]
    BY <1>5 DEF submit_solution, bondVars
<1>6. ASSUME NEW q \in Solvers, NEW amount,
             \/ slash(q, amount)
             \/ deposit_bond(q, amount)
             \/ request_withdrawal(q, amount)
             \/ withdraw(q, amount)
      PROVE  solver_info'[s].locked = solver_info[s].locked
    <2>1. \/ solver_info'[s] = solver_info[s]
          \/ solver_info'[s] = Slashed(solver_info[s], amount, now)
          \/ solver_info'[s] = Deposited(solver_info[s], amount, now)
          \/ solver_info'[s] = WithdrawalRequested(solver_info[s], amount, now)
          \/ solver_info'[s] = Withdrawn(solver_info[s], amount)
        BY <1>1, <1>6 DEF slash, SlashEffects, deposit_bond, request_withdrawal, withdraw
    <2>2. /\ Deposited(solver_info[s], amount, now).locked = solver_info[s].locked
          /\ WithdrawalRequested(solver_info[s], amount, now).locked = solver_info[s].locked
          /\ Withdrawn(solver_info[s], amount).locked = solver_info[s].locked
        BY <1>2 DEF Deposited, WithdrawalRequested, Withdrawn, SolverInfo
    <2>3. Slashed(solver_info[s], amount, now).locked = solver_info[s].locked
        BY <1>2, Zenon DEF Slashed, SolverInfo
    <2>4. QED
        BY <2>1, <2>2, <2>3
<1>7. CASE SolverStep
    BY <1>6, <1>7 DEF SolverStep
<1>8. CASE AuctionStep
    BY <1>3, <1>4, <1>5, <1>6, <1>8 DEF AuctionStep, finalize_auction, slash_solver
<1>9. QED
    BY <1>7, <1>8

-----------------------------------------------------------------------------
(* The invariant. *)

LEMMA SettlementInitInv == SettlementInit => SettlementInv
<1> SUFFICES ASSUME SettlementInit
             PROVE  SettlementInv
    OBVIOUS
<1>1. BondInv
    BY BondInitInv, Callers \in SUBSET Callers DEF SettlementInit
<1>2. AuctionInv
    BY <1>1, AuctionInitInv DEF SettlementInit
<1>3. RegistryInv
    BY RegistryInitInv, TRUE \in BOOLEAN DEF SettlementInit, AssetTypeOK
<1>4. \A b \in Batches : settlements[b] = NotExecuted
    BY DEF SettlementInit
<1>5. /\ settlements \in [Batches -> Plans \cup {NotExecuted}]
      /\ slashed_for = {} /\ admin_locked = {}
    BY DEF SettlementInit
<1>6. SettledTogether
    BY <1>4 DEF SettledTogether, SettlementInit, RegistryInitWith
<1>7. LockHasReason
    BY DEF LockHasReason, SettlementInit, BondInitWith, NewSolver
<1>8. QED
    BY <1>2, <1>3, <1>4, <1>5, <1>6, <1>7
    DEF SettlementInv, WonBefore, MinOutputMet, FaithfulNotSlashed

\* Steps that settle nothing: what they must leave as it is.
LEMMA OtherStepsKeepInv ==
    ASSUME SettlementInv, AuctionInv', RegistryInv', UNCHANGED settlementVars,
           \A b \in Batches : batches[b].winning_solver # NoSolver =>
               UNCHANGED <<batches[b], solutions[b], batch_intents[b]>>,
           \A i \in Intents : status'[i] = "SETTLED" <=> status[i] = "SETTLED",
           admin_locked' \subseteq Solvers,
           \A s \in Solvers : solver_info'[s].locked =>
               \/ s \in admin_locked'
               \/ solver_info[s].locked /\ s \notin admin_locked
               \/ \E b \in Batches : /\ batches[b].status = "AUCTION"
                                     /\ batches'[b].winning_solver = s
    PROVE  SettlementInv'
<1>1. UNCHANGED <<settlements, slashed_for>>
    BY DEF settlementVars
<1>2. ASSUME NEW b \in Batches, settlements[b] # NotExecuted
      PROVE  /\ batches'[b] = batches[b]
             /\ BatchIntents(b)' = BatchIntents(b)
             /\ batches[b].winning_solver # NoSolver
    BY <1>2 DEF SettlementInv, WonBefore, BatchIntents
<1>3. WonBefore'
    <2>1. \A report \in slashed_for : report.batch \in Batches
        BY DEF SettlementInv, SlashReport
    <2>2. \A report \in slashed_for : batches'[report.batch] = batches[report.batch]
        BY <2>1 DEF SettlementInv, WonBefore
    <2>3. QED
        BY <1>1, <1>2, <2>2 DEF SettlementInv, WonBefore
<1>4. SettledTogether'
    <2>1. \A i \in Intents :
             (\E b \in Batches : settlements'[b] # NotExecuted /\ i \in BatchIntents(b)')
             <=> (\E b \in Batches : settlements[b] # NotExecuted /\ i \in BatchIntents(b))
        BY <1>1, <1>2
    <2>2. QED
        BY <2>1 DEF SettlementInv, SettledTogether
<1>5. MinOutputMet'
    BY <1>1, <1>2 DEF SettlementInv, MinOutputMet
<1>6. LockHasReason'
    <2>1. SUFFICES ASSUME NEW s \in Solvers, solver_info'[s].locked, s \notin admin_locked'
                   PROVE  \E b \in Batches : /\ batches'[b].winning_solver = s
                                             /\ settlements[b] = NotExecuted
        BY <1>1 DEF LockHasReason
    <2>2. CASE solver_info[s].locked /\ s \notin admin_locked
        <3>1. PICK b \in Batches : batches[b].winning_solver = s /\ settlements[b] = NotExecuted
            BY <2>2 DEF SettlementInv, LockHasReason
        <3>2. s # NoSolver
            BY WinnersAreSolvers
        <3>3. batches'[b] = batches[b]
            BY <3>1, <3>2
        <3>4. QED
            BY <3>1, <3>3
    <2>3. CASE \E b \in Batches : batches[b].status = "AUCTION" /\ batches'[b].winning_solver = s
        <3>1. PICK b \in Batches : batches[b].status = "AUCTION" /\ batches'[b].winning_solver = s
            BY <2>3
        <3>2. batches[b].winning_solver = NoSolver
            BY <3>1 DEF SettlementInv, AuctionInv, InWindow
        <3>3. settlements[b] = NotExecuted
            BY <3>2 DEF SettlementInv, WonBefore
        <3>4. QED
            BY <3>1, <3>3
    <2>4. QED
        BY <2>1, <2>2, <2>3
<1>7. FaithfulNotSlashed'
    <2>1. SUFFICES ASSUME NEW report \in slashed_for, report.reason = "CONSTRAINT_VIOLATION"
                   PROVE  ~Faithful(report.solver, report.batch)'
        BY <1>1 DEF FaithfulNotSlashed
    <2>2. report.batch \in Batches /\ batches[report.batch].winning_solver # NoSolver
        BY DEF SettlementInv, SlashReport, WonBefore
    <2>3. UNCHANGED <<solutions[report.batch], batch_intents[report.batch]>>
        BY <2>2
    <2>4. Faithful(report.solver, report.batch)' <=> Faithful(report.solver, report.batch)
        BY <2>3, FaithfulFrozen
    <2>5. QED
        BY <2>1, <2>4 DEF SettlementInv, FaithfulNotSlashed
<1>8. QED
    BY <1>1, <1>3, <1>4, <1>5, <1>6, <1>7 DEF SettlementInv

LEMMA ContractStepsKeepInv ==
    ASSUME SettlementInv, UNCHANGED <<registryVars, settlementVars, now>>,
           \/ AuctionStep /\ UNCHANGED admin_locked
           \/ SolverStep /\ UNCHANGED auctionVars /\ UNCHANGED admin_locked
           \/ /\ BondAdminStep
              /\ admin_locked' = LocksOfAdmin
              /\ UNCHANGED auctionVars
    PROVE  SettlementInv'
<1>1. AuctionNext
    BY DEF AuctionNext
<1>2. AuctionInv'
    BY <1>1, AuctionStepInv DEF SettlementInv
<1>3. RegistryInv'
    BY RegistryStepInv DEF SettlementInv
<1>4. ASSUME NEW b \in Batches, batches[b].winning_solver # NoSolver
      PROVE  UNCHANGED <<batches[b], solutions[b], batch_intents[b]>>
    <2>1. AuctionInv /\ batches[b].status = "SETTLED"
        BY <1>4, WonHasSolutions DEF SettlementInv
    <2>2. [DecidedUnchanged]_<<now, auctionVars, bondVars>>
        BY <1>1, <2>1, DecidedStep
    <2>3. batches'[b] = batches[b] /\ solutions'[b] = solutions[b]
        BY <2>1, <2>2 DEF DecidedUnchanged, auctionVars
    <2>4. QED
        BY <2>3 DEF registryVars
<1>5. \A i \in Intents : status'[i] = "SETTLED" <=> status[i] = "SETTLED"
    BY DEF registryVars
<1>6. ASSUME NEW q \in Solvers, solver_info'[q].locked
      PROVE  \/ q \in admin_locked'
             \/ solver_info[q].locked /\ q \notin admin_locked
             \/ \E b \in Batches : /\ batches[b].status = "AUCTION"
                                   /\ batches'[b].winning_solver = q
    <2>1. ASSUME AuctionStep \/ SolverStep, admin_locked' = admin_locked
          PROVE  \/ q \in admin_locked'
                 \/ solver_info[q].locked /\ q \notin admin_locked
                 \/ \E b \in Batches : /\ batches[b].status = "AUCTION"
                                       /\ batches'[b].winning_solver = q
        BY <1>6, <2>1, LocksOnlyWinners DEF SettlementInv
    <2>2. ASSUME admin_locked' = LocksOfAdmin
          PROVE  q \in admin_locked' \/ (solver_info[q].locked /\ q \notin admin_locked)
        BY <1>6, <2>2 DEF LocksOfAdmin
    <2>3. QED
        BY <2>1, <2>2
<1>7. admin_locked' \subseteq Solvers
    BY DEF SettlementInv, LocksOfAdmin
<1>8. QED
    BY <1>2, <1>3, <1>4, <1>5, <1>6, <1>7, OtherStepsKeepInv

LEMMA RegistryStepsKeepInv ==
    ASSUME SettlementInv, UNCHANGED <<bondVars, auctionVars, settlementVars, admin_locked>>,
           \/ (RegistryUserStep \/ RegistryAdminStep) /\ UNCHANGED now
           \/ Tick /\ UNCHANGED registryVars
           \/ UNCHANGED <<now, registryVars>>
    PROVE  SettlementInv'
<1>1. [RegistryNext]_<<now, registryVars>>
    BY DEF RegistryNext, RegistryTick
<1>2. AuctionInv'
    <2>1. [AuctionNext]_<<now, auctionVars, bondVars>>
        BY DEF AuctionNext, AuctionTick
    <2>2. QED
        BY <2>1, AuctionStepInv DEF SettlementInv
<1>3. RegistryInv'
    BY <1>1, RegistryStepInv DEF SettlementInv
<1>4. ASSUME NEW b \in Batches, batches[b].winning_solver # NoSolver
      PROVE  UNCHANGED <<batches[b], solutions[b], batch_intents[b]>>
    <2>1. b \in BatchIds /\ now >= WindowEnd(b)
        BY <1>4, WonHasSolutions, SolutionsInClosedBatch DEF SettlementInv
    <2>2. [ClosedListUnchanged]_<<now, registryVars>>
        BY <1>1, ClosedStep DEF SettlementInv
    <2>3. batch_intents'[b] = batch_intents[b]
        BY <2>1, <2>2 DEF ClosedListUnchanged, registryVars
    <2>4. QED
        BY <2>3 DEF auctionVars
<1>5. ASSUME NEW i \in Intents
      PROVE  status'[i] = "SETTLED" <=> status[i] = "SETTLED"
    <2>1. status \in [Intents -> IntentStatus]
        BY DEF SettlementInv, RegistryInv, RegistryTypeOK
    <2>2. CASE RegistryUserStep
        BY <2>1, <2>2 DEF RegistryUserStep, commit_intent, cancel_intent, mark_expired, EndIntent
    <2>3. CASE RegistryAdminStep \/ UNCHANGED registryVars
        BY <2>3 DEF RegistryAdminStep, registryVars, pause, unpause, set_batch_settlement_contract
    <2>4. QED
        BY <2>2, <2>3 DEF registryVars
<1>6. \A s \in Solvers : solver_info'[s].locked => solver_info[s].locked
    BY DEF bondVars
<1>7. admin_locked' \subseteq Solvers
    BY DEF SettlementInv
<1>8. QED
    BY <1>2, <1>3, <1>4, <1>5, <1>6, <1>7, OtherStepsKeepInv

LEMMA PunishKeepsBondInv ==
    ASSUME BondInv, UNCHANGED now, NEW b \in Batches, NEW s \in Solvers,
           NEW bps \in Nat, NEW reason, PunishWinner(b, s, bps, reason)
    PROVE  /\ BondInv'
           /\ ~solver_info'[s].locked
           /\ \A q \in Solvers \ {s} : solver_info'[q] = solver_info[q]
<1> DEFINE cut     == SlashAmount(s, bps)
           slashed == Slashed(solver_info[s], cut, now)
           graded  == FailureRecorded(slashed, now)
           last    == LockedAs(graded, FALSE)
           left    == held[s] - ActualSlash(solver_info[s], cut)
<1>1. /\ now \in Nat
      /\ BondTypeOK
      /\ solver_info \in [Solvers -> SolverInfo]
      /\ solver_info[s] \in SolverInfo
      /\ held[s] \in Int
      /\ AccountInv(solver_info[s], held[s], now)
    BY DEF BondInv, BondTypeOK
<1>2. cut \in Nat
    <2>1. solver_info[s].bond_amount \in Nat
        BY <1>1 DEF SolverInfo
    <2>2. solver_info[s].bond_amount * bps \in Nat
        BY <2>1
    <2>3. \A x \in Nat : x \div 10000 \in Nat
        OBVIOUS
    <2>4. QED
        BY <2>2, <2>3 DEF SlashAmount
<1>3. SlashEffects(s, cut, last)
    BY Zenon DEF PunishWinner
<1>4. UNCHANGED <<minimum_bond, pending_minimum_bond, wired, wallet>>
    BY DEF PunishWinner
<1> HIDE DEF cut
<1>5. left \in Int
    BY <1>1, <1>2, ActualSlashBounds
<1>6. slashed \in SolverInfo /\ AccountInv(slashed, left, now)
    BY <1>1, <1>2, RecordsStayRecords, AccountSlashed
<1> HIDE DEF slashed, left
<1>7. graded \in SolverInfo /\ AccountInv(graded, left, now)
    BY <1>1, <1>5, <1>6, RecordsStayRecords, AccountGraded, 0 \in Nat
<1> HIDE DEF graded
<1>8. last \in SolverInfo /\ AccountInv(last, left, now)
    BY <1>1, <1>5, <1>7, RecordsStayRecords, AccountGraded, 0 \in Nat, FALSE \in BOOLEAN
<1>9. ~last.locked
    BY <1>7, Zenon DEF LockedAs, SolverInfo
<1> HIDE DEF last
<1>10. /\ solver_info' \in [Solvers -> SolverInfo]
       /\ held' \in [Solvers -> Int]
       /\ slash_history' \in [Solvers -> Seq(SlashEvent)]
       /\ receipts' \in [Recipients -> Nat]
       /\ \A q \in Solvers : AccountInv(solver_info'[q], held'[q], now')
    BY <1>2, <1>3, <1>8, SlashEffectsInv DEF left
<1>11. BondInv'
    BY <1>1, <1>4, <1>10 DEF BondInv, BondTypeOK
<1>12. solver_info' = [solver_info EXCEPT ![s] = last]
    BY <1>3 DEF SlashEffects
<1>13. solver_info'[s] = last /\ \A q \in Solvers \ {s} : solver_info'[q] = solver_info[q]
    BY <1>1, <1>12
<1>14. QED
    BY <1>9, <1>11, <1>13

\* A slash for a violated constraint proves that the solver was not faithful.
LEMMA ViolatorIsNotFaithful ==
    ASSUME AuctionInv, RegistryTypeOK, NEW b \in Batches,
           batches[b].winning_solver # NoSolver,
           FindsConstraintViolation(b, Commitment(b))
    PROVE  ~Faithful(batches[b].winning_solver, b)
<1> DEFINE s == batches[b].winning_solver
<1>1. PICK n \in DOMAIN solutions[b] : /\ solutions[b][n].solver = s
                                       /\ solutions[b][n].solution_commitment = Commitment(b)
    BY CommitmentSubmitted
<1>2. PICK k \in DOMAIN batch_intents[b] :
          Gives[Commitment(b)][batch_intents[b][k]] < MinOutput[batch_intents[b][k]]
    BY DEF FindsConstraintViolation
<1> DEFINE i == batch_intents[b][k]
<1>3. i \in BatchIntents(b) /\ i \in Intents
    <2>1. b \in BatchIds
        BY BatchesHaveIds
    <2>2. batch_intents[b] \in Seq(Intents)
        BY <2>1 DEF RegistryTypeOK
    <2>3. QED
        BY <2>2 DEF BatchIntents
<1>4. Commitment(b) \in Plans
    <2>1. solutions[b] \in Seq(Solution)
        BY DEF AuctionInv, AuctionTypeOK
    <2>2. solutions[b][n] \in Solution
        BY <2>1
    <2>3. QED
        BY <1>1, <2>2 DEF Solution
<1>5. Gives[Commitment(b)][i] \in Nat /\ MinOutput[i] \in Nat
    BY <1>3, <1>4, SettlementAssumption
<1>6. ~(Gives[Commitment(b)][i] >= MinOutput[i])
    BY <1>2, <1>5
<1>7. QED
    BY <1>1, <1>3, <1>6 DEF Faithful

LEMMA PunishKeepsInv ==
    ASSUME SettlementInv, UNCHANGED now, NEW b \in Batches, NEW s \in Solvers,
           NEW bps \in Nat, NEW reason \in {"COMMITMENT_MISMATCH", "CONSTRAINT_VIOLATION"},
           s = batches[b].winning_solver,
           reason = "CONSTRAINT_VIOLATION" => FindsConstraintViolation(b, Commitment(b)),
           settlements[b] = NotExecuted,
           PunishWinner(b, s, bps, reason),
           admin_locked' = LocksLeft
    PROVE  SettlementInv'
<1> DEFINE new == [batch |-> b, solver |-> s, reason |-> reason]
<1>1. /\ BondInv'
      /\ ~solver_info'[s].locked
      /\ \A q \in Solvers \ {s} : solver_info'[q] = solver_info[q]
    BY PunishKeepsBondInv DEF SettlementInv, AuctionInv
<1>2. /\ UNCHANGED <<settlements, auctionVars, registryVars>>
      /\ slashed_for' = slashed_for \cup {new}
    BY DEF PunishWinner
<1>3. AuctionInv'
    BY <1>1, <1>2, NowIsNat, OthersKeepInv DEF SettlementInv
<1>4. RegistryInv'
    BY <1>2, RegistryStepInv DEF SettlementInv
<1>5. /\ batches[b].winning_solver # NoSolver
      /\ new \in SlashReport
    <2>1. s # NoSolver
        BY WinnersAreSolvers
    <2>2. new \in SlashReport
        BY DEF SlashReport
    <2>3. QED
        BY <2>1, <2>2
<1>6. slashed_for' \subseteq SlashReport /\ WonBefore'
    BY <1>2, <1>5 DEF SettlementInv, WonBefore, auctionVars
<1>7. SettledTogether' /\ MinOutputMet'
    BY <1>2 DEF SettlementInv, SettledTogether, MinOutputMet, BatchIntents, registryVars
<1>8. LockHasReason'
    BY <1>1, <1>2 DEF SettlementInv, LockHasReason, auctionVars, LocksLeft
<1>9. FaithfulNotSlashed'
    <2>1. ASSUME NEW report \in slashed_for', report.reason = "CONSTRAINT_VIOLATION"
          PROVE  ~Faithful(report.solver, report.batch)
        <3>1. CASE report \in slashed_for
            BY <2>1, <3>1 DEF SettlementInv, FaithfulNotSlashed
        <3>2. CASE report = new
            <4>1. AuctionInv /\ RegistryTypeOK
                BY DEF SettlementInv, RegistryInv
            <4>2. FindsConstraintViolation(b, Commitment(b))
                BY <2>1, <3>2
            <4>3. report.solver = batches[b].winning_solver /\ report.batch = b
                BY <3>2
            <4>4. QED
                BY <1>5, <4>1, <4>2, <4>3, ViolatorIsNotFaithful
        <3>3. QED
            BY <1>2, <3>1, <3>2
    <2>2. ASSUME NEW report \in slashed_for'
          PROVE  Faithful(report.solver, report.batch)' <=> Faithful(report.solver, report.batch)
        BY <1>2, FaithfulFrozen DEF auctionVars, registryVars
    <2>3. QED
        BY <2>1, <2>2 DEF FaithfulNotSlashed
<1>10. admin_locked' \subseteq Solvers
    BY DEF SettlementInv, LocksLeft
<1>11. QED
    BY <1>2, <1>3, <1>4, <1>6, <1>7, <1>8, <1>9, <1>10 DEF SettlementInv

\* The intents of a batch that is executed are pending, in time and well served.
LEMMA ExecuteKeepsInv ==
    ASSUME SettlementInv, UNCHANGED now, NEW b \in Batches, NEW s \in Solvers, NEW plan \in Plans,
           s = batches[b].winning_solver,
           \A i \in BatchIntents(b) : IntentHonored(i, plan),
           ExecutePlan(b, s, plan),
           admin_locked' = LocksLeft
    PROVE  SettlementInv'
<1> DEFINE after == LockedAs(SuccessRecorded(solver_info[s], now), FALSE)
<1>1. /\ status \in [Intents -> IntentStatus]
      /\ solver_info \in [Solvers -> SolverInfo]
      /\ settlements \in [Batches -> Plans \cup {NotExecuted}]
      /\ BondInv /\ AuctionInv /\ RegistryInv
    BY DEF SettlementInv, AuctionInv, BondInv, BondTypeOK, RegistryInv, RegistryTypeOK
<1>2. /\ status' = [i \in Intents |-> IF i \in BatchIntents(b) THEN "SETTLED" ELSE status[i]]
      /\ solver_info' = [solver_info EXCEPT ![s] = after]
      /\ settlements' = [settlements EXCEPT ![b] = plan]
      /\ UNCHANGED <<slashed_for, batches, solutions, solver_reputation, batch_intents>>
    BY DEF ExecutePlan, auctionVars
<1>3. plan # NotExecuted /\ s # NoSolver
    <2>1. plan # NotExecuted
        BY PlansAreExecutions
    <2>2. s # NoSolver
        BY WinnersAreSolvers
    <2>3. QED
        BY <2>1, <2>2
<1>4. after \in SolverInfo /\ AccountInv(after, held[s], now) /\ ~after.locked
    <2> DEFINE graded == SuccessRecorded(solver_info[s], now)
    <2>1. /\ solver_info[s] \in SolverInfo
          /\ now \in Nat /\ held[s] \in Int
          /\ AccountInv(solver_info[s], held[s], now)
        BY <1>1 DEF BondInv, BondTypeOK
    <2>2. graded \in SolverInfo /\ AccountInv(graded, held[s], now)
        BY <2>1, RecordsStayRecords, AccountGraded, 0 \in Nat
    <2> HIDE DEF graded
    <2>3. LockedAs(graded, FALSE) \in SolverInfo /\ AccountInv(LockedAs(graded, FALSE), held[s], now)
        BY <2>1, <2>2, RecordsStayRecords, AccountGraded, 0 \in Nat, FALSE \in BOOLEAN
    <2>4. ~LockedAs(graded, FALSE).locked
        BY <2>2, Zenon DEF LockedAs, SolverInfo
    <2>5. QED
        BY <2>3, <2>4 DEF graded
<1> HIDE DEF after
<1>5. BondInv'
    BY <1>1, <1>2, <1>4, RecordChangeKeepsInv DEF ExecutePlan
<1>6. AuctionInv'
    BY <1>1, <1>2, <1>5, NowIsNat, OthersKeepInv DEF auctionVars
<1>7. BatchIntents(b) \subseteq Intents
    <2>1. b \in BatchIds
        BY BatchesHaveIds
    <2>2. batch_intents[b] \in Seq(Intents)
        BY <1>1, <2>1 DEF RegistryInv, RegistryTypeOK
    <2>3. QED
        BY <2>2 DEF BatchIntents
<1>8. RegistryInv'
    <2>1. \A i \in BatchIntents(b) : status[i] = "PENDING"
        BY DEF IntentHonored
    <2>2. UNCHANGED <<user_nonces, batch_intents, paused, settlementSet, whitelisted>>
        BY DEF ExecutePlan
    <2>3. QED
        BY <1>1, <1>2, <1>7, <2>1, <2>2, EndsKeepInv
<1>9. /\ settlements' \in [Batches -> Plans \cup {NotExecuted}]
      /\ settlements'[b] = plan
      /\ \A c \in Batches \ {b} : settlements'[c] = settlements[c]
    BY <1>1, <1>2
<1>10. WonBefore'
    BY <1>2, <1>3, <1>9 DEF SettlementInv, WonBefore
<1>11. \A c : BatchIntents(c)' = BatchIntents(c)
    BY <1>2 DEF BatchIntents
<1>12. SettledTogether'
    <2>1. SUFFICES ASSUME NEW i \in Intents
                   PROVE  status'[i] = "SETTLED" <=>
                              \E c \in Batches : settlements'[c] # NotExecuted /\ i \in BatchIntents(c)
        BY <1>11 DEF SettledTogether
    <2>2. status'[i] = "SETTLED" <=> (i \in BatchIntents(b) \/ status[i] = "SETTLED")
        BY <1>2
    <2>3. status[i] = "SETTLED" <=>
              \E c \in Batches : settlements[c] # NotExecuted /\ i \in BatchIntents(c)
        BY DEF SettlementInv, SettledTogether
    <2>4. QED
        BY <1>3, <1>9, <2>2, <2>3
<1>13. MinOutputMet'
    BY <1>9, <1>11 DEF SettlementInv, MinOutputMet, IntentHonored
<1>14. LockHasReason'
    <2>1. ASSUME NEW q \in Solvers, solver_info'[q].locked, q \notin admin_locked'
          PROVE  \E c \in Batches : batches[c].winning_solver = q /\ settlements'[c] = NotExecuted
        <3>1. q # s /\ solver_info[q].locked /\ q \notin admin_locked
            BY <1>1, <1>2, <1>4, <2>1 DEF LocksLeft
        <3>2. PICK c \in Batches : batches[c].winning_solver = q /\ settlements[c] = NotExecuted
            BY <3>1 DEF SettlementInv, LockHasReason
        <3>3. QED
            BY <1>9, <3>1, <3>2
    <2>2. QED
        BY <1>2, <2>1 DEF LockHasReason
<1>15. FaithfulNotSlashed'
    <2>1. \A report \in slashed_for :
              Faithful(report.solver, report.batch)' <=> Faithful(report.solver, report.batch)
        BY <1>2, FaithfulFrozen
    <2>2. QED
        BY <1>2, <2>1 DEF SettlementInv, FaithfulNotSlashed
<1>16. admin_locked' \subseteq Solvers
    BY DEF SettlementInv, LocksLeft
<1>17. QED
    BY <1>2, <1>6, <1>8, <1>9, <1>10, <1>12, <1>13, <1>14, <1>15, <1>16 DEF SettlementInv

\* The three outcomes of settle_batch.
LEMMA SettleKeepsInv ==
    ASSUME SettlementInv, UNCHANGED now,
           NEW b \in Batches, NEW s \in Solvers, NEW plan \in Plans, settle_batch(b, s, plan),
           admin_locked' = LocksLeft
    PROVE  SettlementInv'
<1>1. s = batches[b].winning_solver /\ settlements[b] = NotExecuted
    BY DEF settle_batch
<1>2. ConstraintBps \in Nat /\ MismatchBps \in Nat
    BY SharesAreNat
<1>3. CASE PunishWinner(b, s, MismatchBps, "COMMITMENT_MISMATCH")
    BY <1>1, <1>2, <1>3, PunishKeepsInv
<1>4. CASE /\ plan = Commitment(b)
           /\ FindsConstraintViolation(b, plan)
           /\ PunishWinner(b, s, ConstraintBps, "CONSTRAINT_VIOLATION")
    BY <1>1, <1>2, <1>4, PunishKeepsInv
<1>5. CASE (\A i \in BatchIntents(b) : IntentHonored(i, plan)) /\ ExecutePlan(b, s, plan)
    BY <1>1, <1>5, ExecuteKeepsInv
<1>6. QED
    BY <1>3, <1>4, <1>5 DEF settle_batch

LEMMA SettlementStepInv == SettlementInv /\ [SettlementNext]_systemVars => SettlementInv'
<1> SUFFICES ASSUME SettlementInv, [SettlementNext]_systemVars
             PROVE  SettlementInv'
    OBVIOUS
<1>1. CASE /\ SettlementStep
           /\ admin_locked' = LocksLeft
           /\ UNCHANGED now
    BY <1>1, SettleKeepsInv DEF SettlementStep
<1>2. CASE AuctionStep /\ UNCHANGED <<registryVars, settlementVars, admin_locked, now>>
    BY <1>2, ContractStepsKeepInv
<1>3. CASE \/ /\ SolverStep
              /\ UNCHANGED <<auctionVars, registryVars, settlementVars, admin_locked, now>>
           \/ /\ BondAdminStep
              /\ admin_locked' = LocksOfAdmin
              /\ UNCHANGED <<auctionVars, registryVars, settlementVars, now>>
    BY <1>3, ContractStepsKeepInv
<1>4. CASE /\ RegistryUserStep \/ RegistryAdminStep
           /\ UNCHANGED <<bondVars, auctionVars, settlementVars, admin_locked, now>>
    BY <1>4, RegistryStepsKeepInv
<1>5. CASE Tick /\ UNCHANGED <<bondVars, auctionVars, registryVars, settlementVars, admin_locked>>
    BY <1>5, RegistryStepsKeepInv
<1>6. CASE UNCHANGED systemVars
    BY <1>6, RegistryStepsKeepInv DEF systemVars
<1>7. QED
    BY <1>1, <1>2, <1>3, <1>4, <1>5, <1>6 DEF SettlementNext

-----------------------------------------------------------------------------
(* The theorems. *)

LEMMA SettlementInvariant == SettlementSpec => []SettlementInv
<1>1. QED
    BY SettlementInitInv, SettlementStepInv, PTL DEF SettlementSpec

\* Every reachable state of the four contracts together is well typed.
THEOREM SettlementTypeCorrect == SettlementSpec => []SettlementTypeOK
<1>1. SettlementInv => SettlementTypeOK
    BY DEF SettlementInv, AuctionInv, BondInv, RegistryInv, SettlementTypeOK
<1>2. QED
    BY <1>1, SettlementInvariant, PTL

\* All intents of an executed batch are SETTLED, and no others are.
THEOREM AllOrNothing == SettlementSpec => []SettledTogether
<1>1. SettlementInv => SettledTogether
    BY DEF SettlementInv
<1>2. QED
    BY <1>1, SettlementInvariant, PTL

\* The plan a batch was executed with gives each of its intents the min_output.
THEOREM MinimaAreMet == SettlementSpec => []MinOutputMet
<1>1. SettlementInv => MinOutputMet
    BY DEF SettlementInv
<1>2. QED
    BY <1>1, SettlementInvariant, PTL

\* A locked bond was locked by the admin, or its owner won a batch that is not executed.
THEOREM LocksHaveReasons == SettlementSpec => []LockHasReason
<1>1. SettlementInv => LockHasReason
    BY DEF SettlementInv
<1>2. QED
    BY <1>1, SettlementInvariant, PTL

\* Whatever users, time and other solvers do, a faithful solver is not slashed for
\* its plan.
THEOREM FaithfulAreSafe == SettlementSpec => []FaithfulNotSlashed
<1>1. SettlementInv => FaithfulNotSlashed
    BY DEF SettlementInv
<1>2. QED
    BY <1>1, SettlementInvariant, PTL

\* What each contract keeps alone it keeps while the others call it.
THEOREM ContractsKeepTheirInvariants ==
    SettlementSpec => [](/\ BondBacked /\ NothingStrandedBeforeBlacklist /\ RequestAfterSlash
                         /\ WinnerCompeted
                         /\ NonceAdmitsOneIntent /\ CommittedIntentsAreListedOnce)
<1>1. SettlementInv => BondInv /\ RegistryInv /\ WinnerCompeted
    BY DEF SettlementInv, AuctionInv
<1>2. BondInv => BondBacked /\ NothingStrandedBeforeBlacklist /\ RequestAfterSlash
    BY DEF BondInv, AccountInv, BondBacked, NothingStrandedBeforeBlacklist, RequestAfterSlash
<1>3. RegistryInv => NonceAdmitsOneIntent /\ CommittedIntentsAreListedOnce
    BY DEF RegistryInv, NoncesInv
<1>4. QED
    BY <1>1, <1>2, <1>3, SettlementInvariant, PTL

\* A settlement attempt leaves the auctions and the batches' lists alone.
LEMMA SettlingKeepsBatches == SettlementStep => UNCHANGED <<auctionVars, batch_intents>>
<1> SUFFICES ASSUME NEW b \in Batches, NEW s \in Solvers, NEW plan \in Plans,
                    settle_batch(b, s, plan)
             PROVE  UNCHANGED <<auctionVars, batch_intents>>
    BY DEF SettlementStep
<1>1. ASSUME NEW bps, NEW reason, PunishWinner(b, s, bps, reason)
      PROVE  UNCHANGED <<auctionVars, batch_intents>>
    BY <1>1 DEF PunishWinner, registryVars
<1>2. CASE ExecutePlan(b, s, plan)
    BY <1>2 DEF ExecutePlan
<1>3. QED
    BY <1>1, <1>2 DEF settle_batch

\* Settling, slashing and the users' calls leave a decided batch its winner and its
\* solutions.
THEOREM SettlementKeepsDecisions == SettlementSpec => DecisionIsFinal
<1>1. SettlementInv /\ [SettlementNext]_systemVars
          => [DecidedUnchanged]_<<now, auctionVars, bondVars>>
    <2> SUFFICES ASSUME SettlementInv, [SettlementNext]_systemVars
                 PROVE  [DecidedUnchanged]_<<now, auctionVars, bondVars>>
        OBVIOUS
    <2>1. CASE AuctionStep /\ UNCHANGED now
        BY <2>1, DecidedStep DEF AuctionNext, SettlementInv
    <2>2. CASE UNCHANGED auctionVars
        BY <2>2 DEF DecidedUnchanged, auctionVars
    <2>3. QED
        BY <2>1, <2>2, SettlingKeepsBatches DEF SettlementNext, systemVars
<1>2. QED
    BY <1>1, SettlementInvariant, PTL DEF SettlementSpec, DecisionIsFinal

\* No call of the four contracts adds an intent to a batch whose window is over.
THEOREM SettlementFreezesBatches == SettlementSpec => ClosedBatchIsFrozen
<1>1. SettlementInv /\ [SettlementNext]_systemVars
          => [ClosedListUnchanged]_<<now, registryVars>>
    <2> SUFFICES ASSUME SettlementInv, [SettlementNext]_systemVars
                 PROVE  [ClosedListUnchanged]_<<now, registryVars>>
        OBVIOUS
    <2>1. CASE (RegistryUserStep \/ RegistryAdminStep) /\ UNCHANGED now
        BY <2>1, ClosedStep DEF SettlementInv, RegistryNext
    <2>2. CASE UNCHANGED batch_intents
        BY <2>2 DEF ClosedListUnchanged
    <2>3. QED
        BY <2>1, <2>2, SettlingKeepsBatches DEF SettlementNext, systemVars, registryVars
<1>2. QED
    BY <1>1, SettlementInvariant, PTL DEF SettlementSpec, ClosedBatchIsFrozen

\* Only pending intents are settled, in time, and a batch is executed once.
THEOREM SettlementsAreInTime == SettlementSpec => SettledInTime
<1>1. SettlementInv /\ [SettlementNext]_systemVars => [InTimeAndOnce]_systemVars
    <2> SUFFICES ASSUME SettlementInv, SettlementNext
                 PROVE  InTimeAndOnce
        OBVIOUS
    <2>1. /\ settlements \in [Batches -> Plans \cup {NotExecuted}]
          /\ status \in [Intents -> IntentStatus]
        BY DEF SettlementInv, RegistryInv, RegistryTypeOK
    <2>2. ASSUME NEW b \in Batches, NEW s \in Solvers, NEW plan \in Plans,
                 settle_batch(b, s, plan)
          PROVE  InTimeAndOnce
        <3>1. CASE UNCHANGED <<settlements, registryVars>>
            BY <3>1 DEF InTimeAndOnce, registryVars
        <3>2. CASE (\A i \in BatchIntents(b) : IntentHonored(i, plan)) /\ ExecutePlan(b, s, plan)
            <4>1. settlements[b] = NotExecuted
                BY <2>2 DEF settle_batch
            <4>2. QED
                BY <2>1, <3>2, <4>1 DEF ExecutePlan, IntentHonored, InTimeAndOnce
        <3>3. QED
            BY <2>2, <3>1, <3>2 DEF settle_batch, PunishWinner
    <2>3. CASE UNCHANGED settlements /\ (RegistryUserStep \/ RegistryAdminStep)
        BY <2>1, <2>3 DEF InTimeAndOnce, RegistryUserStep, RegistryAdminStep, commit_intent,
            cancel_intent, mark_expired, EndIntent, pause, unpause, set_batch_settlement_contract
    <2>4. CASE UNCHANGED <<settlements, status>>
        BY <2>4 DEF InTimeAndOnce
    <2>5. QED
        BY <2>2, <2>3, <2>4 DEF SettlementNext, SettlementStep, settlementVars, registryVars
<1>2. QED
    BY <1>1, SettlementInvariant, PTL DEF SettlementSpec, SettledInTime

\* From its first solution on a batch has the intents that its bidders saw.
THEOREM BiddersSeeTheBatch == SettlementSpec => BidsSeeTheWholeBatch
<1>1. SettlementInv /\ [SettlementNext]_systemVars => [BidBatchUnchanged]_systemVars
    <2> SUFFICES ASSUME SettlementInv, SettlementNext,
                        NEW b \in Batches, solutions[b] # <<>>
                 PROVE  batch_intents'[b] = batch_intents[b]
        BY DEF BidBatchUnchanged
    <2>1. CASE (RegistryUserStep \/ RegistryAdminStep) /\ UNCHANGED now
        <3>1. b \in BatchIds /\ now >= WindowEnd(b)
            BY SolutionsInClosedBatch DEF SettlementInv
        <3>2. [ClosedListUnchanged]_<<now, registryVars>>
            BY <2>1, ClosedStep DEF SettlementInv, RegistryNext
        <3>3. QED
            BY <3>1, <3>2 DEF ClosedListUnchanged, registryVars
    <2>2. CASE UNCHANGED batch_intents
        BY <2>2
    <2>3. QED
        BY <2>1, <2>2, SettlingKeepsBatches DEF SettlementNext, registryVars
<1>2. QED
    BY <1>1, SettlementInvariant, PTL DEF SettlementSpec, BidsSeeTheWholeBatch

\* An execution settles pending intents at once; every other step of the four
\* contracts is one of the life cycle or changes no status.
THEOREM SettlementImplementsLifecycle == SettlementSpec => LifecycleSpec
<1>1. SettlementInit => Lifecycle!Init
    BY DEF SettlementInit, RegistryInitWith, Lifecycle!Init
<1>2. SettlementInv /\ [SettlementNext]_systemVars => [Lifecycle!Next]_status
    <2> SUFFICES ASSUME SettlementInv, SettlementNext
                 PROVE  [Lifecycle!Next]_status
        BY DEF systemVars, registryVars
    <2>1. ASSUME NEW b \in Batches, NEW s \in Solvers, NEW plan \in Plans,
                 \A i \in BatchIntents(b) : IntentHonored(i, plan),
                 ExecutePlan(b, s, plan)
          PROVE  Lifecycle!SettleMany
        <3>1. status' = [i \in Intents |-> IF i \in BatchIntents(b) THEN "SETTLED" ELSE status[i]]
            BY <2>1 DEF ExecutePlan
        <3>2. BatchIntents(b) \subseteq {i \in Intents : status[i] = "PENDING"}
            <4>1. batch_intents[b] \in Seq(Intents)
                BY BatchesHaveIds DEF SettlementInv, RegistryInv, RegistryTypeOK
            <4>2. BatchIntents(b) \subseteq Intents
                BY <4>1 DEF BatchIntents
            <4>3. QED
                BY <2>1, <4>2 DEF IntentHonored
        <3>3. QED
            BY <3>1, <3>2 DEF Lifecycle!SettleMany
    <2>2. CASE (RegistryUserStep \/ RegistryAdminStep) /\ UNCHANGED now
        BY <2>2, LifecycleStep DEF SettlementInv, RegistryNext, registryVars
    <2>3. CASE UNCHANGED status
        BY <2>3
    <2>4. QED
        BY <2>1, <2>2, <2>3, ZenonT(30)
        DEF Lifecycle!Next, SettlementNext, SettlementStep, settle_batch, PunishWinner,
            registryVars
<1>3. QED
    BY <1>1, <1>2, SettlementInvariant, PTL
    DEF SettlementSpec, LifecycleSpec, Lifecycle!Spec

-----------------------------------------------------------------------------
(* The life cycle of a batch. *)

\* What a call does to batches, solutions and settlements it does to the abstract batch:
\* create_batch starts its auction,
LEMMA CreateStarts ==
    ASSUME AuctionInv, NEW b \in Batches, create_batch(b), UNCHANGED settlements
    PROVE  BatchLife!Start(b)
<1>1. batches \in [Batches -> Batch] /\ batches[b] \in Batch
    BY DEF AuctionInv, AuctionTypeOK
<1> DEFINE opened == [batches[b] EXCEPT !.status = "AUCTION",
                                        !.close_time = CloseTime[b],
                                        !.auction_deadline = CloseTime[b] + SolutionWindow]
<1>2. opened.status = "AUCTION"
    BY <1>1 DEF Batch
<1>3. batches' = [batches EXCEPT ![b] = opened]
    BY DEF create_batch
<1> HIDE DEF opened
<1>4. QED
    BY <1>1, <1>2, <1>3 DEF BatchLife!Start, create_batch

\* submit_solution is a bid,
LEMMA SubmitBids ==
    ASSUME AuctionInv, NEW b \in Batches, NEW s \in Solvers, NEW plan \in Plans,
           NEW surplus \in Surpluses, NEW fee \in Fees,
           submit_solution(s, b, plan, surplus, fee), UNCHANGED <<settlements, now>>
    PROVE  BatchLife!Bid(b)
<1>1. /\ solutions \in [Batches -> Seq(Solution)]
      /\ batches[b].status = "AUCTION" /\ UNCHANGED batches
    BY DEF AuctionInv, AuctionTypeOK, submit_solution
<1>2. batches[b].close_time = CloseTime[b]
      /\ batches[b].auction_deadline = CloseTime[b] + SolutionWindow
    BY <1>1 DEF AuctionInv, InWindow
<1>3. CloseTime[b] \in Nat /\ SolutionWindow \in Nat /\ now \in Nat
    BY TimesAreNat, WindowsAreNat, NowIsNat
<1>4. now' \in CloseTime[b]..CloseTime[b] + SolutionWindow
    BY <1>2, <1>3 DEF submit_solution
<1>5. PICK solution : solutions' = [solutions EXCEPT ![b] = Append(@, solution)]
    BY DEF submit_solution
<1>6. solutions'[b] # <<>> /\ \A c \in Batches \ {b} : solutions'[c] = solutions[c]
    BY <1>1, <1>5
<1>7. {c \in Batches : solutions'[c] # <<>>} = {c \in Batches : solutions[c] # <<>>} \cup {b}
    BY <1>6
<1>8. QED
    BY <1>1, <1>4, <1>7 DEF BatchLife!Bid, BatchLife!LastBid

\* finalize_auction decides,
LEMMA FinalizeDecides ==
    ASSUME AuctionInv, NEW b \in Batches, finalize_auction(b), UNCHANGED <<settlements, now>>
    PROVE  BatchLife!Decide(b)
<1>1. batches \in [Batches -> Batch] /\ batches[b] \in Batch
    BY DEF AuctionInv, AuctionTypeOK
<1>2. batches[b].status = "AUCTION"
    BY DEF finalize_auction, InResolutionWindow
<1>3. batches[b].auction_deadline = CloseTime[b] + SolutionWindow
    BY <1>2 DEF AuctionInv, InWindow
<1>4. now' \in CloseTime[b] + SolutionWindow..CloseTime[b] + SolutionWindow + AuctionResolution
    <2>1. CloseTime[b] \in Nat /\ SolutionWindow \in Nat /\ AuctionResolution \in Nat
          /\ now \in Nat
        BY TimesAreNat, WindowsAreNat, NowIsNat
    <2>2. QED
        BY <1>3, <2>1 DEF finalize_auction, InResolutionWindow
<1>5. UNCHANGED solutions
    BY DEF finalize_auction, FailBatch, SelectWinner
<1>6. batches'[b].status = IF solutions[b] # <<>> THEN "SETTLED" ELSE "FAILED"
    <2>1. CASE FailBatch(b)
        BY <1>1, <2>1 DEF FailBatch, Batch
    <2>2. CASE SelectWinner(b)
        BY <1>1, <2>2 DEF SelectWinner, Batch
    <2>3. QED
        BY <2>1, <2>2 DEF finalize_auction
<1>7. \A c \in Batches \ {b} : batches'[c] = batches[c]
    BY <1>1 DEF finalize_auction, FailBatch, SelectWinner
<1>8. QED
    BY <1>2, <1>4, <1>5, <1>6, <1>7 DEF BatchLife!Decide, BatchLife!LastBid

\* and settle_batch, when it executes the plan, executes.
LEMMA SettleExecutes ==
    ASSUME SettlementInv, NEW b \in Batches, NEW s \in Solvers, NEW plan \in Plans,
           s = batches[b].winning_solver, settlements[b] = NotExecuted, ExecutePlan(b, s, plan)
    PROVE  BatchLife!Execute(b)
<1>1. batches[b].status = "SETTLED"
    BY WinnersAreSolvers DEF SettlementInv, AuctionInv, InWindow
<1>2. /\ settlements \in [Batches -> Plans \cup {NotExecuted}]
      /\ settlements' = [settlements EXCEPT ![b] = plan] /\ plan # NotExecuted
    BY PlansAreExecutions DEF SettlementInv, ExecutePlan
<1>3. {c \in Batches : settlements'[c] # NotExecuted}
          = {c \in Batches : settlements[c] # NotExecuted} \cup {b}
    BY <1>2
<1>4. UNCHANGED <<batches, solutions>>
    BY DEF ExecutePlan, auctionVars
<1>5. QED
    BY <1>1, <1>3, <1>4 DEF BatchLife!Execute

\* Whoever calls the contracts when: bids and decisions come in their windows, an auction
\* is decided once and by whether there was a bid, and what is executed was won.
THEOREM SettlementImplementsBatchLifecycle == SettlementSpec => BatchLifecycleSpec
<1>1. SettlementInit => BatchLife!Init
    <2> SUFFICES ASSUME SettlementInit PROVE BatchLife!Init
        OBVIOUS
    <2>1. /\ batches = [b \in Batches |-> NoBatch] /\ solutions = [b \in Batches |-> <<>>]
          /\ settlements = [b \in Batches |-> NotExecuted] /\ now \in Nat
        BY ClockAssumption DEF SettlementInit, AuctionInit, ClockInit
    <2>2. QED
        BY <2>1 DEF BatchLife!Init, NoBatch
<1>2. SettlementInv /\ [SettlementNext]_systemVars
          => [BatchLife!Next]_<<now, [b \in Batches |-> batches[b].status],
                                {b \in Batches : solutions[b] # <<>>},
                                {b \in Batches : settlements[b] # NotExecuted}>>
    <2> SUFFICES ASSUME SettlementInv, SettlementNext
                 PROVE  BatchLife!Next
        BY DEF systemVars, auctionVars, settlementVars
    <2>1. AuctionInv /\ now \in Nat
        BY NowIsNat DEF SettlementInv
    <2>2. now' \in Nat /\ now <= now'
        BY <2>1 DEF SettlementNext, Tick
    <2>3. CASE UNCHANGED <<batches, solutions, settlements>>
        BY <2>2, <2>3 DEF BatchLife!Next
    <2>4. CASE SettlementStep
        <3>1. PICK b \in Batches, s \in Solvers, plan \in Plans : settle_batch(b, s, plan)
            BY <2>4 DEF SettlementStep
        <3>2. CASE ExecutePlan(b, s, plan)
            BY <2>2, <3>1, <3>2, SettleExecutes DEF BatchLife!Next, settle_batch
        <3>3. QED
            BY <2>3, <3>1, <3>2 DEF settle_batch, PunishWinner, auctionVars
    <2>5. CASE AuctionStep /\ UNCHANGED <<registryVars, settlementVars, now>>
        <3>1. UNCHANGED <<settlements, now>>
            BY <2>5 DEF settlementVars
        <3>2. ASSUME NEW b \in Batches, create_batch(b) \/ finalize_auction(b)
              PROVE  BatchLife!Next
            BY <2>1, <2>2, <3>1, <3>2, CreateStarts, FinalizeDecides DEF BatchLife!Next
        <3>3. ASSUME NEW s \in Solvers, NEW b \in Batches, NEW plan \in Plans,
                     NEW surplus \in Surpluses, NEW fee \in Fees,
                     submit_solution(s, b, plan, surplus, fee)
              PROVE  BatchLife!Next
            BY <2>1, <2>2, <3>1, <3>3, SubmitBids DEF BatchLife!Next
        <3>4. ASSUME NEW s \in Solvers, NEW amount \in AdminSlashes, slash_solver(s, amount)
              PROVE  BatchLife!Next
            BY <2>3, <3>1, <3>4 DEF slash_solver, auctionVars
        <3>5. QED
            BY <2>5, <3>2, <3>3, <3>4 DEF AuctionStep
    <2>6. QED
        BY <2>3, <2>4, <2>5 DEF SettlementNext, auctionVars, settlementVars
<1>3. QED
    BY <1>1, <1>2, SettlementInvariant, PTL
    DEF SettlementSpec, BatchLifecycleSpec, BatchLife!Spec

-----------------------------------------------------------------------------
(* The bond contract while the others call it. *)

\* A settlement that punishes slashes, grades and unlocks in one transaction.
LEMMA PunishSlashes ==
    ASSUME BondInv, NEW b \in Batches, NEW s \in Solvers, NEW bps \in Nat, NEW reason,
           PunishWinner(b, s, bps, reason)
    PROVE  Slashing(s)
<1> DEFINE cut     == SlashAmount(s, bps)
           slashed == Slashed(solver_info[s], cut, now)
           graded  == FailureRecorded(slashed, now)
           last    == LockedAs(graded, FALSE)
<1>1. now \in Nat /\ solver_info[s] \in SolverInfo
    BY DEF BondInv, BondTypeOK
<1>2. cut \in Nat
    <2>1. solver_info[s].bond_amount \in Nat
        BY <1>1 DEF SolverInfo
    <2>2. PICK product \in Nat : product = solver_info[s].bond_amount * bps
        BY <2>1
    <2>3. QED
        BY <2>2 DEF SlashAmount
<1>3. SlashEffects(s, cut, last) /\ UNCHANGED wallet
    BY Zenon DEF PunishWinner
<1> HIDE DEF cut
<1>4. /\ slashed \in SolverInfo /\ slashed.bond_amount <= solver_info[s].bond_amount
      /\ solver_info[s].blacklisted => slashed.blacklisted
    BY <1>1, <1>2, SlashLowersStanding
<1> HIDE DEF slashed
<1>5. SameStanding(graded, slashed)
    BY <1>1, <1>4, GradesKeepStanding
<1> HIDE DEF graded
<1>6. SameStanding(last, graded)
    BY <1>5, GradesKeepStanding, 0 \in Nat, FALSE \in BOOLEAN DEF SameStanding
<1> HIDE DEF last
<1>7. /\ last \in SolverInfo /\ last.bond_amount <= solver_info[s].bond_amount
      /\ solver_info[s].blacklisted => last.blacklisted
    BY <1>4, <1>5, <1>6 DEF SameStanding
<1>8. QED
    BY <1>2, <1>3, <1>7 DEF Slashing

\* One that executes grades and unlocks.
LEMMA ExecuteGrades ==
    ASSUME BondInv, NEW b \in Batches, NEW s \in Solvers, NEW plan, ExecutePlan(b, s, plan)
    PROVE  Grading(s)
<1> DEFINE graded == SuccessRecorded(solver_info[s], now)
           last   == LockedAs(graded, FALSE)
<1>1. now \in Nat /\ solver_info[s] \in SolverInfo
    BY DEF BondInv, BondTypeOK
<1>2. /\ solver_info' = [solver_info EXCEPT ![s] = last]
      /\ UNCHANGED <<slash_history, wallet, held, receipts>>
    BY DEF ExecutePlan
<1>3. SameStanding(graded, solver_info[s])
    BY <1>1, GradesKeepStanding
<1> HIDE DEF graded
<1>4. SameStanding(last, graded)
    BY <1>3, GradesKeepStanding, 0 \in Nat, FALSE \in BOOLEAN DEF SameStanding
<1> HIDE DEF last
<1>5. SameStanding(last, solver_info[s])
    BY <1>3, <1>4 DEF SameStanding
<1>6. QED
    BY <1>2, <1>5 DEF Grading, SameStanding

\* A decision locks the winner.
LEMMA SelectGrades ==
    ASSUME BondInv, NEW b \in Batches, SelectWinner(b)
    PROVE  BondEffect
<1> DEFINE winner == Winner(solutions[b], solver_reputation)
<1>1. solver_info \in [Solvers -> SolverInfo]
    BY DEF BondInv, BondTypeOK
<1>2. /\ solver_info' = [s \in Solvers |->
             IF s = winner THEN LockedAs(solver_info[s], TRUE) ELSE solver_info[s]]
      /\ UNCHANGED <<slash_history, wallet, held, receipts>>
    BY DEF SelectWinner
<1> HIDE DEF winner
<1>3. CASE winner \in Solvers
    <2>1. solver_info' = [solver_info EXCEPT ![winner] = LockedAs(solver_info[winner], TRUE)]
        BY <1>1, <1>2, <1>3
    <2>2. SameStanding(LockedAs(solver_info[winner], TRUE), solver_info[winner])
        BY <1>1, <1>3, GradesKeepStanding, 0 \in Nat, TRUE \in BOOLEAN
    <2>3. Grading(winner)
        BY <1>2, <2>1, <2>2 DEF Grading, SameStanding
    <2>4. QED
        BY <1>3, <2>3 DEF BondEffect
<1>4. CASE winner \notin Solvers
    <2>1. solver_info' = solver_info
        BY <1>1, <1>2, <1>4
    <2>2. QED
        BY <1>2, <2>1 DEF BondEffect
<1>5. QED
    BY <1>3, <1>4

\* Every call of the other contracts is one of the things that can happen to the bonds.
LEMMA AuctionStepEffect ==
    ASSUME AuctionInv, AuctionStep
    PROVE  BondEffect
<1>1. BondInv
    BY DEF AuctionInv
<1>2. ASSUME NEW b \in Batches, create_batch(b) \/ FailBatch(b)
      PROVE  BondEffect
    BY <1>2 DEF create_batch, FailBatch, bondVars, BondEffect
<1>3. ASSUME NEW s \in Solvers, NEW b \in Batches, NEW plan \in Plans,
             NEW surplus \in Surpluses, NEW fee \in Fees,
             submit_solution(s, b, plan, surplus, fee)
      PROVE  BondEffect
    BY <1>3 DEF submit_solution, bondVars, BondEffect
<1>4. ASSUME NEW s \in Solvers, NEW amount \in AdminSlashes, slash_solver(s, amount)
      PROVE  BondEffect
    <2>1. amount \in Nat
        BY AdminSlashesAreNat
    <2>2. /\ now \in Nat /\ solver_info[s] \in SolverInfo
          /\ SlashEffects(s, amount, Slashed(solver_info[s], amount, now)) /\ UNCHANGED wallet
        BY <1>1, <1>4 DEF slash_solver, slash, BondInv, BondTypeOK
    <2>3. Slashing(s)
        BY <2>1, <2>2, SlashLowersStanding DEF Slashing
    <2>4. QED
        BY <2>3 DEF BondEffect
<1>5. QED
    BY <1>1, <1>2, <1>3, <1>4, SelectGrades DEF AuctionStep, finalize_auction

LEMMA SettlementBonds == SettlementInv => BondInv /\ BondTypeOK
BY DEF SettlementInv, AuctionInv, BondInv

LEMMA SettlementStepEffect == SettlementInv /\ [SettlementNext]_systemVars => BondEffect
<1> SUFFICES ASSUME SettlementInv, SettlementNext
             PROVE  BondEffect
    BY DEF BondEffect, systemVars, bondVars
<1>1. AuctionInv /\ BondInv
    BY DEF SettlementInv, AuctionInv
<1>2. CASE SettlementStep
    <2>1. PICK b \in Batches, s \in Solvers, plan \in Plans : settle_batch(b, s, plan)
        BY <1>2 DEF SettlementStep
    <2>2. \/ PunishWinner(b, s, MismatchBps, "COMMITMENT_MISMATCH")
          \/ PunishWinner(b, s, ConstraintBps, "CONSTRAINT_VIOLATION")
          \/ ExecutePlan(b, s, plan)
        BY <2>1 DEF settle_batch
    <2>3. Slashing(s) \/ Grading(s)
        BY <1>1, <2>2, PunishSlashes, ExecuteGrades, SharesAreNat
    <2>4. QED
        BY <2>3 DEF BondEffect
<1>3. CASE AuctionStep
    BY <1>1, <1>3, AuctionStepEffect
<1>4. CASE (SolverStep \/ BondAdminStep) /\ UNCHANGED now
    BY <1>1, <1>4, BondStepEffect DEF BondNext
<1>5. CASE UNCHANGED bondVars
    BY <1>5 DEF BondEffect, bondVars
<1>6. QED
    BY <1>2, <1>3, <1>4, <1>5 DEF SettlementNext

\* Whoever slashes, the admin or a settlement, what the recipients have is what the
\* histories say was taken.
THEOREM SettlementSlashesAreAccounted == SettlementSpec => []SlashesAccounted
<1>1. SettlementInit => SlashesAccounted
    BY SettlementInitInv, SettlementBonds, NothingTakenFirst, Callers \in SUBSET Callers
    DEF SettlementInit
<1>2. SettlementInv /\ SettlementInv' /\ SlashesAccounted /\ [SettlementNext]_systemVars
          => SlashesAccounted'
    BY SettlementBonds, SettlementStepEffect, EffectIsAccounted
    DEF SettlementInv, AuctionInv, BondInv
<1>3. QED
    BY <1>1, <1>2, SettlementInvariant, PTL DEF SettlementSpec

\* Deposits, payments, the admin's slashes and those of settlements together make no
\* token and lose none.
THEOREM SettlementConservesTokens == SettlementSpec => []TokensConserved
<1>1. SettlementInit => TokensConserved
    BY SettlementInitInv, SettlementBonds, ConservedFirst, Callers \in SUBSET Callers
    DEF SettlementInit
<1>2. SettlementInv /\ SettlementInv' /\ TokensConserved /\ [SettlementNext]_systemVars
          => TokensConserved'
    BY SettlementBonds, SettlementStepEffect, EffectConserves
    DEF SettlementInv, AuctionInv, BondInv
<1>3. QED
    BY <1>1, <1>2, SettlementInvariant, PTL DEF SettlementSpec

\* No sequence of bids, wins, settlements and slashes gets a solver paid within a
\* withdrawal delay after a slash.
THEOREM SettlementSlashPrecedesWithdrawal == SettlementSpec => SlashBeforeWithdraw
<1>1. SettlementInv /\ [SettlementNext]_systemVars => [PaidAfterQuietDelay]_<<now, bondVars>>
    BY SettlementBonds, SettlementStepEffect, EffectPaysAfterDelay
<1>2. QED
    BY <1>1, SettlementInvariant, PTL DEF SettlementSpec, SlashBeforeWithdraw

\* Winning, settling or failing never brings a blacklisted solver back.
THEOREM SettlementKeepsBlacklist == SettlementSpec => BlacklistIsPermanent
<1>1. SettlementInv /\ [SettlementNext]_systemVars => [NoWayBack]_<<now, bondVars>>
    BY SettlementBonds, SettlementStepEffect, EffectKeepsBlacklist
<1>2. QED
    BY <1>1, SettlementInvariant, PTL DEF SettlementSpec, BlacklistIsPermanent
=============================================================================
