----------------------------- MODULE SolverBond -----------------------------
(***************************************************************************)
(* contracts/src/solver_bond.cairo: the contract that keeps the solvers'   *)
(* collateral.  A solver deposits tokens, asks for a withdrawal, waits and *)
(* withdraws; the auction and settlement contracts lock, slash and grade   *)
(* it; the admin changes the minimum bond behind a timelock.               *)
(*                                                                         *)
(* A transaction is atomic.  What a call does to one solver's record is an *)
(* operator from record to record, so that a transaction of another        *)
(* contract that makes several calls here is the composition of them.      *)
(***************************************************************************)
EXTENDS Integers, Sequences, FiniteSets, Functions, Clock

CONSTANTS Solvers,            \* accounts that may deposit
          Supply,             \* bond tokens each account owns at the start
          Amounts,            \* amounts a caller may pass
          WithdrawalDelay,    \* withdrawal_delay_seconds
          SlashWindow,        \* slash_window_seconds
          MaxSlashes,         \* max_slashes_before_blacklist
          BaseReputation, MinAttempts, DecayPeriod,
          UserBps, TreasuryBps,          \* the whistleblower gets the rest
          InitialMinimumBond, MinimumBonds, MinimumBondDelay,
          MaxSlashEvents,     \* bound: entries of one slash history
          MaxAttempts         \* bound: recorded settlements of one solver

ASSUME BondAssumption ==
    /\ Supply \in Nat /\ Amounts \subseteq Nat
    /\ WithdrawalDelay \in Nat /\ SlashWindow \in Nat /\ MaxSlashes \in Nat
    /\ BaseReputation \in Nat /\ MinAttempts \in Nat \ {0} /\ DecayPeriod \in Nat
    /\ UserBps \in Nat /\ TreasuryBps \in Nat /\ UserBps + TreasuryBps <= 10000
    /\ InitialMinimumBond \in Nat /\ MinimumBonds \subseteq Nat
    /\ MinimumBondDelay \in Nat
    /\ MaxSlashEvents \in Nat /\ MaxAttempts \in Nat
    /\ IsFiniteSet(Solvers)

VARIABLES
    solver_info,        \* the SolverInfo record (and last_activity) of each solver
    slash_history,      \* its slash_history, oldest first
    minimum_bond,
    pending_minimum_bond,   \* [value, time]; time 0 when nothing is proposed
    wired,              \* the contract addresses set so far
    wallet,             \* bond tokens owned by each solver's account
    held,               \* bond tokens the contract received from a solver and
                        \* has not paid out for it (its share of balance_of)
    receipts            \* bond tokens each slash recipient was paid

bondVars == <<solver_info, slash_history, minimum_bond, pending_minimum_bond,
              wired, wallet, held, receipts>>

Callers == {"auction", "settlement"}
Recipients == {"user", "treasury", "whistleblower"}

SolverInfo ==
    [bond_amount : Nat, locked : BOOLEAN, blacklisted : BOOLEAN,
     successful_settlements : Nat, failed_settlements : Nat,
     slash_count_30d : Nat, last_slash_timestamp : Nat,
     withdrawal_request_time : Nat, withdrawal_request_amount : Nat,
     last_activity : Nat]

SlashEvent == [slash_amount : Nat, timestamp : Nat]

BondTypeOK ==
    /\ solver_info \in [Solvers -> SolverInfo]
    /\ slash_history \in [Solvers -> Seq(SlashEvent)]
    /\ minimum_bond \in Nat
    /\ pending_minimum_bond \in [value : Nat, time : Nat]
    /\ wired \subseteq Callers
    /\ wallet \in [Solvers -> Nat]
    /\ held \in [Solvers -> Int]
    /\ receipts \in [Recipients -> Nat]

NewSolver ==
    [bond_amount |-> 0, locked |-> FALSE, blacklisted |-> FALSE,
     successful_settlements |-> 0, failed_settlements |-> 0,
     slash_count_30d |-> 0, last_slash_timestamp |-> 0,
     withdrawal_request_time |-> 0, withdrawal_request_amount |-> 0,
     last_activity |-> 0]

\* A bond contract that knows the given callers.
BondInitWith(contracts) ==
    /\ solver_info = [s \in Solvers |-> NewSolver]
    /\ slash_history = [s \in Solvers |-> <<>>]
    /\ minimum_bond = InitialMinimumBond
    /\ pending_minimum_bond = [value |-> 0, time |-> 0]
    /\ wired = contracts
    /\ wallet = [s \in Solvers |-> Supply]
    /\ held = [s \in Solvers |-> 0]
    /\ receipts = [r \in Recipients |-> 0]

BondInit == BondInitWith({})

-----------------------------------------------------------------------------
(* What the calls do to one solver's record. *)

Deposited(info, amount, t) ==
    [info EXCEPT !.bond_amount = @ + amount, !.last_activity = t]

WithdrawalRequested(info, amount, t) ==
    [info EXCEPT !.withdrawal_request_time = t,
                 !.withdrawal_request_amount = amount]

\* Mutant: the payment is not deducted from the bond.
MutantWithdrawnKeepsBond(info, amount) ==
    [info EXCEPT !.withdrawal_request_time = 0, !.withdrawal_request_amount = 0]

Withdrawn(info, amount) ==
    [info EXCEPT !.bond_amount = @ - amount,
                 !.withdrawal_request_time = 0,
                 !.withdrawal_request_amount = 0]

\* Mutant: the cap at the bond is forgotten.
MutantUncappedSlash(info, amount) == amount

\* slash caps the amount at the bond.
ActualSlash(info, amount) ==
    IF amount > info.bond_amount THEN info.bond_amount ELSE amount

\* _clean_old_slashes resets the stored counter, but slash works on the record
\* it read before that call and writes all its fields back: the reset is lost.
SlashCountAfter(info, t) == info.slash_count_30d + 1

\* Mutant: the pending withdrawal request survives the slash.
MutantSlashKeepsRequest(info, amount, t) ==
    LET actual   == ActualSlash(info, amount)
        repeated == SlashCountAfter(info, t) > MaxSlashes
    IN  [info EXCEPT !.bond_amount = IF repeated THEN 0 ELSE @ - actual,
                     !.slash_count_30d = @ + 1,
                     !.last_slash_timestamp = t,
                     !.failed_settlements = @ + 1,
                     !.blacklisted = @ \/ amount > actual \/ repeated]

Slashed(info, amount, t) ==
    LET actual   == ActualSlash(info, amount)
        count    == SlashCountAfter(info, t)
        repeated == count > MaxSlashes
    IN  [info EXCEPT !.bond_amount = IF repeated THEN 0 ELSE @ - actual,
                     !.slash_count_30d = count,
                     !.last_slash_timestamp = t,
                     !.failed_settlements = @ + 1,
                     !.withdrawal_request_amount = 0,
                     !.withdrawal_request_time = 0,
                     !.blacklisted = @ \/ amount > actual \/ repeated]

SuccessRecorded(info, t) ==
    [info EXCEPT !.successful_settlements = @ + 1, !.last_activity = t]

FailureRecorded(info, t) ==
    [info EXCEPT !.failed_settlements = @ + 1, !.last_activity = t]

LockedAs(info, locked) == [info EXCEPT !.locked = locked]

Attempts(info) == info.successful_settlements + info.failed_settlements

\* Mutant: failures are subtracted from successes.
MutantNetReputation(info, t) ==
    IF info.blacklisted THEN 0
    ELSE IF Attempts(info) < MinAttempts THEN BaseReputation
    ELSE ((info.successful_settlements - info.failed_settlements) * 100) \div Attempts(info)

\* get_reputation.
Reputation(info, t) ==
    IF info.blacklisted THEN 0
    ELSE IF \/ Attempts(info) < MinAttempts
            \/ t - info.last_activity > DecayPeriod
         THEN BaseReputation
         ELSE (info.successful_settlements * 100) \div Attempts(info)

\* Mutant: the whistleblower gets its own rounded percentage.
MutantShareRoundsEach(amount, r) ==
    LET cut(bps) == (amount * bps) \div 10000
    IN  CASE r = "user"          -> cut(UserBps)
          [] r = "treasury"      -> cut(TreasuryBps)
          [] r = "whistleblower" -> cut(10000 - UserBps - TreasuryBps)

\* _distribute_slash: the last recipient takes what rounding leaves.
Share(amount, r) ==
    LET cut(bps) == (amount * bps) \div 10000
    IN  CASE r = "user"          -> cut(UserBps)
          [] r = "treasury"      -> cut(TreasuryBps)
          [] r = "whistleblower" -> amount - cut(UserBps) - cut(TreasuryBps)

-----------------------------------------------------------------------------
(* The external functions, one action each. *)

\* Mutant: a blacklisted solver may top up its bond.
MutantDepositUnchecked(s, amount) ==
    /\ amount > 0
    /\ wallet[s] >= amount
    /\ wallet' = [wallet EXCEPT ![s] = @ - amount]
    /\ held' = [held EXCEPT ![s] = @ + amount]
    /\ solver_info' = [solver_info EXCEPT ![s] = Deposited(@, amount, now)]
    /\ UNCHANGED <<slash_history, minimum_bond, pending_minimum_bond, wired, receipts>>

deposit_bond(s, amount) ==
    /\ ~solver_info[s].blacklisted
    /\ amount > 0
    /\ wallet[s] >= amount                       \* the token's transfer_from
    /\ wallet' = [wallet EXCEPT ![s] = @ - amount]
    /\ held' = [held EXCEPT ![s] = @ + amount]
    /\ solver_info' = [solver_info EXCEPT ![s] = Deposited(@, amount, now)]
    /\ UNCHANGED <<slash_history, minimum_bond, pending_minimum_bond, wired, receipts>>

request_withdrawal(s, amount) ==
    /\ solver_info[s].bond_amount >= amount
    /\ ~solver_info[s].locked
    /\ amount > 0
    /\ solver_info' = [solver_info EXCEPT ![s] = WithdrawalRequested(@, amount, now)]
    /\ UNCHANGED <<slash_history, minimum_bond, pending_minimum_bond, wired,
                   wallet, held, receipts>>

withdraw(s, amount) ==
    /\ ~solver_info[s].locked
    /\ solver_info[s].withdrawal_request_amount >= amount
    /\ now >= solver_info[s].withdrawal_request_time + WithdrawalDelay
    /\ solver_info[s].bond_amount >= amount
    /\ wallet' = [wallet EXCEPT ![s] = @ + amount]
    /\ held' = [held EXCEPT ![s] = @ - amount]
    /\ solver_info' = [solver_info EXCEPT ![s] = Withdrawn(@, amount)]
    /\ UNCHANGED <<slash_history, minimum_bond, pending_minimum_bond, wired, receipts>>

\* Mutant: the history keeps the amount asked for, not the amount taken.
MutantHistoryOfRequests(s, amount, after) ==
    LET actual == ActualSlash(solver_info[s], amount)
    IN  /\ solver_info' = [solver_info EXCEPT ![s] = after]
        /\ slash_history' =
               [slash_history EXCEPT
                   ![s] = Append(@, [slash_amount |-> amount, timestamp |-> now])]
        /\ receipts' = [r \in Recipients |-> receipts[r] + Share(actual, r)]
        /\ held' = [held EXCEPT ![s] = @ - actual]

\* Everything slash changes, when the transaction it is part of leaves the
\* solver's record as "after".
SlashEffects(s, amount, after) ==
    LET actual == ActualSlash(solver_info[s], amount)
    IN  /\ solver_info' = [solver_info EXCEPT ![s] = after]
        /\ slash_history' =
               [slash_history EXCEPT
                   ![s] = Append(@, [slash_amount |-> actual, timestamp |-> now])]
        /\ receipts' = [r \in Recipients |-> receipts[r] + Share(actual, r)]
        /\ held' = [held EXCEPT ![s] = @ - (Share(actual, "user")
                                            + Share(actual, "treasury")
                                            + Share(actual, "whistleblower"))]

slash(s, amount) ==
    /\ wired # {}
    /\ amount > 0
    /\ Len(slash_history[s]) < MaxSlashEvents    \* bound
    /\ SlashEffects(s, amount, Slashed(solver_info[s], amount, now))
    /\ UNCHANGED <<minimum_bond, pending_minimum_bond, wired, wallet>>

RecordSettlement(s, after) ==
    /\ "settlement" \in wired
    /\ Attempts(solver_info[s]) < MaxAttempts    \* bound
    /\ solver_info' = [solver_info EXCEPT ![s] = after]
    /\ UNCHANGED <<slash_history, minimum_bond, pending_minimum_bond, wired,
                   wallet, held, receipts>>

record_settlement_success(s) ==
    RecordSettlement(s, SuccessRecorded(solver_info[s], now))

record_settlement_failure(s) ==
    RecordSettlement(s, FailureRecorded(solver_info[s], now))

\* Callable by the auction, the settlement contract and the admin.
set_locked(s, locked) ==
    /\ solver_info' = [solver_info EXCEPT ![s] = LockedAs(@, locked)]
    /\ UNCHANGED <<slash_history, minimum_bond, pending_minimum_bond, wired,
                   wallet, held, receipts>>

propose_minimum_bond(new_minimum_bond) ==
    /\ pending_minimum_bond' = [value |-> new_minimum_bond, time |-> now]
    /\ UNCHANGED <<solver_info, slash_history, minimum_bond, wired, wallet, held, receipts>>

apply_minimum_bond ==
    /\ pending_minimum_bond.time # 0
    /\ now >= pending_minimum_bond.time + MinimumBondDelay
    /\ minimum_bond' = pending_minimum_bond.value
    /\ pending_minimum_bond' = [value |-> 0, time |-> 0]
    /\ UNCHANGED <<solver_info, slash_history, wired, wallet, held, receipts>>

\* The admin stores the address of each calling contract once, after deployment.
set_contract(c) ==
    /\ c \notin wired
    /\ wired' = wired \cup {c}
    /\ UNCHANGED <<solver_info, slash_history, minimum_bond, pending_minimum_bond,
                   wallet, held, receipts>>

\* What an account with a bond does by itself.
SolverStep ==
    \E s \in Solvers, amount \in Amounts :
        \/ deposit_bond(s, amount)
        \/ request_withdrawal(s, amount)
        \/ withdraw(s, amount)

\* What the admin does: it may lock or unlock a solver as the callers may.
BondAdminStep ==
    \/ \E m \in MinimumBonds : propose_minimum_bond(m)
    \/ apply_minimum_bond
    \/ \E c \in Callers : set_contract(c)
    \/ \E s \in Solvers, locked \in BOOLEAN : set_locked(s, locked)

\* What the auction and the settlement contract may do, in any order.
CallerStep ==
    \E s \in Solvers :
        \/ \E amount \in Amounts : slash(s, amount)
        \/ record_settlement_success(s)
        \/ record_settlement_failure(s)
        \/ \E locked \in BOOLEAN : set_locked(s, locked)

BondTick == Tick /\ UNCHANGED bondVars

BondNext ==
    \/ (SolverStep \/ BondAdminStep \/ CallerStep) /\ UNCHANGED now
    \/ BondTick

BondSpecInit == ClockInit /\ BondInit

BondSpec == BondSpecInit /\ [][BondNext]_<<now, bondVars>>

-----------------------------------------------------------------------------
(* Properties. *)

\* The contract can always pay a solver's bond out of what that solver brought
\* in: no deposit of one solver ever finances a withdrawal or a slash of another
\* (deposit_bond, withdraw, slash with its cap, _distribute_slash with its
\* rounding).
BondBacked ==
    \A s \in Solvers : solver_info[s].bond_amount <= held[s]

\* Until a solver is blacklisted its bond is exactly what the contract holds for
\* it: rounding in _distribute_slash neither keeps nor overpays a token.
NothingStrandedBeforeBlacklist ==
    \A s \in Solvers :
        ~solver_info[s].blacklisted => solver_info[s].bond_amount = held[s]

\* A pending withdrawal request was made after the last slash and never asks for
\* more than the bond, whatever deposits and slashes came in between.
RequestAfterSlash ==
    \A s \in Solvers :
        LET info == solver_info[s]
        IN  /\ info.withdrawal_request_amount <= info.bond_amount
            /\ info.withdrawal_request_amount > 0 =>
                   info.withdrawal_request_time >= info.last_slash_timestamp

\* The inductive invariant behind the three above, stated for one solver's record,
\* the tokens held for it and the time, so that it can be carried through a
\* transaction of another contract step by step.
AccountInv(info, h, t) ==
    /\ info.bond_amount <= h
    /\ ~info.blacklisted => info.bond_amount = h
    /\ info.withdrawal_request_amount <= info.bond_amount
    /\ info.withdrawal_request_amount > 0 =>
           info.withdrawal_request_time >= info.last_slash_timestamp
    /\ info.last_slash_timestamp <= t

BondInv ==
    /\ now \in Nat
    /\ BondTypeOK
    /\ \A s \in Solvers : AccountInv(solver_info[s], held[s], now)

\* What was taken from a solver, as its history has it.
SlashedInTotal(s) ==
    SumFunction([k \in DOMAIN slash_history[s] |-> slash_history[s][k].slash_amount])

\* The recipients were paid exactly what the slash histories say was taken, over
\* all solvers: a slash is never distributed twice, in part, or unrecorded.
SlashesAccounted ==
    SumFunction(receipts) = SumFunction([s \in Solvers |-> SlashedInTotal(s)])

\* No token is made or lost: what a solver started with is in its wallet, is held for it
\* by the contract or was taken by the slashes its history lists, whichever contracts
\* called deposit_bond, withdraw and slash in whatever order.
TokensConserved ==
    \A s \in Solvers : wallet[s] + held[s] + SlashedInTotal(s) = Supply

\* Slashing takes precedence over withdrawal: a solver that is paid was not
\* slashed during the whole withdrawal delay before the payment.
PaidAfterQuietDelay ==
    \A s \in Solvers :
        wallet'[s] > wallet[s] =>
            now >= solver_info[s].last_slash_timestamp + WithdrawalDelay

SlashBeforeWithdraw == [][PaidAfterQuietDelay]_<<now, bondVars>>

\* A blacklisted solver stays blacklisted and its bond never grows again.
NoWayBack ==
    \A s \in Solvers :
        solver_info[s].blacklisted =>
            /\ solver_info'[s].blacklisted
            /\ solver_info'[s].bond_amount <= solver_info[s].bond_amount

BlacklistIsPermanent == [][NoWayBack]_<<now, bondVars>>
=============================================================================
