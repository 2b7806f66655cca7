-------------------------- MODULE BatchSettlement --------------------------
(***************************************************************************)
(* contracts/src/batch_settlement.cairo together with the three contracts  *)
(* it works on: settle_batch reads the auction's winner and its first      *)
(* commitment, checks the intents of the registry's batch, and either      *)
(* slashes and unlocks the winner or moves the tokens, ends the intents    *)
(* and unlocks it.  A call that reverts, and one that returns false        *)
(* without a change (an expired intent, a rejected or missing proof), is   *)
(* no step.                                                                *)
(*                                                                         *)
(* Of an execution plan only what each user is given matters here; that    *)
(* its payers have the tokens is up to them, and when they do not the call *)
(* reverts.                                                                *)
(***************************************************************************)
EXTENDS BatchAuction, IntentRegistry

CONSTANTS MinOutput,         \* min_output of each intent
          Gives,             \* Gives[plan][i]: what the plan transfers to the user
                             \* of intent i in the intent's asset_out
          ConstraintBps,     \* slash_bps_constraint
          MismatchBps        \* slash_bps_commitment_mismatch

NotExecuted == "not executed"

ASSUME SettlementAssumption ==
    /\ NotExecuted \notin Plans
    /\ Batches \subseteq BatchIds
    /\ \A b \in Batches : CloseTime[b] = WindowEnd(b)   \* closed_batch_at_timestamp
    /\ MinOutput \in [Intents -> Nat]
    /\ Gives \in [Plans -> [Intents -> Nat]]
    /\ \A plan \in Plans, i, j \in Intents :            \* sums over one account agree
          (IntentUser[i] = IntentUser[j] /\ AssetOut[i] = AssetOut[j])
              => Gives[plan][i] = Gives[plan][j]
    /\ ConstraintBps \in 0..10000 /\ MismatchBps \in 0..10000

VARIABLES settlements,       \* the plan a batch was settled with, or NotExecuted
          slashed_for,       \* the <<batch, solver>> pairs settle_batch slashed
          admin_locked       \* history: solvers the admin locked, when nothing else
                             \* had, and no call has unlocked since

settlementVars == <<settlements, slashed_for>>

systemVars == <<now, bondVars, auctionVars, registryVars, settlementVars, admin_locked>>

SlashReport == [batch : Batches, solver : Solvers,
                reason : {"COMMITMENT_MISMATCH", "CONSTRAINT_VIOLATION"}]

SettlementTypeOK ==
    /\ BondTypeOK
    /\ AuctionTypeOK
    /\ RegistryTypeOK
    /\ settlements \in [Batches -> Plans \cup {NotExecuted}]
    /\ slashed_for \subseteq SlashReport
    /\ admin_locked \subseteq Solvers

\* The contracts as scripts/deploy_contracts.sh and scripts/whitelist_tokens.sh leave
\* them: every contract knows its callers and the assets are whitelisted.
SettlementInit ==
    /\ ClockInit /\ BondInitWith(Callers) /\ AuctionInit
    /\ RegistryInitWith(TRUE) /\ whitelisted = Assets
    /\ settlements = [b \in Batches |-> NotExecuted]
    /\ slashed_for = {}
    /\ admin_locked = {}

-----------------------------------------------------------------------------
BatchIntents(b) == {batch_intents[b][k] : k \in DOMAIN batch_intents[b]}

\* _get_solution_commitment: the first solution of the winner, not the winning one.
Commitment(b) ==
    LET mine == {k \in DOMAIN solutions[b] : solutions[b][k].solver = batches[b].winning_solver}
    IN  solutions[b][CHOOSE k \in mine : \A j \in mine : k <= j].solution_commitment

\* Mutant: an intent is good for settlement after its deadline.
MutantDeadlineForgotten(i, plan) == status[i] = "PENDING" /\ Gives[plan][i] >= MinOutput[i]

\* Mutant: the status of the intent is not looked at.
MutantStatusForgotten(i, plan) == now <= Deadline[i] /\ Gives[plan][i] >= MinOutput[i]

\* Mutant: what the user gets is not compared.
MutantOutputForgotten(i, plan) == status[i] = "PENDING" /\ now <= Deadline[i]

IntentHonored(i, plan) ==
    /\ status[i] = "PENDING"
    /\ now <= Deadline[i]
    /\ Gives[plan][i] >= MinOutput[i]

\* Mutant: giving exactly the minimum is a violation.
MutantExactIsViolation(b, plan) ==
    \E k \in DOMAIN batch_intents[b] :
        LET i == batch_intents[b][k]
        IN  status[i] = "PENDING" /\ now <= Deadline[i] /\ Gives[plan][i] <= MinOutput[i]

\* The loop over the intents reaches one that gets too little, and nothing made it
\* revert or give up before.
FindsConstraintViolation(b, plan) ==
    \E k \in DOMAIN batch_intents[b] :
        LET i == batch_intents[b][k]
        IN  /\ status[i] = "PENDING" /\ now <= Deadline[i]
            /\ Gives[plan][i] < MinOutput[i]
            /\ \A j \in 1..(k - 1) : IntentHonored(batch_intents[b][j], plan)

\* _slash_solver's amount; a slash of nothing reverts the whole call.
SlashAmount(s, bps) == (solver_info[s].bond_amount * bps) \div 10000

\* Slash, record the failure and unlock; the batch itself stays as it is.
PunishWinner(b, s, bps, reason) ==
    LET amount == SlashAmount(s, bps)
        info   == Slashed(solver_info[s], amount, now)
    IN  /\ amount > 0
        /\ Attempts(solver_info[s]) + 2 <= MaxAttempts    \* bound
        /\ Len(slash_history[s]) < MaxSlashEvents         \* bound
        /\ SlashEffects(s, amount, LockedAs(FailureRecorded(info, now), FALSE))
        /\ slashed_for' = slashed_for \cup {[batch |-> b, solver |-> s, reason |-> reason]}
        /\ UNCHANGED <<settlements, auctionVars, registryVars, minimum_bond,
                       pending_minimum_bond, wired, wallet>>

\* Mutant: the batch is not marked as executed.
MutantForgetsExecution(b, s, plan) ==
    /\ settlementSet
    /\ Attempts(solver_info[s]) < MaxAttempts
    /\ status' = [i \in Intents |-> IF i \in BatchIntents(b) THEN "SETTLED" ELSE status[i]]
    /\ solver_info' = [solver_info EXCEPT ![s] = LockedAs(SuccessRecorded(@, now), FALSE)]
    /\ UNCHANGED <<settlements, slashed_for, auctionVars, user_nonces, batch_intents, paused,
                   settlementSet, whitelisted, slash_history, minimum_bond,
                   pending_minimum_bond, wired, wallet, held, receipts>>

\* Mutant: a successful winner stays locked.
MutantStaysLocked(b, s, plan) ==
    /\ settlementSet
    /\ Attempts(solver_info[s]) < MaxAttempts
    /\ status' = [i \in Intents |-> IF i \in BatchIntents(b) THEN "SETTLED" ELSE status[i]]
    /\ solver_info' = [solver_info EXCEPT ![s] = SuccessRecorded(@, now)]
    /\ settlements' = [settlements EXCEPT ![b] = plan]
    /\ UNCHANGED <<slashed_for, auctionVars, user_nonces, batch_intents, paused,
                   settlementSet, whitelisted, slash_history, minimum_bond,
                   pending_minimum_bond, wired, wallet, held, receipts>>

ExecutePlan(b, s, plan) ==
    /\ settlementSet                                      \* else mark_settled reverts
    /\ Attempts(solver_info[s]) < MaxAttempts             \* bound
    /\ status' = [i \in Intents |-> IF i \in BatchIntents(b) THEN "SETTLED" ELSE status[i]]
    /\ solver_info' = [solver_info EXCEPT ![s] = LockedAs(SuccessRecorded(@, now), FALSE)]
    /\ settlements' = [settlements EXCEPT ![b] = plan]
    /\ UNCHANGED <<slashed_for, auctionVars, user_nonces, batch_intents, paused,
                   settlementSet, whitelisted, slash_history, minimum_bond,
                   pending_minimum_bond, wired, wallet, held, receipts>>

\* Called by the winner s or, for it, by the coordinator.
settle_batch(b, s, plan) ==
    /\ s = batches[b].winning_solver
    /\ settlements[b] = NotExecuted
    /\ "settlement" \in wired
    /\ \/ plan # Commitment(b) /\ PunishWinner(b, s, MismatchBps, "COMMITMENT_MISMATCH")
       \/ /\ plan = Commitment(b)
          /\ FindsConstraintViolation(b, plan)
          /\ PunishWinner(b, s, ConstraintBps, "CONSTRAINT_VIOLATION")
       \/ /\ plan = Commitment(b)
          /\ \A i \in BatchIntents(b) : IntentHonored(i, plan)
          /\ ExecutePlan(b, s, plan)

SettlementStep ==
    \E b \in Batches, s \in Solvers, plan \in Plans : settle_batch(b, s, plan)

\* The locks that are the admin's own after a settlement, which may lift them, and after
\* a call of the admin.
LocksLeft == {s \in admin_locked : solver_info'[s].locked}

LocksOfAdmin == {s \in Solvers : /\ solver_info'[s].locked
                                 /\ solver_info[s].locked => s \in admin_locked}

SettlementNext ==
    \/ SettlementStep /\ admin_locked' = LocksLeft /\ UNCHANGED now
    \/ AuctionStep /\ UNCHANGED <<registryVars, settlementVars, admin_locked, now>>
    \/ SolverStep /\ UNCHANGED <<auctionVars, registryVars, settlementVars, admin_locked, now>>
    \/ /\ BondAdminStep
       /\ admin_locked' = LocksOfAdmin
       /\ UNCHANGED <<auctionVars, registryVars, settlementVars, now>>
    \/ (RegistryUserStep \/ RegistryAdminStep)
          /\ UNCHANGED <<bondVars, auctionVars, settlementVars, admin_locked, now>>
    \/ Tick /\ UNCHANGED <<bondVars, auctionVars, registryVars, settlementVars, admin_locked>>

SettlementSpec == SettlementInit /\ [][SettlementNext]_systemVars

-----------------------------------------------------------------------------
(* Properties. *)

\* All or nothing: when a batch has been executed every intent of it is SETTLED, and
\* an intent becomes SETTLED in no other way.
SettledTogether ==
    \A i \in Intents :
        status[i] = "SETTLED" <=>
            \E b \in Batches : settlements[b] # NotExecuted /\ i \in BatchIntents(b)

\* A settled intent was given its min_output by the plan its batch was settled with.
MinOutputMet ==
    \A b \in Batches :
        settlements[b] # NotExecuted =>
            \A i \in BatchIntents(b) : Gives[settlements[b]][i] >= MinOutput[i]

\* No intent is settled after its deadline or out of any status but PENDING, and an
\* executed batch is never executed again.
InTimeAndOnce ==
    /\ \A i \in Intents : (status'[i] = "SETTLED" /\ status[i] # "SETTLED")
                              => status[i] = "PENDING" /\ now <= Deadline[i]
    /\ \A b \in Batches : settlements[b] # NotExecuted => settlements'[b] = settlements[b]

SettledInTime == [][InTimeAndOnce]_systemVars

\* From the first solution on the batch a solver bids for cannot change.
BidBatchUnchanged ==
    \A b \in Batches : solutions[b] # <<>> => batch_intents'[b] = batch_intents[b]

BidsSeeTheWholeBatch == [][BidBatchUnchanged]_systemVars

\* A locked bond has a reason: the admin locked it, or its owner won a batch that is not
\* executed.  No sequence of decisions, slashes and settlements leaves a bond that its
\* owner can never ask back (finalize_auction locks, settle_batch unlocks).
LockHasReason ==
    \A s \in Solvers :
        solver_info[s].locked =>
            \/ s \in admin_locked
            \/ \E b \in Batches : batches[b].winning_solver = s /\ settlements[b] = NotExecuted

\* The solver committed once to the batch, to a plan that honors all its intents.
Faithful(s, b) ==
    /\ \A j, k \in DOMAIN solutions[b] :
          (solutions[b][j].solver = s /\ solutions[b][k].solver = s) => j = k
    /\ \A k \in DOMAIN solutions[b] : solutions[b][k].solver = s =>
          \A i \in BatchIntents(b) :
              Gives[solutions[b][k].solution_commitment][i] >= MinOutput[i]

\* A faithful solver is not slashed for its plan: the intents it is measured by are
\* the ones it could see when it committed.
FaithfulNotSlashed ==
    \A report \in slashed_for :
        report.reason = "CONSTRAINT_VIOLATION" => ~Faithful(report.solver, report.batch)

\* The contracts implement the life cycle of BatchLifecycle: submit_solution and
\* finalize_auction keep to their windows whoever calls them when, and what settle_batch
\* executes is a batch that was won (batch_auction.cairo:264-266, 312-320;
\* batch_settlement.cairo:303-310).
BatchLife == INSTANCE BatchLifecycle WITH
    Closes   <- CloseTime,
    time     <- now,
    fate     <- [b \in Batches |-> batches[b].status],
    bid      <- {b \in Batches : solutions[b] # <<>>},
    executed <- {b \in Batches : settlements[b] # NotExecuted}

BatchLifecycleSpec == BatchLife!Spec

-----------------------------------------------------------------------------
(* What the documents say and the contracts do not. *)

\* docs/requirements/prd.md:1824: "Solver cannot withdraw while settlement pending",
\* with locked as "true if solver has pending settlements" (1779).
LockedWhilePending ==
    \A b \in Batches, s \in Solvers :
        (/\ batches[b].winning_solver = s /\ settlements[b] = NotExecuted
         /\ \A report \in slashed_for : report.batch # b)
        => solver_info[s].locked

\* docs/how-it-works.mdx:53: "The winning solver's solution is verified and executed
\* on-chain": what is executed is the solution that won.
WinningPlanExecuted ==
    \A b \in Batches : settlements[b] \in {NotExecuted, batches[b].winning_commitment}

\* docs/solvers/submitting-solutions.mdx:60: "For each order, your plan must transfer at
\* least min_output of asset_out to the user's address": two orders of a user for one
\* asset are given the sum of their minima.
EveryOrderFilled ==
    \A b \in Batches : settlements[b] # NotExecuted =>
        \A i, j \in BatchIntents(b) :
            (i # j /\ IntentUser[i] = IntentUser[j] /\ AssetOut[i] = AssetOut[j])
                => Gives[settlements[b]][i] >= MinOutput[i] + MinOutput[j]
=============================================================================
