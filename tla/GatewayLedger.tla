--------------------------- MODULE GatewayLedger ---------------------------
(***************************************************************************)
(* backend/gateway/src/api.rs: the tables intents, user_nonces,            *)
(* pending_balances and batches, and the handlers that write them.  A      *)
(* handler is cut at its awaits: what it has read stays with it while      *)
(* other handlers run, and it may end at any of them (a database error,    *)
(* an error from the chain, a restart of the gateway).  What happens in    *)
(* one database transaction is one step.                                   *)
(*                                                                         *)
(* Validation, signatures and decryption reject a request before it        *)
(* reaches the tables; the requests below are those that pass.  The chain  *)
(* answers a transaction as it likes: send() returns before execution.     *)
(* Reports of the observer, the coordinator and the user's own client come *)
(* at any time and in any order, for the handlers check none of them.      *)
(***************************************************************************)
EXTENDS Naturals, FiniteSets, FiniteSetsExt

CONSTANTS Intents,
          UserOf, NonceOf, AssetOf, AmountOf,    \* of each intent
          TxHashes, NoTx,                        \* transaction hashes and NULL
          Handlers,                              \* bound: requests served at a time
          LastWindow                             \* bound: the last batch window

ASSUME LedgerAssumption ==
    /\ IsFiniteSet(Intents)
    /\ AmountOf \in [Intents -> Nat \ {0}]       \* amount 0 is rejected
    /\ NoTx \notin TxHashes
    /\ LastWindow \in Nat

BatchIds == 0..LastWindow

Account(i) == <<UserOf[i], AssetOf[i]>>
Accounts == {Account(i) : i \in Intents}
NonceRow(i) == <<UserOf[i], NonceOf[i]>>

VARIABLES
    window,            \* compute_current_batch_id()
    intents,           \* the row of each intent
    user_nonces,       \* the rows <<user, nonce>>
    pending_balances,  \* pending_amount of each account
    batches,           \* status of the row of each batch
    announced,         \* the NewIntent broadcasts, as <<intent, batch_id>>
    calls              \* what each handler in progress remembers

tables == <<intents, user_nonces, pending_balances, batches>>

ledgerVars == <<window, tables, announced, calls>>

Live == {"AWAITING_ONCHAIN", "PENDING", "AUCTION"}

Row == [status : Live \cup {"NONE", "ONCHAIN_FAILED", "CANCELED", "SETTLED"},
        batch_id : BatchIds, mode : {"GATEWAY", "SELF_COMMIT"},
        onchain_tx_hash : TxHashes \cup {NoTx}]

NoRow == [status |-> "NONE", batch_id |-> 0, mode |-> "GATEWAY", onchain_tx_hash |-> NoTx]

\* A handler at await "at", working on some intents, with the batch and hash it holds.
Call == [at : {"idle", "store", "commit", "record", "undo", "cancel", "reconcile",
               "stamp", "close", "fail", "settle"},
         on : SUBSET Intents, mode : {"GATEWAY", "SELF_COMMIT"},
         batch_id : BatchIds, next_batch : BatchIds, tx_hash : TxHashes \cup {NoTx}]

Idle == [at |-> "idle", on |-> {}, mode |-> "GATEWAY", batch_id |-> 0, next_batch |-> 0,
         tx_hash |-> NoTx]

LedgerTypeOK ==
    /\ window \in BatchIds
    /\ intents \in [Intents -> Row]
    /\ user_nonces \subseteq {NonceRow(i) : i \in Intents}
    /\ pending_balances \in [Accounts -> Nat]
    /\ batches \in [BatchIds -> {"NONE", "AUCTION", "FAILED", "SETTLED"}]
    /\ announced \subseteq Intents \X BatchIds
    /\ calls \in [Handlers -> Call]

LedgerInit ==
    /\ window = 0
    /\ intents = [i \in Intents |-> NoRow]
    /\ user_nonces = {}
    /\ pending_balances = [a \in Accounts |-> 0]
    /\ batches = [b \in BatchIds |-> "NONE"]
    /\ announced = {}
    /\ calls = [h \in Handlers |-> Idle]

-----------------------------------------------------------------------------
(* Starting, continuing and ending a handler. *)

Start(h, call) == calls[h].at = "idle" /\ calls' = [calls EXCEPT ![h] = call]

Continue(h, at) == calls' = [calls EXCEPT ![h].at = at]

End(h) == calls' = [calls EXCEPT ![h] = Idle]

\* The handler returns an error, or the gateway restarts.
Abandon(h) == calls[h].at # "idle" /\ End(h) /\ UNCHANGED <<window, tables, announced>>

\* The intent of a handler that works on one.
The(h) == CHOOSE i \in calls[h].on : TRUE

AmountIn(S, a) == MapThenSumSet(LAMBDA i : AmountOf[i], {i \in S : Account(i) = a})

\* Mutant: the difference is stored as it is.
MutantLessUnguarded(pending, amount) == pending - amount

\* GREATEST(pending_amount - amount, 0)
Less(pending, amount) == IF amount < pending THEN pending - amount ELSE 0

\* The pending balances without what the intents in S hold.
Released(S) == [a \in Accounts |-> Less(pending_balances[a], AmountIn(S, a))]

SetStatus(S, status) ==
    [i \in Intents |-> IF i \in S THEN [intents[i] EXCEPT !.status = status] ELSE intents[i]]

InBatch(b, statuses) ==
    {i \in Intents : intents[i].batch_id = b /\ intents[i].status \in statuses}

-----------------------------------------------------------------------------
(* submit_intent *)

submit_intent(h, i, mode) ==
    /\ Start(h, [Idle EXCEPT !.at = "store", !.on = {i}, !.mode = mode, !.batch_id = window])
    /\ UNCHANGED <<window, tables, announced>>

\* Mutant: the user's own transaction is not waited for.
MutantInitialStatus(mode) == "PENDING"

InitialStatus(mode) == IF mode = "GATEWAY" THEN "PENDING" ELSE "AWAITING_ONCHAIN"

\* The transaction is rolled back, and the request rejected, when the nonce or the
\* intent is there already: that is Abandon.
Store(h) ==
    LET i == The(h) IN
    /\ calls[h].at = "store"
    /\ NonceRow(i) \notin user_nonces
    /\ intents[i].status = "NONE"
    /\ user_nonces' = user_nonces \cup {NonceRow(i)}
    /\ pending_balances' = [pending_balances EXCEPT ![Account(i)] = @ + AmountOf[i]]
    /\ intents' = [intents EXCEPT ![i] =
           [status |-> InitialStatus(calls[h].mode), batch_id |-> calls[h].batch_id,
            mode |-> calls[h].mode, onchain_tx_hash |-> NoTx]]
    /\ IF calls[h].mode = "GATEWAY" THEN Continue(h, "commit") ELSE End(h)
    /\ UNCHANGED <<window, batches, announced>>

CommitAccepted(h, tx_hash) ==
    /\ calls[h].at = "commit"
    /\ calls' = [calls EXCEPT ![h].at = "record", ![h].tx_hash = tx_hash]
    /\ UNCHANGED <<window, tables, announced>>

CommitRejected(h) ==
    /\ calls[h].at = "commit"
    /\ Continue(h, "undo")
    /\ UNCHANGED <<window, tables, announced>>

\* The hash is written and the solvers are told of the intent.
RecordCommit(h) ==
    LET i == The(h) IN
    /\ calls[h].at = "record"
    /\ intents' = [intents EXCEPT ![i].onchain_tx_hash = calls[h].tx_hash]
    /\ announced' = announced \cup {<<i, calls[h].batch_id>>}
    /\ End(h)
    /\ UNCHANGED <<window, user_nonces, pending_balances, batches>>

\* Mutant: the balance stays held when the commitment fails.
MutantUndoKeepsBalance(h) ==
    LET i == The(h) IN
    /\ calls[h].at = "undo"
    /\ intents' = SetStatus({i}, "ONCHAIN_FAILED")
    /\ user_nonces' = user_nonces \ {NonceRow(i)}
    /\ End(h)
    /\ UNCHANGED <<window, pending_balances, batches, announced>>

\* Whatever has become of the row meanwhile.
UndoSubmit(h) ==
    LET i == The(h) IN
    /\ calls[h].at = "undo"
    /\ intents' = SetStatus({i}, "ONCHAIN_FAILED")
    /\ user_nonces' = user_nonces \ {NonceRow(i)}
    /\ pending_balances' = Released({i})
    /\ End(h)
    /\ UNCHANGED <<window, batches, announced>>

-----------------------------------------------------------------------------
(* cancel_intent and reconcile_onchain_intent *)

cancel_intent(h, i) ==
    /\ intents[i].status \in {"PENDING", "AUCTION"}
    /\ Start(h, [Idle EXCEPT !.at = "cancel", !.on = {i}])
    /\ UNCHANGED <<window, tables, announced>>

\* reconcile_onchain_intent with action CANCELED.
report_canceled(h, i) ==
    /\ intents[i].status \in Live \cup {"ONCHAIN_FAILED"}
    /\ Start(h, [Idle EXCEPT !.at = "cancel", !.on = {i}])
    /\ UNCHANGED <<window, tables, announced>>

\* The chain has taken the transaction, or the caller says so; the row is not read again.
MarkCanceled(h, tx_hash) ==
    LET i == The(h) IN
    /\ calls[h].at = "cancel"
    /\ intents' = [intents EXCEPT ![i].status = "CANCELED", ![i].onchain_tx_hash = tx_hash]
    /\ pending_balances' = Released({i})
    /\ End(h)
    /\ UNCHANGED <<window, user_nonces, batches, announced>>

\* reconcile_onchain_intent with action COMMITTED: a known hash is answered OK at once.
report_committed(h, i, tx_hash) ==
    /\ intents[i].onchain_tx_hash # tx_hash
    /\ intents[i].status \in {"AWAITING_ONCHAIN", "ONCHAIN_FAILED"}
    /\ Start(h, [Idle EXCEPT !.at = "reconcile", !.on = {i}, !.tx_hash = tx_hash,
                             !.batch_id = intents[i].batch_id, !.next_batch = window])
    /\ UNCHANGED <<window, tables, announced>>

\* The intent joins the current batch and is announced for the one it had.
Reconcile(h) ==
    LET i == The(h) IN
    /\ calls[h].at = "reconcile"
    /\ intents' = [intents EXCEPT ![i].status = "PENDING", ![i].batch_id = calls[h].next_batch,
                                  ![i].onchain_tx_hash = calls[h].tx_hash]
    /\ announced' = announced \cup {<<i, calls[h].batch_id>>}
    /\ End(h)
    /\ UNCHANGED <<window, user_nonces, pending_balances, batches>>

\* COMMITTED for an intent the gateway committed itself, whose hash it has not stored.
report_own_commit(h, i, tx_hash) ==
    /\ intents[i].mode = "GATEWAY"
    /\ intents[i].status \in {"PENDING", "AUCTION", "SETTLED"}
    /\ intents[i].onchain_tx_hash = NoTx
    /\ Start(h, [Idle EXCEPT !.at = "stamp", !.on = {i}, !.tx_hash = tx_hash])
    /\ UNCHANGED <<window, tables, announced>>

StampHash(h) ==
    LET i == The(h) IN
    /\ calls[h].at = "stamp"
    /\ intents' = [intents EXCEPT ![i].onchain_tx_hash = calls[h].tx_hash]
    /\ End(h)
    /\ UNCHANGED <<window, user_nonces, pending_balances, batches, announced>>

-----------------------------------------------------------------------------
(* close_batch, fail_batch and settle_batch.  The coordinator and the observer call *)
(* them for batches whose window is over.                                           *)

\* The batch and its intents are updated by two transactions.
close_batch(h, b) ==
    /\ Start(h, [Idle EXCEPT !.at = "close", !.batch_id = b])
    /\ batches' = [batches EXCEPT ![b] = "AUCTION"]
    /\ UNCHANGED <<window, intents, user_nonces, pending_balances, announced>>

CloseIntents(h) ==
    /\ calls[h].at = "close"
    /\ intents' = SetStatus(InBatch(calls[h].batch_id, {"PENDING"}), "AUCTION")
    /\ End(h)
    /\ UNCHANGED <<window, user_nonces, pending_balances, batches, announced>>

\* A batch without a row has nothing to update.
BatchStatus(b, status) ==
    IF batches[b] = "NONE" THEN batches ELSE [batches EXCEPT ![b] = status]

fail_batch(h, b) ==
    /\ Start(h, [Idle EXCEPT !.at = "fail", !.batch_id = b, !.next_batch = window])
    /\ UNCHANGED <<window, tables, announced>>

\* Mutant: the intents change batch and stay in auction.
MutantRequeueKeepsStatus(h) ==
    LET S == InBatch(calls[h].batch_id, {"AUCTION"})
    IN  /\ calls[h].at = "fail"
        /\ batches' = BatchStatus(calls[h].batch_id, "FAILED")
        /\ intents' = [i \in Intents |->
               IF i \in S THEN [intents[i] EXCEPT !.batch_id = calls[h].next_batch]
               ELSE intents[i]]
        /\ End(h)
        /\ UNCHANGED <<window, user_nonces, pending_balances, announced>>

Requeue(h) ==
    LET b == calls[h].batch_id
        S == InBatch(b, {"AUCTION"})
    IN  /\ calls[h].at = "fail"
        /\ batches' = BatchStatus(b, "FAILED")
        /\ intents' = [i \in Intents |->
               IF i \in S THEN [intents[i] EXCEPT !.status = "PENDING",
                                                 !.batch_id = calls[h].next_batch]
               ELSE intents[i]]
        /\ End(h)
        /\ UNCHANGED <<window, user_nonces, pending_balances, announced>>

settle_batch(h, b) ==
    /\ Start(h, [Idle EXCEPT !.at = "settle", !.batch_id = b,
                             !.on = InBatch(b, {"PENDING", "AUCTION"})])
    /\ UNCHANGED <<window, tables, announced>>

\* Released once for each intent the handler read, and once more by the sum over every
\* settled intent of the batch.
Settle(h) ==
    LET b    == calls[h].batch_id
        S    == InBatch(b, {"PENDING", "AUCTION"})
        sum  == S \cup InBatch(b, {"SETTLED"})
        once == Released(calls[h].on)
    IN  /\ calls[h].at = "settle"
        /\ batches' = BatchStatus(b, "SETTLED")
        /\ intents' = SetStatus(S, "SETTLED")
        /\ pending_balances' = [a \in Accounts |-> Less(once[a], AmountIn(sum, a))]
        /\ End(h)
        /\ UNCHANGED <<window, user_nonces, announced>>

-----------------------------------------------------------------------------
NextWindow ==
    /\ window < LastWindow                      \* bound
    /\ window' = window + 1
    /\ UNCHANGED <<tables, announced, calls>>

Request(h) ==
    \/ \E i \in Intents : \/ \E mode \in {"GATEWAY", "SELF_COMMIT"} : submit_intent(h, i, mode)
                          \/ cancel_intent(h, i)
                          \/ report_canceled(h, i)
                          \/ \E tx_hash \in TxHashes : \/ report_committed(h, i, tx_hash)
                                                      \/ report_own_commit(h, i, tx_hash)
    \/ \E b \in 0..(window - 1) : close_batch(h, b) \/ fail_batch(h, b) \/ settle_batch(h, b)

Resume(h) ==
    \/ Store(h) \/ CommitRejected(h) \/ RecordCommit(h) \/ UndoSubmit(h)
    \/ Reconcile(h) \/ StampHash(h)
    \/ CloseIntents(h) \/ Requeue(h) \/ Settle(h)
    \/ \E tx_hash \in TxHashes : CommitAccepted(h, tx_hash) \/ MarkCanceled(h, tx_hash)
    \/ Abandon(h)

LedgerNext == (\E h \in Handlers : Request(h) \/ Resume(h)) \/ NextWindow

LedgerSpec == LedgerInit /\ [][LedgerNext]_ledgerVars

-----------------------------------------------------------------------------
(* Properties. *)

LiveIntents == {i \in Intents : intents[i].status \in Live}

\* No balance is held for an order that is over: however handlers overtake each other,
\* fail half-way or act on what they read before, an account's pending amount is at most
\* what its live orders need.
NoHoldWithoutOrder ==
    \A a \in Accounts : pending_balances[a] <= AmountIn(LiveIntents, a)

\* Only orders whose commitment the chain has taken, or was reported to have taken, are
\* broadcast (the replay, in SolverFeed, asks for less); and an order the user commits is
\* not traded before.
OnlyCommittedReachSolvers ==
    /\ \A report \in announced : intents[report[1]].onchain_tx_hash # NoTx
    /\ \A i \in Intents :
          (intents[i].mode = "SELF_COMMIT" /\ intents[i].status \in {"PENDING", "AUCTION", "SETTLED"})
              => intents[i].onchain_tx_hash # NoTx

\* An order is in auction only in a batch that was closed.
AuctionedInClosedBatch ==
    \A i \in Intents : intents[i].status = "AUCTION" => batches[intents[i].batch_id] # "NONE"

\* docs/requirements/prd.md:1293: "When intent settles/cancels: pending_balance[user] -=
\* intent.amount": settling orders releases what these orders hold and no more.
SettlementReleasesOnce ==
    [][LET settled == {i \in Intents : intents[i].status # "SETTLED"
                                        /\ intents'[i].status = "SETTLED"}
       IN  settled # {} =>
              \A a \in Accounts :
                  pending_balances[a] <= pending_balances'[a] + AmountIn(settled, a)
      ]_ledgerVars
=============================================================================
