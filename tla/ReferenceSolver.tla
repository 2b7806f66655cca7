-------------------------- MODULE ReferenceSolver --------------------------
(***************************************************************************)
(* solver-reference/src: the loop of main.rs behind the feed.  It caches   *)
(* the orders it is given; when a batch closes it asks the gateway for the *)
(* orders of the batch, page by page, fetches those it does not have,      *)
(* prices every order from its inventory or the best quote, and sends one  *)
(* solution for all of them, and the settlement.  Whatever goes wrong, it  *)
(* leaves the batch and goes on; but no request has a timeout, and one     *)
(* that is never answered stops it.                                        *)
(***************************************************************************)
EXTENDS SolverFeed, Functions

CONSTANTS Amount, MinOutput,   \* of each order
          Inventory,           \* internal_inventory of the asset each order asks for
          Prices,              \* execution prices the endpoints may quote
          PriceUnit,           \* 1_000_000: the price of one for one
          MaxU128,             \* largest u128
          PageLimit            \* max_page_size of the gateway

ASSUME SolverAssumption ==
    /\ MaxU128 \in Nat
    /\ Amount \in [Intents -> 1..MaxU128]             \* amount 0 is rejected by the gateway
    /\ MinOutput \in [Intents -> 0..MaxU128]
    /\ Inventory \in [Intents -> 0..MaxU128]
    /\ Prices \subseteq 0..MaxU128
    /\ {PriceUnit, PageLimit} \subseteq Nat \ {0}

VARIABLES
    pending_intents,   \* the cached orders
    work               \* what the loop is doing: the batch, the orders listed for it, what
                       \* they are paid; history: an order left the list while it was read
                       \* (moved), those that came after the list was read (joined)

mainVars == <<pending_intents, work>>
solverVars == <<feedVars, mainVars>>

Idle == [at |-> "idle", batch |-> 0, ids |-> <<>>, pays |-> <<>>,
         moved |-> FALSE, joined |-> {}]

\* A plan: what each order of the batch is paid.
Plans == UNION {[S -> 0..MaxU128] : S \in SUBSET Intents}

SolverTypeOK ==
    /\ FeedTypeOK
    /\ pending_intents \subseteq Intents
    /\ work \in [at : {"idle", "order", "fetch", "fill", "submit", "settle", "hung"},
                 batch : BatchIds, ids : Seq(Intents), pays : Plans, moved : BOOLEAN,
                 joined : SUBSET Intents]

SolverInit ==
    /\ FeedInit
    /\ pending_intents = {}
    /\ work = Idle

LeaveBatch == work' = Idle

-----------------------------------------------------------------------------
(* The loop *)

TakeIntent ==
    /\ work.at = "idle"
    /\ intent_rx # <<>>
    /\ pending_intents' = pending_intents \cup {Head(intent_rx)}
    /\ intent_rx' = Tail(intent_rx)
    /\ UNCHANGED <<work, batch_rx, received>>

\* A batch that was announced without orders is left at once.
TakeBatch ==
    LET closed == Head(batch_rx) IN
    /\ work.at = "idle"
    /\ batch_rx # <<>>
    /\ batch_rx' = Tail(batch_rx)
    /\ work' = IF closed[2] = 0 THEN Idle ELSE [Idle EXCEPT !.at = "order", !.batch = closed[1]]
    /\ UNCHANGED <<pending_intents, intent_rx, received>>

\* The orders in the order of their sequence.
SequenceOf(S) ==
    CHOOSE list \in [1..Cardinality(S) -> S] :
        \A k \in DOMAIN list : \A j \in 1..k - 1 : list[j] < list[k]

\* list_batch_intents

PageFrom(offset) ==
    LET list == SequenceOf(Listed(work.batch))
    IN  SubSeq(list, offset + 1, IF offset + PageLimit < Len(list) THEN offset + PageLimit
                                 ELSE Len(list))

\* The next page, until one is empty.
FetchOrderPage ==
    LET page == PageFrom(Len(work.ids)) IN
    /\ work.at = "order"
    /\ page # <<>>
    /\ work' = [work EXCEPT !.ids = @ \o page]
    /\ UNCHANGED <<pending_intents, queueVars>>

Missing(cache) == {i \in Range(work.ids) : i \notin cache}

\* What is queued is cached before orders are looked up.
OrderIsRead ==
    LET cache == pending_intents \cup Range(intent_rx) IN
    /\ work.at = "order"
    /\ PageFrom(Len(work.ids)) = <<>>
    /\ intent_rx' = <<>>
    /\ pending_intents' = cache
    /\ work' = [work EXCEPT !.at = IF Missing(cache) = {} THEN "fill" ELSE "fetch"]
    /\ UNCHANGED <<batch_rx, received>>

\* fetch_solver_intents: the gateway gives those that are open, in whatever batch; one
\* that cannot be decrypted, and an error, leave the rest missing.
FetchMissing ==
    /\ work.at = "fetch"
    /\ \E found \in SUBSET {i \in Missing(pending_intents) : Open(i)} :
          pending_intents' = pending_intents \cup found
    /\ work' = [work EXCEPT !.at = "fill"]
    /\ UNCHANGED queueVars

-----------------------------------------------------------------------------
(* Prices *)

\* (min_output * 1_000_000) / amount, in a release build.  The demo mode, which fills every
\* order so, is that of an inventory large enough.
InternalPrice(i) == ((MinOutput[i] * PriceUnit) % (MaxU128 + 1)) \div Amount[i]

\* The same inventory for every order: nothing is taken from it.
InternalFills(i) == IF Inventory[i] >= MinOutput[i] THEN {InternalPrice(i)} ELSE {}

\* The best price of the endpoints that answer; there may be none.
BestRoutes == Prices

FillPrices(i) == IF InternalFills(i) # {} THEN InternalFills(i) ELSE BestRoutes

OutputAmount(i, price) ==
    LET output == (Amount[i] * price) \div PriceUnit
    IN  IF output > MinOutput[i] THEN output ELSE MinOutput[i]

\* Mutant: an order listed twice is found twice.
MutantWhole(cache) == work.ids # <<>> /\ Missing(cache) = {}

\* Every order of the batch is there, once, and there is one: an order leaves the cache
\* when it is found, so that it is not found again.
Whole(cache) ==
    /\ work.ids # <<>>
    /\ Missing(cache) = {}
    /\ Cardinality(Range(work.ids)) = Len(work.ids)

\* The orders are priced and the plan is built, if all of them are filled and no product
\* overflows; they leave the cache in any case.
FillBatch ==
    LET ids == Range(work.ids) IN
    /\ work.at = "fill"
    /\ pending_intents' = pending_intents \ ids
    /\ \/ /\ Whole(pending_intents)
          /\ \E price \in [ids \cap pending_intents -> Prices \cup UNION {InternalFills(i) : i \in ids}] :
                /\ \A i \in DOMAIN price : /\ price[i] \in FillPrices(i)
                                          /\ Amount[i] * price[i] <= MaxU128
                /\ work' = [work EXCEPT !.at = "submit",
                               !.pays = [i \in DOMAIN price |-> OutputAmount(i, price[i])]]
       \/ LeaveBatch
    /\ UNCHANGED queueVars

\* Building the proofs or sending the transaction may fail instead.
SubmitSolution ==
    /\ work.at = "submit"
    /\ work' = [work EXCEPT !.at = "settle"] \/ LeaveBatch
    /\ UNCHANGED <<pending_intents, queueVars>>

\* Its outcome is only logged.
SubmitSettlement ==
    /\ work.at = "settle"
    /\ LeaveBatch
    /\ UNCHANGED <<pending_intents, queueVars>>

Main ==
    \/ TakeIntent \/ TakeBatch \/ FetchOrderPage \/ OrderIsRead \/ FetchMissing
    \/ FillBatch \/ SubmitSolution \/ SubmitSettlement

MainStep == Main /\ UNCHANGED <<gatewayVars, linkVars, breaks>>

OrderFails ==
    /\ work.at = "order"
    /\ LeaveBatch
    /\ Break
    /\ UNCHANGED <<pending_intents, gatewayVars, linkVars, queueVars>>

\* The clients of the gateway, the endpoints, the prover and the node have no timeout: the
\* loop waits for ever, and what it held is of no use to anyone.
Unanswered ==
    /\ work.at \notin {"idle", "hung"}
    /\ work' = [Idle EXCEPT !.at = "hung"]
    /\ Break
    /\ UNCHANGED <<pending_intents, gatewayVars, linkVars, queueVars>>

\* The solver is started again with empty caches.
SolverCrash ==
    /\ Break
    /\ link' = "down"
    /\ channel' = <<>> /\ replay' = {} /\ wire' = <<>> /\ gap' = FALSE
    /\ intent_rx' = <<>> /\ batch_rx' = <<>> /\ received' = {}
    /\ pending_intents' = {} /\ LeaveBatch
    /\ UNCHANGED gatewayVars

\* A row that leaves the list shifts the offsets of the ones behind it.
Leaving == {i \in Listed(work.batch) : ~InList(rows'[i], work.batch)}

\* A row with an id computed before the batch closed, or put back into it.
Joining == {i \in Intents : InList(rows'[i], work.batch)} \ Listed(work.batch)

GatewayActs ==
    /\ GatewayStep
    /\ work' = IF work.at = "order" /\ Leaving # {} THEN [work EXCEPT !.moved = TRUE]
               ELSE IF work.at \in {"fetch", "fill", "submit"} /\ ~work.moved
               THEN [work EXCEPT !.joined = @ \cup (Joining \ Range(work.ids))]
               ELSE work
    /\ UNCHANGED pending_intents

LinkFails == (ReplayFails \/ LoseConnection) /\ UNCHANGED mainVars

SolverNext ==
    \/ GatewayActs
    \/ FeedWork /\ UNCHANGED mainVars
    \/ MainStep
    \/ LinkFails \/ OrderFails \/ Unanswered \/ SolverCrash

\* The tasks at both ends of the connection and the loop run; a request gets an answer or
\* an error unless it is Unanswered, which nothing mends but the end of the process.  A
\* connection without a peer is lost, as both ends write to it every 30 s or less.
\* Nobody has to place, cancel or announce an order, or to close a batch.
SolverFairness ==
    WF_solverVars(FeedWork /\ UNCHANGED mainVars) /\ WF_solverVars(MainStep)

SolverSpec == SolverInit /\ [][SolverNext]_solverVars /\ SolverFairness

-----------------------------------------------------------------------------
(* Properties. *)

\* However the orders of a batch reached the solver, by broadcast, replay or request, the
\* solution it sends pays every order the gateway has in the batch, and no less than the
\* order asks for, at any quote and although products of u128 may wrap: else the contract
\* rejects the plan and slashes the solver.  Orders may join the closed batch while its
\* list is read page by page, even in front of what was read: one is then read, or another
\* is read twice and the batch is left.  The solver is excused of the orders that join when
\* the list is read, and by an order that leaves the list meanwhile and shifts the others.
BidPaysEveryOrder ==
    [][(work.at = "submit" /\ work'.at = "settle" /\ ~work.moved) =>
             /\ Listed(work.batch) \ work.joined \subseteq DOMAIN work.pays
             /\ \A i \in DOMAIN work.pays : work.pays[i] >= MinOutput[i]]_solverVars

\* The orders that were announced and have not reached the solver.
Waiting == {i \in announced : Open(i) /\ i \notin received}

\* What is announced to a connected solver gets to it, unless the connection lags or breaks,
\* or a request of the loop is never answered: again and again no open order is waiting.
\* Full queues cannot block the way for good, nor can a batch that is being worked on.
AnnouncedReachesSolver ==
    []<>(Waiting = {} \/ gap \/ link # "live" \/ work.at = "hung")
=============================================================================
