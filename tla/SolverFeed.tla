----------------------------- MODULE SolverFeed -----------------------------
(***************************************************************************)
(* How a solver learns of orders: backend/gateway/src/websocket.rs, the    *)
(* tasks that serve one solver's websocket, and the other end of it,       *)
(* solver-reference/src/intent_monitor.rs.                                 *)
(*                                                                         *)
(* What handlers of the gateway announce goes into a broadcast channel     *)
(* that drops its oldest messages for a receiver that is too slow.  A      *)
(* connection subscribes when it opens and forwards orders only once the   *)
(* solver has said hello; then the orders of the database are replayed     *)
(* beside the broadcasts.  GatewayLedger has the handlers' own detail;     *)
(* here a row is stored, announced, over, and perhaps pending again.       *)
(*                                                                         *)
(* A handler computes the id of the open batch, and writes it into rows    *)
(* after some awaits: by then any number of batches may have closed, and   *)
(* the id may be any.                                                      *)
(***************************************************************************)
EXTENDS Naturals, Sequences, FiniteSets

CONSTANTS Intents,
          Capacity,      \* websocket_channel_capacity
          WireSize,      \* what a connection takes before the sender has to wait
          QueueSize,     \* length of the solver's two queues (1000 and 100 in the code)
          LastBatch,     \* bound: the last batch that closes
          MaxBreaks      \* bound: lost connections, failed or unanswered requests, crashes of
                         \* the solver, failed batches and commitments found late

ASSUME FeedAssumption ==
    /\ {Capacity, WireSize, QueueSize} \subseteq Nat \ {0}
    /\ {LastBatch, MaxBreaks} \subseteq Nat
    /\ Intents \subseteq Nat                          \* in the order of their sequence
    /\ IsFiniteSet(Intents)

BatchIds == 0..LastBatch + 1

VARIABLES
    window,       \* the batch that closes next
    rows,         \* status and batch of each order in the gateway's database
    announced,    \* history: the orders broadcast since they were last stored or reconciled
    channel,      \* the broadcasts this connection has not taken
    link,         \* the connection: "down", "open", "keyed" or "live"
    replay,       \* orders read for the replay and not yet forwarded
    gap,          \* history: this connection lagged, or its replay failed
    wire,         \* what is on its way to the solver
    intent_rx,    \* the solver's queue of orders
    batch_rx,     \* the solver's queue of closed batches
    received,     \* history: the orders that got into intent_rx since the solver started
    breaks        \* history: the number of breaks

gatewayVars == <<window, rows, announced>>
linkVars == <<channel, link, replay, gap, wire>>
queueVars == <<intent_rx, batch_rx, received>>
feedVars == <<gatewayVars, linkVars, queueVars, breaks>>

\* A NewIntent or a BatchClosed, with the intent_count the coordinator gave.
Message == [type : {"new_intent"}, intent : Intents]
             \cup [type : {"batch_closed"}, batch : BatchIds, count : {0, 1}]

NewIntent(i) == [type |-> "new_intent", intent |-> i]

FeedTypeOK ==
    /\ window \in BatchIds
    /\ rows \in [Intents -> [status : {"NONE", "PENDING", "AUCTION", "OVER"}, batch : BatchIds]]
    /\ announced \subseteq Intents
    /\ channel \in Seq(Message) /\ Len(channel) <= Capacity
    /\ link \in {"down", "open", "keyed", "live"}
    /\ replay \subseteq Intents
    /\ gap \in BOOLEAN
    /\ wire \in Seq(Message) /\ Len(wire) <= WireSize
    /\ intent_rx \in Seq(Intents) /\ Len(intent_rx) <= QueueSize
    /\ batch_rx \in Seq(BatchIds \X {0, 1}) /\ Len(batch_rx) <= QueueSize
    /\ received \subseteq Intents
    /\ breaks \in 0..MaxBreaks

FeedInit ==
    /\ window = 0
    /\ rows = [i \in Intents |-> [status |-> "NONE", batch |-> 0]]
    /\ announced = {}
    /\ channel = <<>> /\ link = "down" /\ replay = {} /\ gap = FALSE /\ wire = <<>>
    /\ intent_rx = <<>> /\ batch_rx = <<>> /\ received = {}
    /\ breaks = 0

InList(row, b) == row.batch = b /\ row.status \in {"PENDING", "AUCTION"}

Listed(b) == {i \in Intents : InList(rows[i], b)}

Open(i) == rows[i].status \in {"PENDING", "AUCTION"}

Break == breaks < MaxBreaks /\ breaks' = breaks + 1

-----------------------------------------------------------------------------
(* The gateway's handlers *)

\* Without a receiver the broadcast is lost; a slow receiver loses the oldest.
Broadcast(message) ==
    /\ channel' = IF link = "down" THEN channel
                  ELSE IF Len(channel) = Capacity THEN Append(Tail(channel), message)
                  ELSE Append(channel, message)
    /\ gap' = (gap \/ (link # "down" /\ Len(channel) = Capacity))
    /\ UNCHANGED <<link, replay, wire>>

\* submit_intent: the batch was computed before the nonce and the balance were checked.
StoreIntent(i, b) ==
    /\ rows[i].status = "NONE"
    /\ rows' = [rows EXCEPT ![i] = [status |-> "PENDING", batch |-> b]]
    /\ UNCHANGED <<window, announced, linkVars, breaks>>

\* reconcile_intent_onchain: a commitment found on chain makes an order pending that was
\* read as waiting for it, or as failed; the write looks at nothing that came in between.
\* Its broadcast is an AnnounceIntent of its own.
Reconcile(i, b) ==
    /\ rows[i].status # "NONE"
    /\ rows' = [rows EXCEPT ![i] = [status |-> "PENDING", batch |-> b]]
    /\ announced' = announced \ {i}
    /\ Break
    /\ UNCHANGED <<window, linkVars>>

\* The commitment was sent: broadcast_new_intent.
AnnounceIntent(i) ==
    /\ rows[i].status # "NONE"
    /\ i \notin announced
    /\ announced' = announced \cup {i}
    /\ Broadcast(NewIntent(i))
    /\ UNCHANGED <<window, rows, breaks>>

\* Canceled, failed on chain, settled: no query gives it, unless a Reconcile brings it back.
EndIntent(i) ==
    /\ Open(i)
    /\ rows' = [rows EXCEPT ![i] = [status |-> "OVER", batch |-> 0]]
    /\ UNCHANGED <<window, announced, linkVars, breaks>>

\* close_batch: the coordinator's count is 0 when its query failed.
CloseBatch(count) ==
    /\ window <= LastBatch                            \* bound
    /\ window' = window + 1
    /\ rows' = [i \in Intents |->
           IF i \in Listed(window) THEN [rows[i] EXCEPT !.status = "AUCTION"] ELSE rows[i]]
    /\ Broadcast([type |-> "batch_closed", batch |-> window, count |-> count])
    /\ UNCHANGED <<announced, breaks>>

\* fail_batch: its orders join the batch computed before the transaction.
RequeueBatch(b, requeue) ==
    /\ \E i \in Listed(b) : rows[i].status = "AUCTION"
    /\ rows' = [i \in Intents |->
           IF i \in Listed(b) /\ rows[i].status = "AUCTION"
           THEN [status |-> "PENDING", batch |-> requeue] ELSE rows[i]]
    /\ Break
    /\ UNCHANGED <<window, announced, linkVars>>

GatewayStep ==
    /\ \/ \E i \in Intents, b \in BatchIds : StoreIntent(i, b) \/ Reconcile(i, b)
       \/ \E i \in Intents : AnnounceIntent(i) \/ EndIntent(i)
       \/ \E count \in {0, 1} : CloseBatch(count)
       \/ \E b, requeue \in BatchIds : RequeueBatch(b, requeue)
    /\ UNCHANGED queueVars

-----------------------------------------------------------------------------
(* handle_solver_socket *)

\* The solver connects (again), and says hello; the socket subscribes at once.
Connect ==
    /\ link = "down"
    /\ link' = "open"
    /\ UNCHANGED <<channel, replay, gap, wire, gatewayVars, queueVars, breaks>>

\* The key is stored before the database is queried.
RegisterKey ==
    /\ link = "open"
    /\ link' = "keyed"
    /\ UNCHANGED <<channel, replay, gap, wire, gatewayVars, queueVars, breaks>>

\* Mutant: only the orders that wait for their batch to close.
MutantReplayed == {i \in Intents : rows[i].status = "PENDING"}

Replayed == {i \in Intents : Open(i)}

replay_pending_intents ==
    /\ link = "keyed"
    /\ link' = "live"
    /\ replay' = Replayed
    /\ UNCHANGED <<channel, gap, wire, gatewayVars, queueVars, breaks>>

ReplayFails ==
    /\ link = "keyed"
    /\ link' = "live"
    /\ gap' = TRUE
    /\ Break
    /\ UNCHANGED <<channel, replay, wire, gatewayVars, queueVars>>

\* The task that sends takes what is ready of the replay and the broadcasts, and waits for
\* the connection to take it.
ForwardReplay ==
    /\ Len(wire) < WireSize
    /\ \E i \in replay : replay' = replay \ {i} /\ wire' = Append(wire, NewIntent(i))
    /\ UNCHANGED <<channel, link, gap, gatewayVars, queueVars, breaks>>

\* An order is dropped while the key is unknown.
ForwardBroadcast ==
    LET message == Head(channel) IN
    /\ channel # <<>> /\ Len(wire) < WireSize
    /\ channel' = Tail(channel)
    /\ wire' = IF message.type = "new_intent" /\ link = "open" THEN wire
               ELSE Append(wire, message)
    /\ UNCHANGED <<link, replay, gap, gatewayVars, queueVars, breaks>>

LoseConnection ==
    /\ link # "down"
    /\ link' = "down"
    /\ channel' = <<>> /\ replay' = {} /\ wire' = <<>> /\ gap' = FALSE
    /\ Break
    /\ UNCHANGED <<gatewayVars, queueVars>>

-----------------------------------------------------------------------------
(* handle_gateway_message: a full queue makes the monitor wait *)

\* Mutant: an order is dropped when the queue is full.
MutantReceiveIntent ==
    LET i == Head(wire).intent IN
    /\ wire # <<>> /\ Head(wire).type = "new_intent"
    /\ wire' = Tail(wire)
    /\ IF Len(intent_rx) < QueueSize
       THEN intent_rx' = Append(intent_rx, i) /\ received' = received \cup {i}
       ELSE UNCHANGED <<intent_rx, received>>
    /\ UNCHANGED <<batch_rx, channel, link, replay, gap, gatewayVars, breaks>>

ReceiveIntent ==
    LET i == Head(wire).intent IN
    /\ wire # <<>> /\ Head(wire).type = "new_intent"
    /\ Len(intent_rx) < QueueSize
    /\ wire' = Tail(wire)
    /\ intent_rx' = Append(intent_rx, i)
    /\ received' = received \cup {i}
    /\ UNCHANGED <<batch_rx, channel, link, replay, gap, gatewayVars, breaks>>

ReceiveClose ==
    /\ wire # <<>> /\ Head(wire).type = "batch_closed"
    /\ Len(batch_rx) < QueueSize
    /\ wire' = Tail(wire)
    /\ batch_rx' = Append(batch_rx, <<Head(wire).batch, Head(wire).count>>)
    /\ UNCHANGED <<intent_rx, received, channel, link, replay, gap, gatewayVars, breaks>>

FeedWork ==
    \/ Connect \/ RegisterKey \/ replay_pending_intents
    \/ ForwardReplay \/ ForwardBroadcast
    \/ ReceiveIntent \/ ReceiveClose

-----------------------------------------------------------------------------
(* Properties. *)

\* Between the broadcasts and the replay no order is forgotten: when everything sent to a
\* connected solver has arrived, and it neither lagged nor missed its replay, it has been
\* given every order that was announced and is still open, those announced while it was
\* away or before it had said hello, and those that had failed before, included.
NoOrderForgotten ==
    (link = "live" /\ ~gap /\ channel = <<>> /\ replay = {} /\ wire = <<>>)
        => {i \in announced : Open(i)} \subseteq received
=============================================================================
