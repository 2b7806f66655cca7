------------------------- MODULE GatewayLedgerProofs -------------------------
(***************************************************************************)
(* Proofs about GatewayLedger for any number of orders and handlers: what  *)
(* the rows of the orders and the batches say, and what the accounts hold. *)
(***************************************************************************)
EXTENDS GatewayLedger, SumTheorems

Hash == TxHashes \cup {NoTx}
BatchRow == {"NONE", "AUCTION", "FAILED", "SETTLED"}

\* LedgerTypeOK without nonces and balances.
RowTypes ==
    /\ window \in BatchIds
    /\ intents \in [Intents -> Row]
    /\ batches \in [BatchIds -> BatchRow]
    /\ announced \subseteq Intents \X BatchIds
    /\ calls \in [Handlers -> Call]

\* The awaits of handlers that work on one row which exists.
OnRow == {"commit", "record", "undo", "cancel", "reconcile", "stamp"}

\* What a handler remembers stays true while others run.
KnowsRows(call) ==
    /\ call.at \in OnRow \cup {"store"} => \E i \in Intents : call.on = {i}
    /\ call.at \in OnRow => \A i \in call.on : intents[i].status # "NONE"
    /\ call.at \in {"record", "reconcile", "stamp"} => call.tx_hash # NoTx
    /\ call.at = "close" => batches[call.batch_id] # "NONE"

UnstoredIsBlank == \A i \in Intents : intents[i].status = "NONE" => intents[i].onchain_tx_hash = NoTx

LedgerInv ==
    /\ RowTypes
    /\ \A h \in Handlers : KnowsRows(calls[h])
    /\ UnstoredIsBlank
    /\ OnlyCommittedReachSolvers
    /\ AuctionedInClosedBatch

-----------------------------------------------------------------------------
LEMMA IdleIsACall == Idle \in Call /\ Idle.at = "idle" /\ Idle.on = {} /\ Idle.tx_hash = NoTx
BY LedgerAssumption DEF Idle, Call, BatchIds, LedgerAssumption

LEMMA NoRowIsARow == NoRow \in Row /\ NoRow.status = "NONE" /\ NoRow.onchain_tx_hash = NoTx
BY LedgerAssumption DEF NoRow, Row, Live, BatchIds, LedgerAssumption

LEMMA LedgerInitInv == LedgerInit => LedgerInv
<1> SUFFICES ASSUME LedgerInit PROVE LedgerInv
  OBVIOUS
<1>1. RowTypes
  BY IdleIsACall, NoRowIsARow, LedgerAssumption
     DEF LedgerInit, RowTypes, BatchRow, BatchIds, LedgerAssumption
<1>2. \A h \in Handlers : calls[h] = Idle
  BY DEF LedgerInit
<1>3. \A h \in Handlers : KnowsRows(calls[h])
  BY <1>2, IdleIsACall DEF KnowsRows, OnRow
<1>4. /\ \A i \in Intents : intents[i] = NoRow
      /\ announced = {}
  BY DEF LedgerInit
<1>5. UnstoredIsBlank /\ OnlyCommittedReachSolvers /\ AuctionedInClosedBatch
  BY <1>4, NoRowIsARow DEF UnstoredIsBlank, OnlyCommittedReachSolvers, AuctionedInClosedBatch
<1> QED BY <1>1, <1>3, <1>5 DEF LedgerInv

\* A step of handler h after which it remembers call.
LEMMA StepKeepsLedgerInv ==
    ASSUME LedgerInv, NEW h \in Handlers, NEW call \in Call,
           calls' = [calls EXCEPT ![h] = call],
           UNCHANGED window,
           intents' \in [Intents -> Row], batches' \in [BatchIds -> BatchRow],
           announced' \subseteq Intents \X BatchIds,
           \A i \in Intents :
               /\ intents[i].status # "NONE" => intents'[i].status # "NONE"
               /\ intents'[i].status = "NONE" => intents'[i].onchain_tx_hash = NoTx
               /\ intents[i].onchain_tx_hash # NoTx => intents'[i].onchain_tx_hash # NoTx
               /\ (intents'[i].mode = "SELF_COMMIT"
                     /\ intents'[i].status \in {"PENDING", "AUCTION", "SETTLED"})
                        => intents'[i].onchain_tx_hash # NoTx
               /\ intents'[i].status = "AUCTION" => batches'[intents'[i].batch_id] # "NONE",
           \A b \in BatchIds : batches[b] # "NONE" => batches'[b] # "NONE",
           \A report \in announced' \ announced : intents'[report[1]].onchain_tx_hash # NoTx,
           KnowsRows(call)'
    PROVE  LedgerInv'
<1>1. RowTypes'
  BY DEF LedgerInv, RowTypes
<1>2. ASSUME NEW g \in Handlers PROVE KnowsRows(calls[g])'
  <2>1. calls'[g] = IF g = h THEN call ELSE calls[g]
    BY DEF LedgerInv, RowTypes
  <2>2. calls[g] \in Call /\ KnowsRows(calls[g])
    BY DEF LedgerInv, RowTypes
  <2>3. calls[g].on \subseteq Intents /\ calls[g].batch_id \in BatchIds
    BY <2>2 DEF Call
  <2> QED BY <2>1, <2>2, <2>3 DEF KnowsRows
<1>3. \A report \in announced' : report[1] \in Intents
  BY DEF LedgerInv, RowTypes
<1>4. OnlyCommittedReachSolvers'
  BY <1>3 DEF LedgerInv, OnlyCommittedReachSolvers
<1>5. UnstoredIsBlank' /\ AuctionedInClosedBatch'
  BY DEF UnstoredIsBlank, AuctionedInClosedBatch
<1> QED BY <1>1, <1>2, <1>4, <1>5 DEF LedgerInv

\* Nothing but the handler's memory changes.
LEMMA RememberKeepsLedgerInv ==
    ASSUME LedgerInv, NEW h \in Handlers, NEW call \in Call,
           calls' = [calls EXCEPT ![h] = call],
           UNCHANGED <<window, intents, batches, announced>>, KnowsRows(call)
    PROVE  LedgerInv'
<1>1. KnowsRows(call)'
  BY DEF KnowsRows
<1>2. /\ intents' \in [Intents -> Row] /\ batches' \in [BatchIds -> BatchRow]
      /\ announced' \subseteq Intents \X BatchIds
  BY DEF LedgerInv, RowTypes
<1> QED BY <1>1, <1>2, StepKeepsLedgerInv
        DEF LedgerInv, UnstoredIsBlank, OnlyCommittedReachSolvers, AuctionedInClosedBatch

LEMMA EndsKnowNothing == KnowsRows(Idle) /\ KnowsRows(Idle)'
BY IdleIsACall DEF KnowsRows, OnRow

LEMMA HandlerHasRow ==
    ASSUME LedgerInv, NEW h \in Handlers, calls[h].at \in OnRow \cup {"store"}
    PROVE  calls[h].on = {The(h)} /\ The(h) \in Intents
<1>1. PICK i \in Intents : calls[h].on = {i}
  BY DEF LedgerInv, KnowsRows
<1>2. The(h) = i
  BY <1>1 DEF The
<1> QED BY <1>1, <1>2

LEMMA HandlerTypes ==
    ASSUME LedgerInv, NEW h \in Handlers
    PROVE  /\ calls[h] \in Call /\ KnowsRows(calls[h])
           /\ calls[h].batch_id \in BatchIds /\ calls[h].next_batch \in BatchIds
           /\ calls[h].tx_hash \in Hash /\ calls[h].mode \in {"GATEWAY", "SELF_COMMIT"}
BY DEF LedgerInv, RowTypes, Call, Hash

LEMMA RowIsTyped ==
    ASSUME LedgerInv, NEW i \in Intents
    PROVE  /\ intents[i] \in Row
           /\ intents[i].batch_id \in BatchIds /\ intents[i].onchain_tx_hash \in Hash
BY DEF LedgerInv, RowTypes, Row, Hash

\* One row is written, and perhaps announced.
LEMMA WriteKeepsLedgerInv ==
    ASSUME LedgerInv, NEW h \in Handlers, NEW call \in Call,
           calls' = [calls EXCEPT ![h] = call], KnowsRows(call)',
           UNCHANGED <<window, batches>>,
           NEW i \in Intents, NEW row \in Row,
           intents' = [intents EXCEPT ![i] = row],
           row.status # "NONE",
           intents[i].onchain_tx_hash # NoTx => row.onchain_tx_hash # NoTx,
           (row.mode = "SELF_COMMIT" /\ row.status \in {"PENDING", "AUCTION", "SETTLED"})
               => row.onchain_tx_hash # NoTx,
           row.status = "AUCTION" => batches[row.batch_id] # "NONE",
           announced' \subseteq Intents \X BatchIds,
           \A report \in announced' \ announced : report[1] = i /\ row.onchain_tx_hash # NoTx
    PROVE  LedgerInv'
<1>1. \A j \in Intents : intents'[j] = IF j = i THEN row ELSE intents[j]
  BY DEF LedgerInv, RowTypes
<1>2. intents' \in [Intents -> Row] /\ batches' \in [BatchIds -> BatchRow]
  BY DEF LedgerInv, RowTypes
<1>3. \A j \in Intents :
               /\ intents[j].status # "NONE" => intents'[j].status # "NONE"
               /\ intents'[j].status = "NONE" => intents'[j].onchain_tx_hash = NoTx
               /\ intents[j].onchain_tx_hash # NoTx => intents'[j].onchain_tx_hash # NoTx
               /\ (intents'[j].mode = "SELF_COMMIT"
                     /\ intents'[j].status \in {"PENDING", "AUCTION", "SETTLED"})
                        => intents'[j].onchain_tx_hash # NoTx
               /\ intents'[j].status = "AUCTION" => batches'[intents'[j].batch_id] # "NONE"
  BY <1>1 DEF LedgerInv, UnstoredIsBlank, OnlyCommittedReachSolvers, AuctionedInClosedBatch
<1>4. \A report \in announced' \ announced : intents'[report[1]].onchain_tx_hash # NoTx
  BY <1>1
<1> QED BY <1>2, <1>3, <1>4, StepKeepsLedgerInv

-----------------------------------------------------------------------------
(* The actions. *)

LEMMA RequestKeepsLedgerInv ==
    ASSUME LedgerInv, NEW h \in Handlers, Request(h)
    PROVE  LedgerInv'
<1>0. /\ Idle \in Call /\ window \in BatchIds /\ window \in Nat
      /\ intents \in [Intents -> Row]
  BY IdleIsACall DEF LedgerInv, RowTypes, BatchIds
<1> USE DEF tables
<1>1. ASSUME NEW i \in Intents, NEW mode \in {"GATEWAY", "SELF_COMMIT"}, submit_intent(h, i, mode)
      PROVE  LedgerInv'
  <2> DEFINE call == [Idle EXCEPT !.at = "store", !.on = {i}, !.mode = mode, !.batch_id = window]
  <2>1. call \in Call /\ call.at = "store" /\ call.on = {i}
    BY <1>0 DEF Call
  <2>2. calls' = [calls EXCEPT ![h] = call] /\ UNCHANGED <<window, intents, batches, announced>>
    BY <1>1 DEF submit_intent, Start
  <2> HIDE DEF call
  <2>3. KnowsRows(call)
    BY <2>1 DEF KnowsRows, OnRow
  <2> QED BY <2>1, <2>2, <2>3, RememberKeepsLedgerInv
<1>2. ASSUME NEW i \in Intents, cancel_intent(h, i) \/ report_canceled(h, i)
      PROVE  LedgerInv'
  <2> DEFINE call == [Idle EXCEPT !.at = "cancel", !.on = {i}]
  <2>1. call \in Call /\ call.at = "cancel" /\ call.on = {i}
    BY <1>0 DEF Call
  <2>2. /\ calls' = [calls EXCEPT ![h] = call] /\ UNCHANGED <<window, intents, batches, announced>>
        /\ intents[i].status # "NONE"
    BY <1>2 DEF cancel_intent, report_canceled, Start, Live
  <2> HIDE DEF call
  <2>3. KnowsRows(call)
    BY <2>1, <2>2 DEF KnowsRows, OnRow
  <2> QED BY <2>1, <2>2, <2>3, RememberKeepsLedgerInv
<1>3. ASSUME NEW i \in Intents, NEW tx_hash \in TxHashes, report_committed(h, i, tx_hash)
      PROVE  LedgerInv'
  <2> DEFINE call == [Idle EXCEPT !.at = "reconcile", !.on = {i}, !.tx_hash = tx_hash,
                                  !.batch_id = intents[i].batch_id, !.next_batch = window]
  <2>1. intents[i].batch_id \in BatchIds
    BY RowIsTyped
  <2>2. call \in Call /\ call.at = "reconcile" /\ call.on = {i} /\ call.tx_hash = tx_hash
    BY <1>0, <2>1 DEF Call
  <2>3. /\ calls' = [calls EXCEPT ![h] = call] /\ UNCHANGED <<window, intents, batches, announced>>
        /\ intents[i].status # "NONE"
    BY <1>3 DEF report_committed, Start
  <2> HIDE DEF call
  <2>4. KnowsRows(call)
    BY <2>2, <2>3, LedgerAssumption DEF KnowsRows, OnRow, LedgerAssumption
  <2> QED BY <2>2, <2>3, <2>4, RememberKeepsLedgerInv
<1>4. ASSUME NEW i \in Intents, NEW tx_hash \in TxHashes, report_own_commit(h, i, tx_hash)
      PROVE  LedgerInv'
  <2> DEFINE call == [Idle EXCEPT !.at = "stamp", !.on = {i}, !.tx_hash = tx_hash]
  <2>1. call \in Call /\ call.at = "stamp" /\ call.on = {i} /\ call.tx_hash = tx_hash
    BY <1>0 DEF Call
  <2>2. /\ calls' = [calls EXCEPT ![h] = call] /\ UNCHANGED <<window, intents, batches, announced>>
        /\ intents[i].status # "NONE"
    BY <1>4 DEF report_own_commit, Start
  <2> HIDE DEF call
  <2>3. KnowsRows(call)
    BY <2>1, <2>2, LedgerAssumption DEF KnowsRows, OnRow, LedgerAssumption
  <2> QED BY <2>1, <2>2, <2>3, RememberKeepsLedgerInv
<1>5. ASSUME NEW b \in 0..(window - 1), close_batch(h, b)
      PROVE  LedgerInv'
  <2> DEFINE call == [Idle EXCEPT !.at = "close", !.batch_id = b]
  <2>1. b \in BatchIds
    BY <1>0, LedgerAssumption DEF BatchIds, LedgerAssumption
  <2>2. call \in Call /\ call.at = "close" /\ call.batch_id = b
    BY <1>0, <2>1 DEF Call
  <2>3. /\ calls' = [calls EXCEPT ![h] = call] /\ UNCHANGED <<window, intents, announced>>
        /\ batches' = [batches EXCEPT ![b] = "AUCTION"] /\ batches \in [BatchIds -> BatchRow]
    BY <1>5 DEF close_batch, Start, LedgerInv, RowTypes
  <2> HIDE DEF call
  <2>4. /\ batches' \in [BatchIds -> BatchRow] /\ batches'[b] # "NONE"
        /\ \A c \in BatchIds : batches[c] # "NONE" => batches'[c] # "NONE"
    BY <2>1, <2>3 DEF BatchRow
  <2>5. KnowsRows(call)'
    BY <2>2, <2>4 DEF KnowsRows, OnRow
  <2>6. \A i \in Intents : intents[i].status = "AUCTION" => batches'[intents[i].batch_id] # "NONE"
    BY <2>4, RowIsTyped DEF LedgerInv, AuctionedInClosedBatch
  <2>7. intents' \in [Intents -> Row] /\ announced' \subseteq Intents \X BatchIds
    BY <2>3 DEF LedgerInv, RowTypes
  <2> QED BY <2>2, <2>3, <2>4, <2>5, <2>6, <2>7, StepKeepsLedgerInv
          DEF LedgerInv, UnstoredIsBlank, OnlyCommittedReachSolvers
<1>6. ASSUME NEW b \in 0..(window - 1), fail_batch(h, b)
      PROVE  LedgerInv'
  <2> DEFINE call == [Idle EXCEPT !.at = "fail", !.batch_id = b, !.next_batch = window]
  <2>1. b \in BatchIds
    BY <1>0, LedgerAssumption DEF BatchIds, LedgerAssumption
  <2>2. call \in Call /\ call.at = "fail"
    BY <1>0, <2>1 DEF Call
  <2>3. calls' = [calls EXCEPT ![h] = call] /\ UNCHANGED <<window, intents, batches, announced>>
    BY <1>6 DEF fail_batch, Start
  <2> HIDE DEF call
  <2>4. KnowsRows(call)
    BY <2>2 DEF KnowsRows, OnRow
  <2> QED BY <2>2, <2>3, <2>4, RememberKeepsLedgerInv
<1>7. ASSUME NEW b \in 0..(window - 1), settle_batch(h, b)
      PROVE  LedgerInv'
  <2> DEFINE S == InBatch(b, {"PENDING", "AUCTION"})
             call == [Idle EXCEPT !.at = "settle", !.batch_id = b, !.on = S]
  <2>1. b \in BatchIds /\ S \subseteq Intents
    BY <1>0, LedgerAssumption DEF BatchIds, LedgerAssumption, InBatch
  <2>2. calls' = [calls EXCEPT ![h] = call] /\ UNCHANGED <<window, intents, batches, announced>>
    BY <1>7 DEF settle_batch, Start
  <2> HIDE DEF S
  <2>3. call \in Call /\ call.at = "settle"
    BY <1>0, <2>1 DEF Call
  <2> HIDE DEF call
  <2>4. KnowsRows(call)
    BY <2>3 DEF KnowsRows, OnRow
  <2> QED BY <2>2, <2>3, <2>4, RememberKeepsLedgerInv
<1> QED BY <1>1, <1>2, <1>3, <1>4, <1>5, <1>6, <1>7 DEF Request

\* The steps of a handler that works on one row.
LEMMA RowStepKeepsLedgerInv ==
    ASSUME LedgerInv, NEW h \in Handlers,
           \/ Store(h) \/ RecordCommit(h) \/ UndoSubmit(h) \/ Reconcile(h) \/ StampHash(h)
           \/ \E tx_hash \in TxHashes : MarkCanceled(h, tx_hash)
    PROVE  LedgerInv'
<1> DEFINE i == The(h)
<1>1. i \in Intents /\ calls[h].on = {i}
  <2>1. calls[h].at \in OnRow \cup {"store"}
    BY DEF Store, RecordCommit, UndoSubmit, Reconcile, StampHash, MarkCanceled, OnRow
  <2> QED BY <2>1, HandlerHasRow
<1>2. /\ intents \in [Intents -> Row] /\ intents[i] \in Row
      /\ intents[i].onchain_tx_hash \in Hash /\ intents[i].batch_id \in BatchIds
      /\ announced \subseteq Intents \X BatchIds
  BY <1>1, RowIsTyped DEF LedgerInv, RowTypes
<1>3. /\ calls[h] \in Call /\ KnowsRows(calls[h])
      /\ calls[h].batch_id \in BatchIds /\ calls[h].next_batch \in BatchIds
      /\ calls[h].tx_hash \in Hash /\ calls[h].mode \in {"GATEWAY", "SELF_COMMIT"}
  BY HandlerTypes
<1>4. calls[h].at # "store" => intents[i].status # "NONE"
  <2>1. CASE calls[h].at \in OnRow
    BY <1>1, <1>3, <2>1 DEF KnowsRows
  <2>2. CASE calls[h].at = "store"
    BY <2>2
  <2>3. calls[h].at \in OnRow \cup {"store"}
    BY DEF Store, RecordCommit, UndoSubmit, Reconcile, StampHash, MarkCanceled, OnRow
  <2> QED BY <2>1, <2>2, <2>3
<1>5. /\ (intents[i].mode = "SELF_COMMIT" /\ intents[i].status \in {"PENDING", "AUCTION", "SETTLED"})
            => intents[i].onchain_tx_hash # NoTx
      /\ intents[i].status = "AUCTION" => batches[intents[i].batch_id] # "NONE"
      /\ intents[i].status = "NONE" => intents[i].onchain_tx_hash = NoTx
  BY <1>1 DEF LedgerInv, OnlyCommittedReachSolvers, AuctionedInClosedBatch, UnstoredIsBlank
<1> HIDE DEF i
<1>6. CASE Store(h)
  <2> DEFINE row == [status |-> InitialStatus(calls[h].mode), batch_id |-> calls[h].batch_id,
                     mode |-> calls[h].mode, onchain_tx_hash |-> NoTx]
  <2>1. /\ row \in Row /\ row.status = InitialStatus(calls[h].mode) /\ row.mode = calls[h].mode
        /\ row.status \in {"PENDING", "AWAITING_ONCHAIN"}
        /\ row.mode = "SELF_COMMIT" => row.status = "AWAITING_ONCHAIN"
    BY <1>3 DEF Row, Live, InitialStatus
  <2>2. /\ intents' = [intents EXCEPT ![i] = row] /\ UNCHANGED <<window, batches, announced>>
        /\ intents[i].status = "NONE" /\ calls[h].at = "store"
    BY <1>6 DEF Store, i
  <2>3. \E call \in Call : /\ calls' = [calls EXCEPT ![h] = call]
                           /\ call = Idle \/ (call.at = "commit" /\ call.on = calls[h].on)
    <3> DEFINE going == [calls[h] EXCEPT !.at = "commit"]
    <3>1. going \in Call /\ going.at = "commit" /\ going.on = calls[h].on
      BY <1>3 DEF Call
    <3>2. calls' = [calls EXCEPT ![h] = going] \/ calls' = [calls EXCEPT ![h] = Idle]
      BY <1>6 DEF Store, Continue, End, LedgerInv, RowTypes
    <3> HIDE DEF going
    <3> QED BY <3>1, <3>2, IdleIsACall
  <2>4. PICK call \in Call : /\ calls' = [calls EXCEPT ![h] = call]
                             /\ call = Idle \/ (call.at = "commit" /\ call.on = calls[h].on)
    BY <2>3
  <2> HIDE DEF row
  <2>5. intents'[i] = row
    BY <1>1, <1>2, <2>2
  <2>6. KnowsRows(call)'
    <3>1. CASE call = Idle
      BY <3>1, EndsKnowNothing
    <3>2. CASE call.at = "commit" /\ call.on = calls[h].on
      <4>1. intents'[i].status # "NONE"
        BY <2>1, <2>5
      <4>2. call.on = {i}
        BY <1>1, <3>2
      <4> QED BY <1>1, <3>2, <4>1, <4>2 DEF KnowsRows, OnRow
    <3> QED BY <2>4, <3>1, <3>2
  <2>7. /\ row.status # "NONE" /\ row.status # "AUCTION"
        /\ ~(row.mode = "SELF_COMMIT" /\ row.status \in {"PENDING", "AUCTION", "SETTLED"})
    BY <2>1
  <2>8. /\ announced' \subseteq Intents \X BatchIds /\ announced' \ announced = {}
        /\ intents[i].onchain_tx_hash = NoTx
    BY <1>2, <1>5, <2>2
  <2>9. row \in Row /\ UNCHANGED <<window, batches>> /\ intents' = [intents EXCEPT ![i] = row]
    BY <2>1, <2>2
  <2> QED BY <1>1, <2>4, <2>6, <2>7, <2>8, <2>9, WriteKeepsLedgerInv
<1> USE IdleIsACall, EndsKnowNothing
<1>7. CASE RecordCommit(h)
  <2> DEFINE row == [intents[i] EXCEPT !.onchain_tx_hash = calls[h].tx_hash]
  <2>1. /\ intents' = [intents EXCEPT ![i] = row] /\ UNCHANGED <<window, batches>>
        /\ announced' = announced \cup {<<i, calls[h].batch_id>>}
        /\ calls' = [calls EXCEPT ![h] = Idle] /\ calls[h].at = "record"
    BY <1>7 DEF RecordCommit, End, i
  <2>2. calls[h].tx_hash # NoTx
    BY <1>3, <2>1 DEF KnowsRows
  <2>3. /\ row \in Row /\ row.onchain_tx_hash # NoTx /\ row.status = intents[i].status
        /\ row.batch_id = intents[i].batch_id
    BY <1>2, <1>3, <2>2 DEF Row, Hash
  <2>4. /\ announced' \subseteq Intents \X BatchIds
        /\ \A report \in announced' \ announced : report[1] = i
    BY <1>1, <1>2, <1>3, <2>1
  <2> HIDE DEF row
  <2> QED BY <1>1, <1>4, <1>5, <2>1, <2>3, <2>4, WriteKeepsLedgerInv
<1>8. CASE UndoSubmit(h)
  <2> DEFINE row == [intents[i] EXCEPT !.status = "ONCHAIN_FAILED"]
  <2>1. /\ intents' = SetStatus({i}, "ONCHAIN_FAILED") /\ UNCHANGED <<window, batches, announced>>
        /\ calls' = [calls EXCEPT ![h] = Idle]
    BY <1>8 DEF UndoSubmit, End, i
  <2>2. intents' = [intents EXCEPT ![i] = row]
    BY <1>1, <1>2, <2>1 DEF SetStatus
  <2>3. /\ row \in Row /\ row.onchain_tx_hash = intents[i].onchain_tx_hash
        /\ row.status = "ONCHAIN_FAILED"
    BY <1>2 DEF Row
  <2> HIDE DEF row
  <2> QED BY <1>1, <1>2, <2>1, <2>2, <2>3, WriteKeepsLedgerInv
<1>9. CASE Reconcile(h)
  <2> DEFINE row == [intents[i] EXCEPT !.status = "PENDING", !.batch_id = calls[h].next_batch,
                                       !.onchain_tx_hash = calls[h].tx_hash]
  <2>1. /\ intents' = [intents EXCEPT ![i] = row] /\ UNCHANGED <<window, batches>>
        /\ announced' = announced \cup {<<i, calls[h].batch_id>>}
        /\ calls' = [calls EXCEPT ![h] = Idle] /\ calls[h].at = "reconcile"
    BY <1>9 DEF Reconcile, End, i
  <2>2. calls[h].tx_hash # NoTx
    BY <1>3, <2>1 DEF KnowsRows
  <2>3. row \in Row /\ row.onchain_tx_hash # NoTx /\ row.status = "PENDING"
    BY <1>2, <1>3, <2>2 DEF Row, Hash, Live
  <2>4. /\ announced' \subseteq Intents \X BatchIds
        /\ \A report \in announced' \ announced : report[1] = i
    BY <1>1, <1>2, <1>3, <2>1
  <2> HIDE DEF row
  <2> QED BY <1>1, <2>1, <2>3, <2>4, WriteKeepsLedgerInv
<1>10. CASE StampHash(h)
  <2> DEFINE row == [intents[i] EXCEPT !.onchain_tx_hash = calls[h].tx_hash]
  <2>1. /\ intents' = [intents EXCEPT ![i] = row] /\ UNCHANGED <<window, batches, announced>>
        /\ calls' = [calls EXCEPT ![h] = Idle] /\ calls[h].at = "stamp"
    BY <1>10 DEF StampHash, End, i
  <2>2. calls[h].tx_hash # NoTx
    BY <1>3, <2>1 DEF KnowsRows
  <2>3. /\ row \in Row /\ row.onchain_tx_hash # NoTx /\ row.status = intents[i].status
        /\ row.batch_id = intents[i].batch_id
    BY <1>2, <1>3, <2>2 DEF Row, Hash
  <2> HIDE DEF row
  <2> QED BY <1>1, <1>2, <1>4, <1>5, <2>1, <2>3, WriteKeepsLedgerInv
<1>11. ASSUME NEW tx_hash \in TxHashes, MarkCanceled(h, tx_hash) PROVE LedgerInv'
  <2> DEFINE row == [intents[i] EXCEPT !.status = "CANCELED", !.onchain_tx_hash = tx_hash]
  <2>1. /\ intents' = [intents EXCEPT ![i] = row] /\ UNCHANGED <<window, batches, announced>>
        /\ calls' = [calls EXCEPT ![h] = Idle]
    BY <1>11 DEF MarkCanceled, End, i
  <2>2. row \in Row /\ row.onchain_tx_hash # NoTx /\ row.status = "CANCELED"
    BY <1>2, LedgerAssumption DEF Row, LedgerAssumption
  <2> HIDE DEF row
  <2> QED BY <1>1, <1>2, <2>1, <2>2, WriteKeepsLedgerInv
<1> QED BY <1>6, <1>7, <1>8, <1>9, <1>10, <1>11

\* Open rows of a batch are written, with the row of the batch.
LEMMA WriteBatchKeepsLedgerInv ==
    ASSUME LedgerInv, NEW h \in Handlers,
           calls' = [calls EXCEPT ![h] = Idle], UNCHANGED <<window, announced>>,
           intents' \in [Intents -> Row], batches' \in [BatchIds -> BatchRow],
           \A b \in BatchIds : batches[b] # "NONE" => batches'[b] # "NONE",
           \A i \in Intents :
               \/ intents'[i] = intents[i]
               \/ /\ intents[i].status \in {"PENDING", "AUCTION"}
                  /\ intents'[i].status \in {"PENDING", "AUCTION", "SETTLED"}
                  /\ intents'[i].mode = intents[i].mode
                  /\ intents'[i].onchain_tx_hash = intents[i].onchain_tx_hash
                  /\ intents'[i].status = "AUCTION" => batches'[intents'[i].batch_id] # "NONE"
    PROVE  LedgerInv'
<1>1. Idle \in Call /\ KnowsRows(Idle)'
  BY IdleIsACall, EndsKnowNothing
<1>2. announced' \subseteq Intents \X BatchIds /\ announced' \ announced = {}
  BY DEF LedgerInv, RowTypes
<1>3. ASSUME NEW i \in Intents
      PROVE  /\ intents[i].status # "NONE" => intents'[i].status # "NONE"
             /\ intents'[i].status = "NONE" => intents'[i].onchain_tx_hash = NoTx
             /\ intents[i].onchain_tx_hash # NoTx => intents'[i].onchain_tx_hash # NoTx
             /\ (intents'[i].mode = "SELF_COMMIT"
                   /\ intents'[i].status \in {"PENDING", "AUCTION", "SETTLED"})
                      => intents'[i].onchain_tx_hash # NoTx
             /\ intents'[i].status = "AUCTION" => batches'[intents'[i].batch_id] # "NONE"
  <2>1. /\ intents[i].status = "NONE" => intents[i].onchain_tx_hash = NoTx
        /\ (intents[i].mode = "SELF_COMMIT"
              /\ intents[i].status \in {"PENDING", "AUCTION", "SETTLED"})
                 => intents[i].onchain_tx_hash # NoTx
        /\ intents[i].status = "AUCTION" => batches[intents[i].batch_id] # "NONE"
        /\ intents[i].batch_id \in BatchIds
    BY RowIsTyped DEF LedgerInv, UnstoredIsBlank, OnlyCommittedReachSolvers, AuctionedInClosedBatch
  <2>2. CASE intents'[i] = intents[i]
    BY <2>1, <2>2
  <2>3. CASE intents'[i] # intents[i]
    BY <2>1, <2>3
  <2> QED BY <2>2, <2>3
<1> QED BY <1>1, <1>2, <1>3, StepKeepsLedgerInv

\* The steps that write the rows of a batch, and those that write none.
LEMMA BatchStepKeepsLedgerInv ==
    ASSUME LedgerInv, NEW h \in Handlers,
           \/ CloseIntents(h) \/ Requeue(h) \/ Settle(h) \/ CommitRejected(h) \/ Abandon(h)
           \/ \E tx_hash \in TxHashes : CommitAccepted(h, tx_hash)
    PROVE  LedgerInv'
<1> USE IdleIsACall, EndsKnowNothing
<1>1. /\ intents \in [Intents -> Row] /\ batches \in [BatchIds -> BatchRow]
      /\ announced \subseteq Intents \X BatchIds
      /\ \A i \in Intents : intents[i] \in Row /\ intents[i].batch_id \in BatchIds
  BY RowIsTyped DEF LedgerInv, RowTypes
<1>2. /\ calls[h] \in Call /\ KnowsRows(calls[h])
      /\ calls[h].batch_id \in BatchIds /\ calls[h].next_batch \in BatchIds
  BY HandlerTypes
<1>3. \A i \in Intents : intents[i].status = "AUCTION" => batches[intents[i].batch_id] # "NONE"
  BY DEF LedgerInv, AuctionedInClosedBatch
<1>4. ASSUME NEW S \in SUBSET Intents, NEW status \in {"AUCTION", "SETTLED"},
             intents' = SetStatus(S, status)
      PROVE  /\ intents' \in [Intents -> Row]
             /\ \A i \in Intents :
                   IF i \in S THEN /\ intents'[i].status = status
                                   /\ intents'[i].onchain_tx_hash = intents[i].onchain_tx_hash
                                   /\ intents'[i].mode = intents[i].mode
                                   /\ intents'[i].batch_id = intents[i].batch_id
                   ELSE intents'[i] = intents[i]
  <2>1. \A i \in Intents : [intents[i] EXCEPT !.status = status] \in Row
    BY <1>1 DEF Row, Live
  <2>2. \A i \in Intents : /\ [intents[i] EXCEPT !.status = status].status = status
                           /\ [intents[i] EXCEPT !.status = status].mode = intents[i].mode
                           /\ [intents[i] EXCEPT !.status = status].batch_id = intents[i].batch_id
                           /\ [intents[i] EXCEPT !.status = status].onchain_tx_hash
                                 = intents[i].onchain_tx_hash
    BY <1>1 DEF Row
  <2> QED BY <1>1, <1>4, <2>1, <2>2 DEF SetStatus
<1>5. ASSUME NEW b \in BatchIds, NEW status \in {"FAILED", "SETTLED"}, batches' = BatchStatus(b, status)
      PROVE  /\ batches' \in [BatchIds -> BatchRow]
             /\ \A c \in BatchIds : batches[c] # "NONE" => batches'[c] # "NONE"
  BY <1>1, <1>5 DEF BatchStatus, BatchRow
<1>6. CASE CloseIntents(h)
  <2> DEFINE S == InBatch(calls[h].batch_id, {"PENDING"})
  <2>1. /\ intents' = SetStatus(S, "AUCTION") /\ calls[h].at = "close"
        /\ calls' = [calls EXCEPT ![h] = Idle] /\ UNCHANGED <<window, batches, announced>>
    BY <1>6 DEF CloseIntents, End
  <2>2. batches[calls[h].batch_id] # "NONE"
    BY <1>2, <2>1 DEF KnowsRows
  <2>3. /\ S \in SUBSET Intents
        /\ \A i \in S : intents[i].status = "PENDING" /\ intents[i].batch_id = calls[h].batch_id
    BY DEF InBatch
  <2> HIDE DEF S
  <2>4. intents' \in [Intents -> Row]
    BY <1>4, <2>1, <2>3
  <2>5. ASSUME NEW i \in Intents
        PROVE  \/ intents'[i] = intents[i]
               \/ /\ intents[i].status \in {"PENDING", "AUCTION"}
                  /\ intents'[i].status \in {"PENDING", "AUCTION", "SETTLED"}
                  /\ intents'[i].mode = intents[i].mode
                  /\ intents'[i].onchain_tx_hash = intents[i].onchain_tx_hash
                  /\ intents'[i].status = "AUCTION" => batches'[intents'[i].batch_id] # "NONE"
    <3>1. CASE i \in S
      BY <1>4, <2>1, <2>2, <2>3, <3>1
    <3>2. CASE i \notin S
      BY <1>4, <2>1, <2>3, <3>2
    <3> QED BY <3>1, <3>2
  <2> QED BY <1>1, <2>1, <2>4, <2>5, WriteBatchKeepsLedgerInv
<1>7. CASE Settle(h)
  <2> DEFINE S == InBatch(calls[h].batch_id, {"PENDING", "AUCTION"})
  <2>1. /\ intents' = SetStatus(S, "SETTLED") /\ batches' = BatchStatus(calls[h].batch_id, "SETTLED")
        /\ calls' = [calls EXCEPT ![h] = Idle] /\ UNCHANGED <<window, announced>>
    BY <1>7 DEF Settle, End
  <2>2. /\ S \in SUBSET Intents
        /\ \A i \in S : intents[i].status \in {"PENDING", "AUCTION"}
    BY DEF InBatch
  <2> HIDE DEF S
  <2>3. /\ batches' \in [BatchIds -> BatchRow]
        /\ \A c \in BatchIds : batches[c] # "NONE" => batches'[c] # "NONE"
    BY <1>2, <1>5, <2>1
  <2>4. intents' \in [Intents -> Row]
    BY <1>4, <2>1, <2>2
  <2>5. ASSUME NEW i \in Intents
        PROVE  \/ intents'[i] = intents[i]
               \/ /\ intents[i].status \in {"PENDING", "AUCTION"}
                  /\ intents'[i].status \in {"PENDING", "AUCTION", "SETTLED"}
                  /\ intents'[i].mode = intents[i].mode
                  /\ intents'[i].onchain_tx_hash = intents[i].onchain_tx_hash
                  /\ intents'[i].status = "AUCTION" => batches'[intents'[i].batch_id] # "NONE"
    <3>1. CASE i \in S
      BY <1>4, <2>1, <2>2, <3>1
    <3>2. CASE i \notin S
      BY <1>4, <2>1, <2>2, <3>2
    <3> QED BY <3>1, <3>2
  <2> QED BY <2>1, <2>3, <2>4, <2>5, WriteBatchKeepsLedgerInv
<1>8. CASE Requeue(h)
  <2> DEFINE b == calls[h].batch_id
             S == InBatch(b, {"AUCTION"})
             row(i) == [intents[i] EXCEPT !.status = "PENDING", !.batch_id = calls[h].next_batch]
  <2>1. /\ intents' = [i \in Intents |-> IF i \in S THEN row(i) ELSE intents[i]]
        /\ batches' = BatchStatus(b, "FAILED")
        /\ calls' = [calls EXCEPT ![h] = Idle] /\ UNCHANGED <<window, announced>>
    BY <1>8 DEF Requeue, End
  <2>2. /\ S \in SUBSET Intents
        /\ \A i \in S : intents[i].status = "AUCTION"
    BY DEF InBatch
  <2>3. \A i \in Intents : /\ row(i) \in Row /\ row(i).status = "PENDING"
                           /\ row(i).mode = intents[i].mode
                           /\ row(i).onchain_tx_hash = intents[i].onchain_tx_hash
    BY <1>1, <1>2 DEF Row, Live
  <2> HIDE DEF S, row
  <2>4. /\ batches' \in [BatchIds -> BatchRow]
        /\ \A c \in BatchIds : batches[c] # "NONE" => batches'[c] # "NONE"
    BY <1>2, <1>5, <2>1
  <2>5. intents' \in [Intents -> Row]
    BY <1>1, <2>1, <2>3
  <2>6. \A i \in Intents : intents'[i] = IF i \in S THEN row(i) ELSE intents[i]
    BY <2>1
  <2>7. ASSUME NEW i \in Intents
        PROVE  \/ intents'[i] = intents[i]
               \/ /\ intents[i].status \in {"PENDING", "AUCTION"}
                  /\ intents'[i].status \in {"PENDING", "AUCTION", "SETTLED"}
                  /\ intents'[i].mode = intents[i].mode
                  /\ intents'[i].onchain_tx_hash = intents[i].onchain_tx_hash
                  /\ intents'[i].status = "AUCTION" => batches'[intents'[i].batch_id] # "NONE"
    <3>1. CASE i \in S
      BY <2>2, <2>3, <2>6, <3>1
    <3>2. CASE i \notin S
      BY <2>6, <3>2
    <3> QED BY <3>1, <3>2
  <2> QED BY <2>1, <2>4, <2>5, <2>7, WriteBatchKeepsLedgerInv
<1>9. CASE CommitRejected(h)
  <2> DEFINE call == [calls[h] EXCEPT !.at = "undo"]
  <2>1. /\ calls' = [calls EXCEPT ![h] = call] /\ calls[h].at = "commit"
        /\ UNCHANGED <<window, intents, batches, announced>>
    <3>1. calls \in [Handlers -> Call]
      BY DEF LedgerInv, RowTypes
    <3> QED BY <1>9, <3>1 DEF CommitRejected, Continue, tables
  <2>2. call \in Call /\ call.at = "undo" /\ call.on = calls[h].on
    BY <1>2 DEF Call
  <2> HIDE DEF call
  <2>3. KnowsRows(call)
    BY <1>2, <2>1, <2>2 DEF KnowsRows, OnRow
  <2> QED BY <2>1, <2>2, <2>3, RememberKeepsLedgerInv
<1>10. ASSUME NEW tx_hash \in TxHashes, CommitAccepted(h, tx_hash) PROVE LedgerInv'
  <2> DEFINE call == [calls[h] EXCEPT !.at = "record", !.tx_hash = tx_hash]
  <2>1. /\ calls' = [calls EXCEPT ![h] = call] /\ calls[h].at = "commit"
        /\ UNCHANGED <<window, intents, batches, announced>>
    <3>1. calls \in [Handlers -> Call]
      BY DEF LedgerInv, RowTypes
    <3> QED BY <1>10, <3>1 DEF CommitAccepted, tables
  <2>2. /\ call \in Call /\ call.at = "record" /\ call.on = calls[h].on
        /\ call.tx_hash # NoTx
    BY <1>2, LedgerAssumption DEF Call, LedgerAssumption
  <2> HIDE DEF call
  <2>3. KnowsRows(call)
    BY <1>2, <2>1, <2>2 DEF KnowsRows, OnRow
  <2> QED BY <2>1, <2>2, <2>3, RememberKeepsLedgerInv
<1>11. CASE Abandon(h)
  BY <1>11, RememberKeepsLedgerInv DEF Abandon, End, tables
<1> QED BY <1>6, <1>7, <1>8, <1>9, <1>10, <1>11

-----------------------------------------------------------------------------
LEMMA LedgerStepKeepsInv ==
    ASSUME LedgerInv, [LedgerNext]_ledgerVars
    PROVE  LedgerInv'
<1>1. ASSUME NEW h \in Handlers, Request(h) PROVE LedgerInv'
  BY <1>1, RequestKeepsLedgerInv
<1>2. ASSUME NEW h \in Handlers, Resume(h) PROVE LedgerInv'
  BY <1>2, RowStepKeepsLedgerInv, BatchStepKeepsLedgerInv DEF Resume
<1>3. ASSUME UNCHANGED <<intents, batches, announced, calls>>, window' \in BatchIds
      PROVE  LedgerInv'
  <2>1. \A h \in Handlers : KnowsRows(calls[h])'
    BY <1>3 DEF LedgerInv, KnowsRows
  <2> QED BY <1>3, <2>1
          DEF LedgerInv, RowTypes, UnstoredIsBlank, OnlyCommittedReachSolvers, AuctionedInClosedBatch
<1>4. CASE NextWindow
  <2>1. window \in Nat /\ window' \in BatchIds
    BY <1>4, LedgerAssumption DEF NextWindow, LedgerInv, RowTypes, BatchIds, LedgerAssumption
  <2> QED BY <1>3, <1>4, <2>1 DEF NextWindow, tables
<1>5. CASE UNCHANGED ledgerVars
  BY <1>3, <1>5 DEF ledgerVars, tables, LedgerInv, RowTypes
<1> QED BY <1>1, <1>2, <1>4, <1>5 DEF LedgerNext

\* However handlers overtake each other, fail half-way or act on what they read before,
\* LedgerInv holds.
LEMMA LedgerAlwaysInv == LedgerSpec => []LedgerInv
BY LedgerInitInv, LedgerStepKeepsInv, PTL DEF LedgerSpec

\* submit_intent, cancel_intent, reconcile_onchain_intent and the batch handlers of api.rs
\* never broadcast an order whose commitment the chain has not taken, and never trade an
\* order of a self-committing user before it is on chain.
THEOREM OnlyCommittedAreBroadcast == LedgerSpec => []OnlyCommittedReachSolvers
<1>1. LedgerInv => OnlyCommittedReachSolvers
  BY DEF LedgerInv
<1> QED BY <1>1, LedgerAlwaysInv, PTL

\* close_batch, fail_batch and settle_batch, in any order and interleaving, leave an order
\* in auction only in a batch that was closed.
THEOREM AuctionedOrdersInClosedBatches == LedgerSpec => []AuctionedInClosedBatch
<1>1. LedgerInv => AuctionedInClosedBatch
  BY DEF LedgerInv
<1> QED BY <1>1, LedgerAlwaysInv, PTL

-----------------------------------------------------------------------------
(* What an account holds. *)

LEMMA AmountInIsSum ==
    \A S, a : AmountIn(S, a) = SumOver(AmountOf, {i \in S : Account(i) = a})
BY DEF AmountIn, SumOver

LEMMA AmountIsNat ==
    ASSUME NEW S \in SUBSET Intents, NEW a
    PROVE  AmountIn(S, a) \in Nat
BY AmountInIsSum, SumIsNat, LedgerAssumption DEF LedgerAssumption

\* One more order needs its own amount, of its own account.
LEMMA AmountWithOrder ==
    ASSUME NEW S \in SUBSET Intents, NEW i \in Intents \ S, NEW a
    PROVE  AmountIn(S \cup {i}, a) =
               IF Account(i) = a THEN AmountIn(S, a) + AmountOf[i] ELSE AmountIn(S, a)
<1> DEFINE In(T) == {j \in T : Account(j) = a}
<1>1. /\ IsFiniteSet(Intents) /\ (\A j \in Intents : AmountOf[j] \in Nat)
      /\ In(S) \in SUBSET Intents
  BY LedgerAssumption DEF LedgerAssumption
<1>2. CASE Account(i) = a
  <2>1. In(S \cup {i}) = In(S) \cup {i} /\ In(S) \cap {i} = {} /\ {i} \in SUBSET Intents
    BY <1>2
  <2> HIDE DEF In
  <2>2. SumOver(AmountOf, In(S) \cup {i}) = SumOver(AmountOf, In(S)) + SumOver(AmountOf, {i})
    BY <1>1, <2>1, SumOfParts
  <2>3. SumOver(AmountOf, {i}) = AmountOf[i]
    BY <1>1, SumOfOne
  <2> QED BY <1>2, <2>1, <2>2, <2>3, AmountInIsSum DEF In
<1>3. CASE Account(i) # a
  <2>1. In(S \cup {i}) = In(S)
    BY <1>3
  <2> QED BY <1>3, <2>1, AmountInIsSum
<1> QED BY <1>2, <1>3

\* What an account holds for the orders of L, less what those of S hold, is held for the
\* orders of M, when L has no others.
LEMMA ReleaseFits ==
    ASSUME NEW L \in SUBSET Intents, NEW M \in SUBSET Intents, NEW S \in SUBSET Intents,
           L \subseteq M \cup S, NEW a, NEW hold \in Nat, hold <= AmountIn(L, a)
    PROVE  Less(hold, AmountIn(S, a)) \in Nat /\ Less(hold, AmountIn(S, a)) <= AmountIn(M, a)
<1> DEFINE In(T) == {j \in T : Account(j) = a}
<1>1. /\ IsFiniteSet(Intents) /\ (\A j \in Intents : AmountOf[j] \in Nat)
      /\ In(L) \in SUBSET Intents /\ In(M) \in SUBSET Intents /\ In(S) \in SUBSET Intents
      /\ In(L) \in SUBSET (In(M) \cup In(S)) /\ In(M) \cup In(S) \in SUBSET Intents
  BY LedgerAssumption DEF LedgerAssumption
<1> HIDE DEF In
<1>2. SumOver(AmountOf, In(L)) <= SumOver(AmountOf, In(M) \cup In(S))
  BY <1>1, SumGrows
<1>3. SumOver(AmountOf, In(M) \cup In(S)) <= SumOver(AmountOf, In(M)) + SumOver(AmountOf, In(S))
  BY <1>1, SumOfUnion
<1>4. SumOver(AmountOf, In(M) \cup In(S)) \in Nat
  BY <1>1, SumIsNat
<1>5. /\ AmountIn(L, a) = SumOver(AmountOf, In(L)) /\ AmountIn(M, a) = SumOver(AmountOf, In(M))
      /\ AmountIn(S, a) = SumOver(AmountOf, In(S))
  BY AmountInIsSum DEF In
<1>6. AmountIn(L, a) \in Nat /\ AmountIn(M, a) \in Nat /\ AmountIn(S, a) \in Nat
  BY AmountIsNat
<1>7. AmountIn(L, a) <= AmountIn(M, a) + AmountIn(S, a)
  BY <1>2, <1>3, <1>4, <1>5, <1>6
<1> QED BY <1>6, <1>7 DEF Less

LEMMA AmountGrows ==
    ASSUME NEW M \in SUBSET Intents, NEW L \in SUBSET M, NEW a
    PROVE  AmountIn(L, a) <= AmountIn(M, a)
<1> DEFINE In(T) == {j \in T : Account(j) = a}
<1>1. /\ IsFiniteSet(Intents) /\ (\A j \in Intents : AmountOf[j] \in Nat)
      /\ In(M) \in SUBSET Intents /\ In(L) \in SUBSET In(M)
  BY LedgerAssumption DEF LedgerAssumption
<1> HIDE DEF In
<1>2. SumOver(AmountOf, In(L)) <= SumOver(AmountOf, In(M))
  BY <1>1, SumGrows
<1> QED BY <1>2, AmountInIsSum DEF In

\* The balances and the nonces: no condition on what handlers remember is needed, for what
\* they release too late or twice is cut off at 0.
HoldInv ==
    /\ user_nonces \subseteq {NonceRow(i) : i \in Intents}
    /\ pending_balances \in [Accounts -> Nat]
    /\ NoHoldWithoutOrder

LEMMA LiveAreIntents == LiveIntents \in SUBSET Intents /\ LiveIntents' \in SUBSET Intents
BY DEF LiveIntents

LEMMA AccountsOfIntents == \A i \in Intents : Account(i) \in Accounts
BY DEF Accounts

\* A step that holds nothing more, and ends no order.
LEMMA NoRelease ==
    ASSUME HoldInv, UNCHANGED <<user_nonces, pending_balances>>, LiveIntents \subseteq LiveIntents'
    PROVE  HoldInv'
<1>1. PICK L \in SUBSET Intents : L = LiveIntents
  BY LiveAreIntents
<1>2. PICK M \in SUBSET Intents : M = LiveIntents'
  BY LiveAreIntents
<1>3. ASSUME NEW a \in Accounts PROVE (pending_balances[a] <= AmountIn(LiveIntents, a))'
  <2>1. pending_balances[a] \in Nat /\ pending_balances[a] <= AmountIn(L, a)
    BY <1>1 DEF HoldInv, NoHoldWithoutOrder
  <2>2. AmountIn(L, a) <= AmountIn(M, a) /\ AmountIn(L, a) \in Nat /\ AmountIn(M, a) \in Nat
    BY <1>1, <1>2, AmountGrows, AmountIsNat
  <2>3. pending_balances'[a] <= AmountIn(M, a)
    BY <2>1, <2>2
  <2> QED BY <1>2, <2>3
<1> QED BY <1>3 DEF HoldInv, NoHoldWithoutOrder

\* A step that ends no orders but those in S, and releases what these hold, and perhaps
\* more: what is held is at most what is left of "before".
LEMMA ReleaseKeepsHold ==
    ASSUME HoldInv, user_nonces' \subseteq user_nonces, NEW S \in SUBSET Intents,
           LiveIntents \subseteq LiveIntents' \cup S,
           NEW before \in [Accounts -> Nat],
           \A a \in Accounts : before[a] <= pending_balances[a],
           pending_balances' = [a \in Accounts |-> Less(before[a], AmountIn(S, a))]
    PROVE  HoldInv'
<1>1. PICK L \in SUBSET Intents : L = LiveIntents
  BY LiveAreIntents
<1>2. PICK M \in SUBSET Intents : M = LiveIntents'
  BY LiveAreIntents
<1>3. ASSUME NEW a \in Accounts
      PROVE  Less(before[a], AmountIn(S, a)) \in Nat
             /\ Less(before[a], AmountIn(S, a)) <= AmountIn(M, a)
  <2>1. /\ before[a] \in Nat /\ pending_balances[a] \in Nat
        /\ before[a] <= pending_balances[a] /\ pending_balances[a] <= AmountIn(L, a)
    BY <1>1 DEF HoldInv, NoHoldWithoutOrder
  <2>2. AmountIn(L, a) \in Nat
    BY AmountIsNat
  <2>3. before[a] <= AmountIn(L, a) /\ L \subseteq M \cup S
    BY <1>1, <1>2, <2>1, <2>2
  <2> QED BY <2>1, <2>3, ReleaseFits
<1>4. pending_balances' \in [Accounts -> Nat]
  BY <1>3
<1>5. \A a \in Accounts : pending_balances'[a] <= AmountIn(M, a)
  BY <1>3
<1> QED BY <1>2, <1>4, <1>5 DEF HoldInv, NoHoldWithoutOrder

LEMMA StatusAfter ==
    ASSUME LedgerInv, NEW S, NEW status, intents' = SetStatus(S, status)
    PROVE  \A j \in Intents : intents'[j].status = IF j \in S THEN status ELSE intents[j].status
<1>1. \A j \in Intents : [intents[j] EXCEPT !.status = status].status = status
  BY RowIsTyped DEF Row
<1> QED BY <1>1 DEF SetStatus

\* The order is stored as a live one with its amount.
LEMMA StoreKeepsHold ==
    ASSUME LedgerInv, HoldInv, NEW h \in Handlers, Store(h)
    PROVE  HoldInv'
<1>1. PICK i \in Intents : i = The(h)
  BY HandlerHasRow DEF Store, OnRow
<1>2. /\ intents[i].status = "NONE"
      /\ user_nonces' = user_nonces \cup {NonceRow(i)}
      /\ pending_balances' = [pending_balances EXCEPT ![Account(i)] = @ + AmountOf[i]]
      /\ intents' = [intents EXCEPT ![i] =
             [status |-> InitialStatus(calls[h].mode), batch_id |-> calls[h].batch_id,
              mode |-> calls[h].mode, onchain_tx_hash |-> NoTx]]
  BY <1>1 DEF Store
<1>3. PICK L \in SUBSET Intents : L = LiveIntents
  BY LiveAreIntents
<1>4. i \notin L
  BY <1>2, <1>3 DEF LiveIntents, Live
<1>5. LiveIntents' = L \cup {i}
  <2>1. /\ intents'[i].status = InitialStatus(calls[h].mode)
        /\ \A j \in Intents \ {i} : intents'[j] = intents[j]
    BY <1>2 DEF LedgerInv, RowTypes
  <2>2. InitialStatus(calls[h].mode) \in Live
    BY DEF InitialStatus, Live
  <2> QED BY <1>3, <2>1, <2>2 DEF LiveIntents
<1>6. /\ pending_balances \in [Accounts -> Nat] /\ AmountOf[i] \in Nat /\ Account(i) \in Accounts
  BY AccountsOfIntents, LedgerAssumption DEF HoldInv, LedgerAssumption
<1>7. pending_balances' \in [Accounts -> Nat]
  BY <1>2, <1>6
<1>8. ASSUME NEW a \in Accounts PROVE pending_balances'[a] <= AmountIn(L \cup {i}, a)
  <2>1. pending_balances[a] <= AmountIn(L, a) /\ pending_balances[a] \in Nat
    BY <1>3, <1>6 DEF HoldInv, NoHoldWithoutOrder
  <2>2. AmountIn(L, a) \in Nat
    BY AmountIsNat
  <2>3. AmountIn(L \cup {i}, a) = IF Account(i) = a THEN AmountIn(L, a) + AmountOf[i]
                                  ELSE AmountIn(L, a)
    BY <1>4, AmountWithOrder
  <2>4. pending_balances'[a] = IF Account(i) = a THEN pending_balances[a] + AmountOf[i]
                               ELSE pending_balances[a]
    BY <1>2, <1>6
  <2> QED BY <1>6, <2>1, <2>2, <2>3, <2>4
<1>9. user_nonces' \subseteq {NonceRow(j) : j \in Intents}
  BY <1>2 DEF HoldInv
<1> QED BY <1>5, <1>7, <1>8, <1>9 DEF HoldInv, NoHoldWithoutOrder

\* The order ends and its amount is released, whatever had become of it.
LEMMA EndKeepsHold ==
    ASSUME LedgerInv, HoldInv, NEW h \in Handlers,
           UndoSubmit(h) \/ \E tx_hash \in TxHashes : MarkCanceled(h, tx_hash)
    PROVE  HoldInv'
<1>1. PICK i \in Intents : i = The(h)
  BY HandlerHasRow DEF UndoSubmit, MarkCanceled, OnRow
<1>2. user_nonces' \subseteq user_nonces /\ pending_balances' = Released({i})
  BY <1>1 DEF UndoSubmit, MarkCanceled
<1>3. \A j \in Intents \ {i} : intents'[j] = intents[j]
  BY <1>1 DEF UndoSubmit, MarkCanceled, SetStatus, LedgerInv, RowTypes
<1>4. LiveIntents \subseteq LiveIntents' \cup {i}
  BY <1>3 DEF LiveIntents
<1>5. /\ pending_balances \in [Accounts -> Nat]
      /\ \A a \in Accounts : pending_balances[a] <= pending_balances[a]
  BY DEF HoldInv
<1>6. PICK before \in [Accounts -> Nat] : before = pending_balances
  BY <1>5
<1> QED BY <1>2, <1>4, <1>5, <1>6, ReleaseKeepsHold DEF Released

\* The orders of a batch end: their amounts are released twice at most, never too little.
LEMMA SettleKeepsHold ==
    ASSUME LedgerInv, HoldInv, NEW h \in Handlers, Settle(h)
    PROVE  HoldInv'
<1> DEFINE ended == InBatch(calls[h].batch_id, {"PENDING", "AUCTION"})
           sum   == ended \cup InBatch(calls[h].batch_id, {"SETTLED"})
           once  == Released(calls[h].on)
<1>1. /\ intents' = SetStatus(ended, "SETTLED") /\ UNCHANGED user_nonces
      /\ pending_balances' = [a \in Accounts |-> Less(once[a], AmountIn(sum, a))]
  BY DEF Settle
<1>2. ended \subseteq sum /\ sum \in SUBSET Intents
  BY DEF InBatch
<1>3. PICK S \in SUBSET Intents : S = sum
  BY <1>2
<1>4. LiveIntents \subseteq LiveIntents' \cup S
  <2>1. \A j \in Intents : j \notin ended => intents'[j].status = intents[j].status
    BY <1>1, StatusAfter
  <2> QED BY <1>2, <1>3, <2>1 DEF LiveIntents
<1>5. /\ once \in [Accounts -> Nat]
      /\ \A a \in Accounts : once[a] <= pending_balances[a]
  <2>1. PICK T \in SUBSET Intents : T = calls[h].on
    BY HandlerTypes DEF Call
  <2>2. ASSUME NEW a \in Accounts
        PROVE  /\ Less(pending_balances[a], AmountIn(T, a)) \in Nat
               /\ Less(pending_balances[a], AmountIn(T, a)) <= pending_balances[a]
    <3>1. AmountIn(T, a) \in Nat /\ pending_balances[a] \in Nat
      BY AmountIsNat DEF HoldInv
    <3> QED BY <3>1 DEF Less
  <2>3. once = [a \in Accounts |-> Less(pending_balances[a], AmountIn(T, a))]
    BY <2>1 DEF Released
  <2> HIDE DEF once
  <2> QED BY <2>2, <2>3
<1> HIDE DEF once, sum
<1>6. PICK before \in [Accounts -> Nat] : before = once
  BY <1>5
<1> QED BY <1>1, <1>3, <1>4, <1>5, <1>6, ReleaseKeepsHold

\* The other steps hold and release nothing, and orders they write are live then.
LEMMA OthersKeepHold ==
    ASSUME LedgerInv, HoldInv, NEW h \in Handlers,
           \/ Request(h) \/ RecordCommit(h) \/ StampHash(h) \/ Reconcile(h)
           \/ CloseIntents(h) \/ Requeue(h) \/ CommitRejected(h) \/ Abandon(h)
           \/ \E tx_hash \in TxHashes : CommitAccepted(h, tx_hash)
    PROVE  HoldInv'
<1>1. UNCHANGED <<user_nonces, pending_balances>>
  BY DEF Request, RecordCommit, StampHash, Reconcile, CloseIntents, Requeue, CommitRejected,
         Abandon, CommitAccepted, tables, submit_intent, cancel_intent, report_canceled,
         report_committed, report_own_commit, close_batch, fail_batch, settle_batch
<1>2. \A j \in Intents : intents[j].status \in Live => intents'[j].status \in Live
  <2>1. CASE UNCHANGED intents
    BY <2>1
  <2>2. CASE RecordCommit(h) \/ StampHash(h) \/ Reconcile(h)
    <3>1. PICK i \in Intents : i = The(h)
      BY <2>2, HandlerHasRow DEF RecordCommit, StampHash, Reconcile, OnRow
    <3>2. \A j \in Intents \ {i} : intents'[j] = intents[j]
      BY <2>2, <3>1 DEF RecordCommit, StampHash, Reconcile, LedgerInv, RowTypes
    <3>3. intents'[i].status = intents[i].status \/ intents'[i].status = "PENDING"
      BY <2>2, <3>1, RowIsTyped DEF RecordCommit, StampHash, Reconcile, LedgerInv, RowTypes, Row
    <3> QED BY <3>2, <3>3 DEF Live
  <2>3. CASE CloseIntents(h)
    BY <2>3, StatusAfter DEF CloseIntents, Live
  <2>4. CASE Requeue(h)
    <3>1. \A j \in Intents : intents'[j].status \in {intents[j].status, "PENDING"}
      BY <2>4, RowIsTyped, ZenonT(30) DEF Requeue, Row
    <3> QED BY <3>1 DEF Live
  <2>5. \/ UNCHANGED intents \/ CloseIntents(h) \/ Requeue(h)
        \/ RecordCommit(h) \/ StampHash(h) \/ Reconcile(h)
    BY DEF Request, CommitRejected, Abandon, CommitAccepted, tables, submit_intent,
           cancel_intent, report_canceled, report_committed, report_own_commit, close_batch,
           fail_batch, settle_batch
  <2> QED BY <2>1, <2>2, <2>3, <2>4, <2>5
<1>3. LiveIntents \subseteq LiveIntents'
  BY <1>2 DEF LiveIntents
<1> QED BY <1>1, <1>3, NoRelease

LEMMA LedgerStepKeepsHold ==
    ASSUME LedgerInv, HoldInv, [LedgerNext]_ledgerVars
    PROVE  HoldInv'
<1>1. CASE NextWindow \/ UNCHANGED ledgerVars
  <2>1. UNCHANGED <<user_nonces, pending_balances, intents>>
    BY <1>1 DEF NextWindow, ledgerVars, tables
  <2> QED BY <2>1, NoRelease DEF LiveIntents
<1>2. ASSUME NEW h \in Handlers, Request(h) \/ Resume(h) PROVE HoldInv'
  BY <1>2, StoreKeepsHold, EndKeepsHold, SettleKeepsHold, OthersKeepHold DEF Resume
<1> QED BY <1>1, <1>2 DEF LedgerNext

LEMMA LedgerInitHold == LedgerInit => HoldInv
<1> SUFFICES ASSUME LedgerInit PROVE HoldInv
  OBVIOUS
<1>1. user_nonces = {} /\ pending_balances = [a \in Accounts |-> 0]
  BY DEF LedgerInit
<1>2. PICK L \in SUBSET Intents : L = LiveIntents
  BY LiveAreIntents
<1>3. \A a \in Accounts : AmountIn(L, a) \in Nat
  BY AmountIsNat
<1> QED BY <1>1, <1>2, <1>3 DEF HoldInv, NoHoldWithoutOrder

LEMMA LedgerAlwaysHold == LedgerSpec => []HoldInv
BY LedgerAlwaysInv, LedgerInitHold, LedgerStepKeepsHold, PTL DEF LedgerSpec

\* api.rs: the tables keep their types; above all no update makes a balance negative,
\* whatever is released too often.
THEOREM LedgerTypeCorrect == LedgerSpec => []LedgerTypeOK
<1>1. LedgerInv /\ HoldInv => LedgerTypeOK
  BY DEF LedgerInv, RowTypes, BatchRow, HoldInv, LedgerTypeOK
<1> QED BY <1>1, LedgerAlwaysInv, LedgerAlwaysHold, PTL

\* submit_intent, its undoing, cancel_intent, reconcile_onchain_intent and settle_batch,
\* cut at their awaits in any interleaving and abandoned at any of them, hold for an
\* account at most what its live orders need: no balance is stranded by an order that is
\* over.
THEOREM NoBalanceIsStranded == LedgerSpec => []NoHoldWithoutOrder
<1>1. HoldInv => NoHoldWithoutOrder
  BY DEF HoldInv
<1> QED BY <1>1, LedgerAlwaysHold, PTL
=============================================================================
