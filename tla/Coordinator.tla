---------------------------- MODULE Coordinator ----------------------------
(***************************************************************************)
(* backend/coordinator/src/batch_scheduler.rs: one task that sleeps until  *)
(* a batch window closes, opens its auction on chain, tells the gateway,   *)
(* waits for solutions and asks the chain to decide.  It keeps nothing on  *)
(* disk.  Each await is a step of its own: what the scheduler waits for    *)
(* may fail, or take time, at each of them.                                *)
(*                                                                         *)
(* A transaction is sent, not awaited: what the chain makes of it the      *)
(* scheduler never learns.  The answer to a request that did arrive may be *)
(* lost.                                                                   *)
(***************************************************************************)
EXTENDS Naturals, Sequences

CONSTANTS Genesis,         \* genesis_timestamp
          BatchWindow,     \* batch_window_seconds
          AuctionWait,     \* auction_wait_seconds
          MaxDelay,        \* longest time the calls made for one batch take together
          MaxFaults,       \* bound: faults of the network and of the process
          LastBatch        \* bound: the last batch

ASSUME CoordinatorAssumption ==
    /\ Genesis \in Nat \ {0}             \* the three are checked by validate
    /\ BatchWindow \in Nat \ {0}
    /\ AuctionWait \in Nat \ {0}
    /\ MaxDelay \in Nat
    /\ AuctionWait + MaxDelay < BatchWindow     \* or it is late for the next window
    /\ MaxFaults \in Nat
    /\ LastBatch \in Nat

BatchIds == 0..LastBatch

VARIABLES
    clock,        \* the coordinator's clock
    scheduler,    \* where the task is, and what it remembers
    sent,         \* its transactions that are not yet in a block, in nonce order
    told,         \* what reached the gateway: <<"closed", batch, count>>, <<"failed", batch>>
    opened,       \* history: the batches create_batch was sent for
    disturbed,    \* history: the batches whose end may go unnoticed
    faults        \* history: the number of faults

coordinatorVars == <<clock, scheduler, sent, told, opened, disturbed, faults>>

Places == {"loop", "sleep", "count", "create", "close", "wait", "finalize", "winner",
           "createFailed", "formFailed", "finalizeFailed", "auctionFailed", "down"}

\* "due" is when the step the task is at is over at the latest.
Scheduler == [at : Places, batch : BatchIds, close_time : Nat, count : {0, 1}, due : Nat]

Transaction == [call : {"create_batch", "finalize_auction"}, batch : BatchIds, at : Nat]

CoordinatorTypeOK ==
    /\ clock \in Nat
    /\ scheduler \in Scheduler
    /\ sent \in Seq(Transaction)
    /\ told \subseteq ({"closed"} \X BatchIds \X {0, 1}) \cup ({"failed"} \X BatchIds)
    /\ opened \subseteq BatchIds
    /\ disturbed \subseteq BatchIds
    /\ faults \in 0..MaxFaults

-----------------------------------------------------------------------------
(* BatchScheduler *)

compute_batch_id(timestamp) ==
    IF timestamp < Genesis THEN 0 ELSE (timestamp - Genesis) \div BatchWindow

compute_batch_close_time(batch) == Genesis + batch * BatchWindow

closed_batch_at_timestamp(timestamp) ==
    LET active == compute_batch_id(timestamp)
    IN  [batch |-> IF active = 0 THEN 0 ELSE active - 1,
         close_time |-> compute_batch_close_time(active)]

\* Mutant: a window that closes at this very moment is still to come.
MutantNextCloseInclusive(timestamp) ==
    compute_batch_close_time(compute_batch_id(timestamp + BatchWindow - 1))

next_batch_close_time(timestamp) ==
    compute_batch_close_time(compute_batch_id(timestamp) + 1)

-----------------------------------------------------------------------------
(* run_scheduler *)

CoordinatorInit ==
    /\ clock = Genesis - 1
    /\ scheduler = [at |-> "loop", batch |-> 0, close_time |-> 0, count |-> 0, due |-> 0]
    /\ sent = <<>>
    /\ told = {}
    /\ opened = {}
    /\ disturbed = {}
    /\ faults = 0

Goto(place) == scheduler' = [scheduler EXCEPT !.at = place]

\* One more fault, after which these batches may end unnoticed.
Fault(batches) ==
    /\ faults < MaxFaults
    /\ faults' = faults + 1
    /\ disturbed' = disturbed \cup batches

NoFault == UNCHANGED <<disturbed, faults>>

\* The next close is always ahead: time_until_next_batch() is never 0.
SleepUntilClose ==
    /\ scheduler.at = "loop"
    /\ scheduler' = [scheduler EXCEPT !.at = "sleep", !.due = next_batch_close_time(clock)]
    /\ UNCHANGED <<clock, sent, told, opened>> /\ NoFault

CloseWindow ==
    LET closed == closed_batch_at_timestamp(clock) IN
    /\ scheduler.at = "sleep"
    /\ clock >= scheduler.due
    /\ closed.batch <= LastBatch                     \* bound
    /\ scheduler' = [at |-> "count", batch |-> closed.batch, count |-> 0,
                     close_time |-> closed.close_time, due |-> closed.close_time + MaxDelay]
    /\ UNCHANGED <<clock, sent, told, opened>> /\ NoFault

\* form_batch: an answer that is late, wrong or missing counts as no intents.
CountIntents(count) ==
    /\ scheduler.at = "count"
    /\ scheduler' = [scheduler EXCEPT !.at = "create", !.count = count]
    /\ UNCHANGED <<clock, sent, told, opened>> /\ NoFault

Send(call) ==
    sent' = Append(sent, [call |-> call, batch |-> scheduler.batch, at |-> clock])

CreateBatch ==
    /\ scheduler.at = "create"
    /\ Send("create_batch")
    /\ opened' = opened \cup {scheduler.batch}
    /\ Goto("close")
    /\ UNCHANGED <<clock, told>> /\ NoFault

\* The node refuses the transaction, or takes it and the answer is lost.
CreateFails ==
    /\ scheduler.at = "create"
    /\ \/ UNCHANGED <<sent, opened>>
       \/ Send("create_batch") /\ opened' = opened \cup {scheduler.batch}
    /\ Goto("createFailed")
    /\ Fault({})
    /\ UNCHANGED <<clock, told>>

\* Mutant: the auction is decided as soon as the gateway knows of it.
MutantNoAuctionWait == clock

AuctionWaitOver == clock + AuctionWait

Notified == scheduler' = [scheduler EXCEPT !.at = "wait", !.due = AuctionWaitOver]

NotifyGateway ==
    /\ scheduler.at = "close"
    /\ told' = told \cup {<<"closed", scheduler.batch, scheduler.count>>}
    /\ Notified
    /\ UNCHANGED <<clock, sent, opened>> /\ NoFault

\* The gateway is out of reach: only a warning.
NotifyFails ==
    /\ scheduler.at = "close"
    /\ Notified
    /\ Fault({})
    /\ UNCHANGED <<clock, sent, told, opened>>

\* trigger_auction
WaitIsOver ==
    /\ scheduler.at = "wait"
    /\ clock >= scheduler.due
    /\ scheduler' = [scheduler EXCEPT !.at = "finalize",
                         !.due = scheduler.close_time + MaxDelay + AuctionWait]
    /\ UNCHANGED <<clock, sent, told, opened>> /\ NoFault

FinalizeAuction ==
    /\ scheduler.at = "finalize"
    /\ Send("finalize_auction")
    /\ Goto("winner")
    /\ UNCHANGED <<clock, told, opened>> /\ NoFault

FinalizeFails ==
    /\ scheduler.at = "finalize"
    /\ UNCHANGED sent \/ Send("finalize_auction")
    /\ Goto("finalizeFailed")
    /\ Fault({})
    /\ UNCHANGED <<clock, told, opened>>

\* The winner is read and logged, whatever it is.
LogWinner ==
    /\ scheduler.at = "winner"
    /\ Goto("loop")
    /\ UNCHANGED <<clock, sent, told, opened>> /\ NoFault

\* Each failure is reported where it occurs and again by the loop.
AfterReport == [createFailed |-> "formFailed", formFailed |-> "loop",
                finalizeFailed |-> "auctionFailed", auctionFailed |-> "loop"]

report_batch_failure ==
    /\ scheduler.at \in DOMAIN AfterReport
    /\ told' = told \cup {<<"failed", scheduler.batch>>}
    /\ Goto(AfterReport[scheduler.at])
    /\ UNCHANGED <<clock, sent, opened>> /\ NoFault

\* An error of the report is dropped.
ReportFails ==
    /\ scheduler.at \in DOMAIN AfterReport
    /\ Goto(AfterReport[scheduler.at])
    /\ Fault({scheduler.batch})
    /\ UNCHANGED <<clock, sent, told, opened>>

-----------------------------------------------------------------------------
(* The process ends, and is started again at any later time. *)

\* The batch the task is at, or is just to begin with.
Current ==
    CASE scheduler.at = "loop" -> {}
      [] scheduler.at = "sleep" ->
            IF clock >= scheduler.due THEN {closed_batch_at_timestamp(clock).batch} ELSE {}
      [] OTHER -> {scheduler.batch}

\* It ends, or waits for a silent peer and is as good as ended: no request has a timeout.
Crash ==
    /\ scheduler.at # "down"
    /\ Fault(Current \cap BatchIds)
    /\ Goto("down")
    /\ UNCHANGED <<clock, sent, told, opened>>

Restart ==
    /\ scheduler.at = "down"
    /\ Goto("loop")
    /\ UNCHANGED <<clock, sent, told, opened>> /\ NoFault

\* Time does not pass a moment at which the task has something to do.
Punctual ==
    \/ scheduler.at = "down"
    \/ scheduler.at # "loop" /\ clock < scheduler.due
    \/ scheduler.at = "sleep" /\ closed_batch_at_timestamp(clock).batch > LastBatch  \* bound

\* A window that closes while the process is down is not opened.
Missed == IF scheduler.at = "down" /\ compute_batch_id(clock + 1) > compute_batch_id(clock)
          THEN {compute_batch_id(clock)} \cap BatchIds ELSE {}

Work ==
    \/ SleepUntilClose \/ CloseWindow
    \/ \E count \in {0, 1} : CountIntents(count)
    \/ CreateBatch \/ NotifyGateway \/ WaitIsOver
    \/ FinalizeAuction \/ LogWinner \/ report_batch_failure

Failure == CreateFails \/ NotifyFails \/ FinalizeFails \/ ReportFails \/ Crash

CoordinatorStep == Work \/ Failure \/ Restart
=============================================================================
