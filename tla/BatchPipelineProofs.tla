------------------------ MODULE BatchPipelineProofs ------------------------
(***************************************************************************)
(* Proofs about BatchPipeline, for any windows, waits and delays that      *)
(* satisfy its assumptions and any number of faults: no batch is opened    *)
(* twice, and every window that is not excused ends in time.               *)
(***************************************************************************)
EXTENDS BatchPipeline, TLAPS

\* The places at which the task works on a batch, by the time it has for them.
Early == {"count", "create", "close", "createFailed", "formFailed"}
Late  == {"finalize", "winner", "finalizeFailed", "auctionFailed"}
Busy  == Early \cup {"wait"} \cup Late

\* No later window has closed that this module looks at.
Beyond == closed_batch_at_timestamp(clock).batch > LastBatch

\* The next window closes at the end of the sleep, and not before; a batch that is worked
\* on is the one that closed last.
Timely ==
    LET s == scheduler IN
    /\ s.at = "sleep" =>
          /\ \E k \in Nat : s.due = CloseTime(k) /\ (k = 0 \/ CloseTime(k - 1) <= clock)
          /\ clock <= s.due \/ Beyond
    /\ s.at \in Busy => s.close_time = CloseTime(s.batch) /\ clock \in s.close_time..s.due
    /\ s.at \in Early => s.due = s.close_time + MaxDelay
    /\ s.at = "wait" => s.due - AuctionWait \in s.close_time..s.close_time + MaxDelay
    /\ s.at \in Late => /\ s.due = s.close_time + MaxDelay + AuctionWait
                        /\ clock >= s.close_time + AuctionWait

\* What was opened is over, and before what is opened next.
OpenedBefore ==
    \A b \in opened :
        /\ CloseTime(b) <= clock
        /\ scheduler.at = "sleep" => CloseTime(b) < scheduler.due
        /\ scheduler.at \in {"count", "create"} => CloseTime(b) < scheduler.close_time

\* Transactions get into a block in the order and in the time they should.
SentInTime ==
    \A k \in DOMAIN sent :
        /\ clock \in sent[k].at..sent[k].at + InclusionTime
        /\ \A j \in 1..k : sent[j].at <= sent[k].at

IsCall(tx, call, b) == tx.call = call /\ tx.batch = b

\* The batch is created by the time the transaction at place k is executed.
CreatedBy(b, k) ==
    status[b] # "OPEN" \/ \E j \in 1..k - 1 : IsCall(sent[j], "create_batch", b)

\* The transaction at place k will decide the batch, if its block is not dated too early.
Decides(b, k) ==
    /\ IsCall(sent[k], "finalize_auction", b)
    /\ sent[k].at - AuctionWait \in CloseTime(b)..CloseTime(b) + MaxDelay
    /\ CreatedBy(b, k)

\* Nothing more is needed from the task for the batch to end.
Ended(b) ==
    \/ Decided(b)
    \/ <<"failed", b>> \in told
    \/ \E k \in DOMAIN sent : Decides(b, k)

\* The task is with the batch, or about to begin with it.
InWork(b) ==
    \/ scheduler.at = "sleep" /\ scheduler.due = CloseTime(b) /\ clock = CloseTime(b)
    \/ /\ scheduler.batch = b
       /\ \/ scheduler.at \in {"count", "create", "createFailed", "finalizeFailed"}
          \/ scheduler.at \in {"close", "wait", "finalize"} /\ CreatedBy(b, Len(sent) + 1)

NoneForgotten ==
    \A b \in BatchIds \ (disturbed \cup spoiled) : clock >= CloseTime(b) => Ended(b) \/ InWork(b)

WonHasBid == \A b \in BatchIds : status[b] = "SETTLED" => b \in bidders

PipelineInv ==
    /\ PipelineTypeOK
    /\ Timely
    /\ OpenedBefore
    /\ SentInTime
    /\ NoneForgotten
    /\ WonHasBid

-----------------------------------------------------------------------------
(* Lemmas about windows. *)

LEMMA Constants ==
    /\ {Genesis, BatchWindow, AuctionWait, MaxDelay, MaxFaults, LastBatch, SolutionWindow,
        AuctionResolution, InclusionTime, MaxLag, MaxTime} \subseteq Nat
    /\ Genesis > 0 /\ BatchWindow > 0 /\ AuctionWait > 0
    /\ AuctionWait + MaxDelay < BatchWindow
    /\ AuctionWait >= SolutionWindow
    /\ AuctionWait + MaxDelay + InclusionTime <= SolutionWindow + AuctionResolution
    /\ BatchIds \subseteq Nat
    BY CoordinatorAssumption, PipelineAssumption
    DEF CoordinatorAssumption, PipelineAssumption, BatchIds

\* Windows close one after the other, at least a window's length apart.
LEMMA WindowsClose ==
    /\ \A b \in Nat : CloseTime(b) \in Nat
    /\ CloseTime(0) >= Genesis + BatchWindow
    /\ \A b, c \in Nat : b < c => CloseTime(b) + BatchWindow <= CloseTime(c)
<1>1. BatchWindow \in Nat /\ Genesis \in Nat /\ BatchWindow > 0
    BY Constants
<1>2. \A b \in Nat : CloseTime(b) \in Nat /\ CloseTime(b) = Genesis + (b + 1) * BatchWindow
    BY <1>1 DEF CloseTime, compute_batch_close_time
<1>3. ASSUME NEW b \in Nat, NEW c \in Nat, b < c
      PROVE  CloseTime(b) + BatchWindow <= CloseTime(c)
    <2>1. PICK d \in Nat : c = b + 1 + d
        <3>1. c - b - 1 \in Nat /\ c = b + 1 + (c - b - 1)
            BY <1>3
        <3>2. QED
            BY <3>1
    <2>2. (c + 1) * BatchWindow = (b + 1) * BatchWindow + BatchWindow + d * BatchWindow
        BY <1>1, <2>1
    <2>3. d * BatchWindow \in Nat /\ (b + 1) * BatchWindow \in Nat
        BY <1>1
    <2> DEFINE m == (b + 1) * BatchWindow
               e == d * BatchWindow
    <2>4. /\ m \in Nat /\ e \in Nat
          /\ CloseTime(b) = Genesis + m /\ CloseTime(c) = Genesis + (m + BatchWindow + e)
        BY <1>2, <2>2, <2>3
    <2> HIDE DEF m, e
    <2>5. QED
        BY <1>1, <2>4
<1>4. CloseTime(0) >= Genesis + BatchWindow
    BY <1>1, <1>2
<1>5. QED
    BY <1>2, <1>3, <1>4

LEMMA WindowsInOrder ==
    ASSUME NEW b \in Nat, NEW c \in Nat, b <= c
    PROVE  CloseTime(b) \in Nat /\ CloseTime(c) \in Nat /\ CloseTime(b) <= CloseTime(c)
<1>1. CloseTime(b) \in Nat /\ CloseTime(c) \in Nat
    BY WindowsClose
<1>2. CASE b = c
    BY <1>1, <1>2
<1>3. CASE b < c
    <2>1. CloseTime(b) + BatchWindow <= CloseTime(c)
        BY <1>3, WindowsClose
    <2>2. QED
        BY <1>1, <2>1, Constants
<1>4. QED
    BY <1>1, <1>2, <1>3

\* The batch of a moment is the one whose window closes next.
LEMMA BatchAt ==
    ASSUME NEW t \in Nat
    PROVE  /\ compute_batch_id(t) \in Nat
           /\ t < CloseTime(compute_batch_id(t))
           /\ compute_batch_id(t) # 0 => CloseTime(compute_batch_id(t) - 1) <= t
           /\ next_batch_close_time(t) = CloseTime(compute_batch_id(t))
<1> DEFINE k == compute_batch_id(t)
<1>1. BatchWindow \in Nat /\ Genesis \in Nat /\ BatchWindow > 0
    BY Constants
<1>2. CASE t < Genesis
    <2>1. k = 0
        BY <1>2 DEF compute_batch_id
    <2>2. QED
        BY <1>1, <1>2, <2>1, WindowsClose DEF CloseTime, next_batch_close_time
<1>3. CASE t >= Genesis
    <2>1. k = (t - Genesis) \div BatchWindow
        BY <1>1, <1>3 DEF compute_batch_id
    <2>2. t - Genesis \in Nat
        BY <1>1, <1>3
    <2>3. k \in Nat
        BY <1>1, <2>1, <2>2
    <2>4. k * BatchWindow <= t - Genesis /\ t - Genesis < (k + 1) * BatchWindow
        BY <1>1, <2>1, <2>2
    <2> HIDE DEF k
    <2>5. CloseTime(k) = Genesis + (k + 1) * BatchWindow
        BY DEF CloseTime, compute_batch_close_time
    <2>6. k # 0 => CloseTime(k - 1) = Genesis + k * BatchWindow
        BY <1>1, <2>3 DEF CloseTime, compute_batch_close_time
    <2>7. /\ t < CloseTime(k)
          /\ k # 0 => CloseTime(k - 1) <= t
        <3>1. k * BatchWindow \in Nat /\ (k + 1) * BatchWindow \in Nat
            BY <1>1, <2>3
        <3>2. QED
            BY <1>1, <2>4, <2>5, <2>6, <3>1
    <2>8. QED
        BY <2>3, <2>7 DEF k, CloseTime, next_batch_close_time
<1>4. QED
    BY <1>1, <1>2, <1>3

LEMMA OneBatchAt ==
    ASSUME NEW t \in Nat, NEW b \in Nat, t < CloseTime(b), b # 0 => CloseTime(b - 1) <= t
    PROVE  compute_batch_id(t) = b
<1> DEFINE k == compute_batch_id(t)
<1>1. /\ k \in Nat /\ t < CloseTime(k)
      /\ k # 0 => CloseTime(k - 1) <= t
    BY BatchAt
<1> HIDE DEF k
<1>2. ~ (k < b)
    <2>1. SUFFICES ASSUME k < b PROVE FALSE
        OBVIOUS
    <2>2. b - 1 \in Nat /\ k <= b - 1
        BY <1>1, <2>1
    <2>3. CloseTime(k) <= CloseTime(b - 1)
        BY <1>1, <2>2, WindowsInOrder
    <2>4. /\ CloseTime(k) \in Nat /\ CloseTime(b - 1) \in Nat
          /\ CloseTime(b - 1) <= t /\ t < CloseTime(k)
        BY <1>1, <2>1, <2>2, WindowsClose
    <2>5. QED
        BY <2>3, <2>4
<1>3. ~ (b < k)
    <2>1. SUFFICES ASSUME b < k PROVE FALSE
        OBVIOUS
    <2>2. k - 1 \in Nat /\ b <= k - 1
        BY <1>1, <2>1
    <2>3. CloseTime(b) <= CloseTime(k - 1)
        BY <1>1, <2>2, WindowsInOrder
    <2>4. /\ CloseTime(b) \in Nat /\ CloseTime(k - 1) \in Nat
          /\ CloseTime(k - 1) <= t /\ t < CloseTime(b)
        BY <1>1, <2>1, <2>2, WindowsClose
    <2>5. QED
        BY <2>3, <2>4
<1>4. QED
    BY <1>1, <1>2, <1>3 DEF k

\* The batch that closed last.
LEMMA ClosedAt ==
    ASSUME NEW t \in Nat
    PROVE  LET closed == closed_batch_at_timestamp(t)
               k      == compute_batch_id(t) IN
           /\ closed.batch \in Nat
           /\ closed.batch = IF k = 0 THEN 0 ELSE k - 1
           /\ k # 0 => closed.close_time = CloseTime(k - 1)
<1>1. compute_batch_id(t) \in Nat
    BY BatchAt
<1> DEFINE k == compute_batch_id(t)
<1>2. /\ closed_batch_at_timestamp(t).batch = IF k = 0 THEN 0 ELSE k - 1
      /\ closed_batch_at_timestamp(t).close_time = compute_batch_close_time(k)
    BY DEF closed_batch_at_timestamp
<1> HIDE DEF k
<1>3. k # 0 => CloseTime(k - 1) = compute_batch_close_time(k)
    <2>1. k \in Nat
        BY <1>1 DEF k
    <2>2. k # 0 => (k - 1) + 1 = k
        BY <2>1
    <2>3. QED
        BY <2>2 DEF CloseTime
<1>4. k \in Nat
    BY <1>1 DEF k
<1>5. QED
    BY <1>2, <1>3, <1>4 DEF k

\* At the moment a window closes.
LEMMA JustClosed ==
    ASSUME NEW b \in Nat
    PROVE  /\ compute_batch_id(CloseTime(b)) = b + 1
           /\ closed_batch_at_timestamp(CloseTime(b)).batch = b
           /\ closed_batch_at_timestamp(CloseTime(b)).close_time = CloseTime(b)
<1>1. CloseTime(b) \in Nat /\ CloseTime(b) < CloseTime(b + 1)
    <2>1. b + 1 \in Nat /\ b < b + 1
        OBVIOUS
    <2>2. QED
        BY <2>1, WindowsClose, Constants
<1>2. b + 1 # 0 /\ b + 1 \in Nat /\ (b + 1) - 1 = b
    OBVIOUS
<1>3. compute_batch_id(CloseTime(b)) = b + 1
    BY <1>1, <1>2, OneBatchAt
<1>4. QED
    BY <1>1, <1>2, <1>3, ClosedAt

-----------------------------------------------------------------------------
(* What the actions have in common. *)

Sends(tx) == sent' = Append(sent, tx)

CreateTx   == [call |-> "create_batch", batch |-> scheduler.batch, at |-> clock]
FinalizeTx == [call |-> "finalize_auction", batch |-> scheduler.batch, at |-> clock]

\* The fields of the task.
LEMMA SchedulerFields ==
    ASSUME scheduler \in Scheduler
    PROVE  /\ scheduler = [at |-> scheduler.at, batch |-> scheduler.batch,
                           close_time |-> scheduler.close_time, count |-> scheduler.count,
                           due |-> scheduler.due]
           /\ scheduler.at \in Places /\ scheduler.batch \in BatchIds
           /\ scheduler.close_time \in Nat /\ scheduler.count \in {0, 1}
           /\ scheduler.due \in Nat
    BY DEF Scheduler

\* A step of the coordinator leaves the chain and the solver alone, forgets nothing it
\* told or sent, and sends at most one transaction, for the batch it is at.
LEMMA CoordinatorFrame ==
    ASSUME PipelineTypeOK, CoordinatorActs
    PROVE  /\ UNCHANGED <<clock, chainVars, solverVars>>
           /\ \/ sent' = sent /\ opened' = opened
              \/ /\ scheduler.at = "create" /\ Sends(CreateTx)
                 /\ opened' = opened \cup {scheduler.batch}
              \/ scheduler.at = "finalize" /\ Sends(FinalizeTx) /\ opened' = opened
           /\ \/ told' = told
              \/ /\ scheduler.at = "close"
                 /\ told' = told \cup {<<"closed", scheduler.batch, scheduler.count>>}
              \/ told' = told \cup {<<"failed", scheduler.batch>>}
           /\ faults' \in 0..MaxFaults
           /\ disturbed \subseteq disturbed' /\ disturbed' \subseteq BatchIds
<1>1. UNCHANGED <<chainVars, solverVars>> /\ CoordinatorStep
    BY DEF CoordinatorActs
<1>2. /\ faults \in 0..MaxFaults /\ disturbed \subseteq BatchIds
      /\ scheduler.batch \in BatchIds /\ MaxFaults \in Nat
    BY SchedulerFields, Constants DEF PipelineTypeOK, CoordinatorTypeOK
<1>3. CASE Work
    <2>1. CASE SleepUntilClose \/ CloseWindow \/ (\E count \in {0, 1} : CountIntents(count))
               \/ WaitIsOver \/ LogWinner
        BY <2>1, <1>1, <1>2 DEF SleepUntilClose, CloseWindow, CountIntents, WaitIsOver, LogWinner, NoFault
    <2>2. CASE CreateBatch \/ FinalizeAuction
        BY <2>2, <1>1, <1>2 DEF CreateBatch, FinalizeAuction, NoFault, Send, Sends, CreateTx, FinalizeTx
    <2>3. CASE NotifyGateway \/ report_batch_failure
        BY <2>3, <1>1, <1>2 DEF NotifyGateway, report_batch_failure, NoFault
    <2>4. QED
        BY <1>3, <2>1, <2>2, <2>3, <1>1 DEF Work
<1>4. ASSUME NEW B, Fault(B), B \subseteq BatchIds
      PROVE  /\ faults' \in 0..MaxFaults
             /\ disturbed \subseteq disturbed' /\ disturbed' \subseteq BatchIds
    BY <1>4, <1>2 DEF Fault
<1>5. CASE Failure
    <2>1. CASE CreateFails
        <3>1. Fault({}) /\ {} \subseteq BatchIds
            BY <2>1 DEF CreateFails
        <3>2. QED
            BY <2>1, <3>1, <1>1, <1>4 DEF CreateFails, Send, Sends, CreateTx
    <2>2. CASE NotifyFails
        <3>1. Fault({}) /\ {} \subseteq BatchIds
            BY <2>2 DEF NotifyFails
        <3>2. QED
            BY <2>2, <3>1, <1>1, <1>4 DEF NotifyFails
    <2>3. CASE FinalizeFails
        <3>1. Fault({}) /\ {} \subseteq BatchIds
            BY <2>3 DEF FinalizeFails
        <3>2. QED
            BY <2>3, <3>1, <1>1, <1>4 DEF FinalizeFails, Send, Sends, FinalizeTx
    <2>4. CASE ReportFails
        <3>1. Fault({scheduler.batch}) /\ {scheduler.batch} \subseteq BatchIds
            BY <2>4, <1>2 DEF ReportFails
        <3>2. QED
            BY <2>4, <3>1, <1>1, <1>4 DEF ReportFails
    <2>5. CASE Crash
        <3>1. Fault(Current \cap BatchIds) /\ (Current \cap BatchIds) \subseteq BatchIds
            BY <2>5 DEF Crash
        <3>2. QED
            BY <2>5, <3>1, <1>1, <1>4 DEF Crash
    <2>6. QED
        BY <1>5, <2>1, <2>2, <2>3, <2>4, <2>5 DEF Failure
<1>6. CASE Restart
    BY <1>6, <1>1, <1>2 DEF Restart, NoFault
<1>7. QED
    BY <1>1, <1>3, <1>5, <1>6 DEF CoordinatorStep

\* What the task is after its step.
LEMMA SchedulerStep ==
    ASSUME PipelineTypeOK, CoordinatorActs
    PROVE  scheduler' \in Scheduler
<1>1. /\ scheduler \in Scheduler /\ clock \in Nat
      /\ MaxDelay \in Nat /\ AuctionWait \in Nat
    BY Constants DEF PipelineTypeOK, CoordinatorTypeOK
<1>2. ASSUME NEW p \in Places, NEW d \in Nat, NEW c \in {0, 1}
      PROVE  [scheduler EXCEPT !.at = p, !.count = c, !.due = d] \in Scheduler
    BY <1>1 DEF Scheduler
<1>3. ASSUME NEW p \in Places, Goto(p)
      PROVE  scheduler' \in Scheduler
    BY <1>1, <1>3 DEF Scheduler, Goto
<1>4. ASSUME NEW p \in Places, NEW d \in Nat
      PROVE  [scheduler EXCEPT !.at = p, !.due = d] \in Scheduler
    BY <1>1 DEF Scheduler
<1>5. CASE SleepUntilClose
    <2>1. next_batch_close_time(clock) \in Nat
        BY <1>1, BatchAt, WindowsClose
    <2>2. QED
        BY <1>4, <1>5, <2>1 DEF SleepUntilClose, Places
<1>6. CASE CloseWindow
    <2>1. closed_batch_at_timestamp(clock).batch \in BatchIds
        BY <1>1, <1>6, ClosedAt, Constants DEF CloseWindow, BatchIds
    <2>2. closed_batch_at_timestamp(clock).close_time \in Nat
        <3>1. compute_batch_id(clock) \in Nat
            BY <1>1, BatchAt
        <3>2. closed_batch_at_timestamp(clock).close_time
                  = Genesis + compute_batch_id(clock) * BatchWindow
            BY DEF closed_batch_at_timestamp, compute_batch_close_time
        <3>3. QED
            BY <3>1, <3>2, Constants
    <2>3. \A b \in BatchIds, c \in Nat, d \in Nat :
              [at |-> "count", batch |-> b, count |-> 0, close_time |-> c, due |-> d]
                  \in Scheduler
        BY DEF Scheduler, Places
    <2>4. closed_batch_at_timestamp(clock).close_time + MaxDelay \in Nat
        BY <1>1, <2>2
    <2>5. QED
        BY <1>6, <2>1, <2>2, <2>3, <2>4 DEF CloseWindow
<1>7. CASE \E count \in {0, 1} : CountIntents(count)
    BY <1>1, <1>7 DEF CountIntents, Scheduler, Places
<1>8. CASE NotifyGateway \/ NotifyFails
    <2>1. AuctionWaitOver \in Nat
        BY <1>1 DEF AuctionWaitOver
    <2>2. QED
        BY <1>4, <1>8, <2>1 DEF NotifyGateway, NotifyFails, Notified, Places
<1>9. CASE WaitIsOver
    <2>1. scheduler.close_time + MaxDelay + AuctionWait \in Nat
        BY <1>1, SchedulerFields
    <2>2. QED
        BY <1>4, <1>9, <2>1 DEF WaitIsOver, Places
<1>10. CASE report_batch_failure \/ ReportFails
    <2>1. scheduler.at \in DOMAIN AfterReport => AfterReport[scheduler.at] \in Places
        BY DEF AfterReport, Places
    <2>2. QED
        BY <1>3, <1>10, <2>1 DEF report_batch_failure, ReportFails
<1>11. CASE CreateBatch \/ CreateFails \/ FinalizeAuction \/ FinalizeFails \/ LogWinner
            \/ Crash \/ Restart
    BY <1>3, <1>11 DEF CreateBatch, CreateFails, FinalizeAuction, FinalizeFails, LogWinner,
        Crash, Restart, Places
<1>12. QED
    BY <1>5, <1>6, <1>7, <1>8, <1>9, <1>10, <1>11
    DEF CoordinatorActs, CoordinatorStep, Work, Failure

\* What the chain makes of a transaction.
LEMMA Executed ==
    ASSUME PipelineTypeOK, NEW tx, NEW now \in Nat, tx.batch \in BatchIds, Execute(tx, now),
           tx.call \in {"create_batch", "finalize_auction", "submit_solution", "settle_batch"}
    PROVE  /\ status' \in [BatchIds -> {"OPEN", "AUCTION", "SETTLED", "FAILED"}]
           /\ bidders \subseteq bidders' /\ bidders' \subseteq BatchIds
           /\ settled' \subseteq BatchIds /\ spoiled' = spoiled
           /\ \A b \in settled' : b \in settled \/ status[b] = "SETTLED"
           /\ \A b \in BatchIds :
                 /\ status[b] # "OPEN" => status'[b] # "OPEN"
                 /\ Decided(b) => Decided(b)'
                 /\ status'[b] = "SETTLED" => status[b] = "SETTLED" \/ b \in bidders
           /\ tx.call \in {"submit_solution", "settle_batch"} => status' = status
           /\ tx.call = "create_batch" => status'[tx.batch] # "OPEN"
           /\ /\ tx.call = "finalize_auction" /\ status[tx.batch] # "OPEN" /\ tx.batch \notin spoiled
              /\ now \in Deadline(tx.batch)..Deadline(tx.batch) + AuctionResolution
              => Decided(tx.batch)'
<1>1. /\ status \in [BatchIds -> {"OPEN", "AUCTION", "SETTLED", "FAILED"}]
      /\ bidders \subseteq BatchIds /\ settled \subseteq bidders
    BY DEF PipelineTypeOK
<1>2. CASE tx.call = "create_batch"
    <2>1. create_batch(tx.batch)
        BY <1>2 DEF Execute
    <2>2. QED
        BY <1>1, <1>2, <2>1 DEF create_batch, Decided
<1>3. CASE tx.call = "finalize_auction"
    <2>1. finalize_auction(tx.batch, now)
        BY <1>3 DEF Execute
    <2>2. QED
        BY <1>1, <1>3, <2>1 DEF finalize_auction, Decided
<1>4. CASE tx.call = "submit_solution"
    <2>1. submit_solution(tx.batch, now)
        BY <1>4 DEF Execute
    <2>2. QED
        BY <1>1, <1>4, <2>1 DEF submit_solution, Decided
<1>5. CASE tx.call = "settle_batch"
    <2>1. settle_batch(tx.batch)
        BY <1>5 DEF Execute
    <2>2. QED
        BY <1>1, <1>5, <2>1 DEF settle_batch, Decided
<1>6. QED
    BY <1>2, <1>3, <1>4, <1>5

LEMMA BlockTimeTypes ==
    ASSUME PipelineTypeOK, NEW now \in BlockTimes
    PROVE  now \in Nat /\ now <= clock
    BY DEF PipelineTypeOK, CoordinatorTypeOK, BlockTimes

\* The head of a queue and the rest of it.
LEMMA QueueRest ==
    ASSUME NEW T, NEW q \in Seq(T), q # <<>>
    PROVE  /\ Head(q) \in T /\ Head(q) = q[1] /\ Tail(q) \in Seq(T)
           /\ Len(q) \in Nat /\ Len(q) >= 1 /\ Len(Tail(q)) = Len(q) - 1
           /\ DOMAIN q = 1..Len(q) /\ DOMAIN Tail(q) = 1..Len(q) - 1
           /\ \A k \in 1..Len(q) - 1 : Tail(q)[k] = q[k + 1]
    OBVIOUS

LEMMA QueueAppend ==
    ASSUME NEW T, NEW q \in Seq(T), NEW t \in T
    PROVE  /\ Append(q, t) \in Seq(T) /\ Len(q) \in Nat
           /\ Len(Append(q, t)) = Len(q) + 1
           /\ DOMAIN q = 1..Len(q) /\ DOMAIN Append(q, t) = 1..Len(q) + 1
           /\ \A k \in 1..Len(q) : Append(q, t)[k] = q[k]
           /\ Append(q, t)[Len(q) + 1] = t
    OBVIOUS

-----------------------------------------------------------------------------
(* Types, and what a won auction has. *)

SolverCall == [call : {"submit_solution", "settle_batch"}, batch : BatchIds, at : Nat]

LEMMA SolverSendsTypes ==
    ASSUME PipelineTypeOK, NEW b \in BatchIds,
           NEW call \in {"submit_solution", "settle_batch"}, SolverSends(call, b)
    PROVE  solver_sent' \in Seq(SolverCall)
<1>1. [call |-> call, batch |-> b, at |-> clock] \in SolverCall
    BY DEF SolverCall, PipelineTypeOK, CoordinatorTypeOK
<1>2. solver_sent \in Seq(SolverCall)
    BY DEF SolverCall, PipelineTypeOK
<1>3. QED
    BY <1>1, <1>2, QueueAppend DEF SolverSends

\* The steps of the queues and the solver leave the task where it is.
LEMMA OtherFrame ==
    ASSUME PipelineTypeOK, NEW b \in BatchIds,
           \/ IncludeCoordinator \/ IncludeSolver \/ LoseTransaction
           \/ SubmitSolution(b) \/ SubmitSettlement(b) \/ SettlementRefused(b)
           \/ OtherSolverBids(b)
    PROVE  /\ UNCHANGED <<clock, scheduler, told, opened>>
           /\ disturbed \subseteq disturbed' /\ disturbed' \subseteq BatchIds
           /\ faults' \in 0..MaxFaults
           /\ sent' = sent \/ (sent # <<>> /\ sent' = Tail(sent))
<1>1. /\ faults \in 0..MaxFaults /\ disturbed \subseteq BatchIds /\ MaxFaults \in Nat
      /\ sent # <<>> => Head(sent).batch \in BatchIds
    <2>1. sent # <<>> => Head(sent) \in Transaction
        BY QueueRest DEF PipelineTypeOK, CoordinatorTypeOK
    <2>2. QED
        BY <2>1, Constants DEF PipelineTypeOK, CoordinatorTypeOK, Transaction
<1>2. CASE IncludeCoordinator
    BY <1>1, <1>2 DEF IncludeCoordinator
<1>3. CASE IncludeSolver
    BY <1>1, <1>3 DEF IncludeSolver, coordinatorVars
<1>4. CASE LoseTransaction
    BY <1>1, <1>4 DEF LoseTransaction, Fault
<1>5. CASE SubmitSolution(b)
    BY <1>1, <1>5 DEF SubmitSolution, coordinatorVars
<1>6. CASE SubmitSettlement(b)
    BY <1>1, <1>6 DEF SubmitSettlement, coordinatorVars
<1>7. CASE SettlementRefused(b)
    BY <1>1, <1>7 DEF SettlementRefused, Fault
<1>8. CASE OtherSolverBids(b)
    BY <1>1, <1>8 DEF OtherSolverBids, Fault
<1>9. QED
    BY <1>2, <1>3, <1>4, <1>5, <1>6, <1>7, <1>8

LEMMA CoordinatorSendTypes ==
    ASSUME PipelineTypeOK
    PROVE  CreateTx \in Transaction /\ FinalizeTx \in Transaction
    BY SchedulerFields DEF PipelineTypeOK, CoordinatorTypeOK, Transaction, CreateTx, FinalizeTx

LEMMA TypeStep ==
    ASSUME PipelineTypeOK, WonHasBid, PipelineNext
    PROVE  PipelineTypeOK' /\ WonHasBid'
<1> DEFINE ChainOK == /\ block_time \in 0..clock
                      /\ status \in [BatchIds -> {"OPEN", "AUCTION", "SETTLED", "FAILED"}]
                      /\ bidders \subseteq BatchIds /\ settled \subseteq bidders
                      /\ spoiled \subseteq bidders
           SolverOK == /\ bids \in [BatchIds -> {"none", "submitted", "done"}]
                       /\ solver_sent \in Seq(SolverCall)
<1>1. /\ CoordinatorTypeOK /\ ChainOK /\ SolverOK
      /\ clock \in Nat /\ scheduler \in Scheduler /\ sent \in Seq(Transaction)
    BY DEF PipelineTypeOK, CoordinatorTypeOK, SolverCall
<1>2. CoordinatorTypeOK' /\ ChainOK' /\ SolverOK' => PipelineTypeOK'
    BY DEF PipelineTypeOK, SolverCall
<1>3. CASE CoordinatorActs
    <2>1. /\ UNCHANGED <<clock, chainVars, solverVars>>
          /\ scheduler' \in Scheduler
          /\ faults' \in 0..MaxFaults /\ disturbed' \subseteq BatchIds
        BY <1>3, CoordinatorFrame, SchedulerStep
    <2>2. sent' \in Seq(Transaction)
        <3>1. \A tx \in Transaction : Append(sent, tx) \in Seq(Transaction)
            BY <1>1, QueueAppend
        <3>2. sent' = sent \/ sent' = Append(sent, CreateTx) \/ sent' = Append(sent, FinalizeTx)
            BY <1>3, CoordinatorFrame DEF Sends
        <3>3. QED
            BY <1>1, <3>1, <3>2, CoordinatorSendTypes
    <2>3. scheduler.batch \in BatchIds /\ scheduler.count \in {0, 1}
        BY <1>1, SchedulerFields
    <2>4. opened' \subseteq BatchIds
        BY <1>1, <1>3, <2>3, CoordinatorFrame DEF CoordinatorTypeOK
    <2>5. told' \subseteq ({"closed"} \X BatchIds \X {0, 1}) \cup ({"failed"} \X BatchIds)
        <3>1. /\ <<"closed", scheduler.batch, scheduler.count>>
                     \in {"closed"} \X BatchIds \X {0, 1}
              /\ <<"failed", scheduler.batch>> \in {"failed"} \X BatchIds
            BY <2>3
        <3>2. QED
            BY <1>1, <1>3, <3>1, CoordinatorFrame DEF CoordinatorTypeOK
    <2>6. CoordinatorTypeOK'
        BY <1>1, <2>1, <2>2, <2>4, <2>5 DEF CoordinatorTypeOK
    <2>7. ChainOK' /\ SolverOK' /\ WonHasBid'
        BY <1>1, <2>1 DEF chainVars, solverVars, WonHasBid
    <2>8. QED
        BY <1>2, <2>6, <2>7
<1>4. CASE IncludeCoordinator
    <2>1. PICK now \in BlockTimes : block_time' = now /\ Execute(Head(sent), now)
        BY <1>4 DEF IncludeCoordinator
    <2>2. now \in Nat /\ now <= clock
        BY <2>1, BlockTimeTypes
    <2>3. Head(sent) \in Transaction /\ Tail(sent) \in Seq(Transaction)
        BY <1>1, <1>4, QueueRest DEF IncludeCoordinator
    <2>4. UNCHANGED <<clock, scheduler, told, opened, faults, solverVars>> /\ sent' = Tail(sent)
        BY <1>4 DEF IncludeCoordinator
    <2>5. disturbed' \subseteq BatchIds
        BY <1>4, OtherFrame, Constants DEF BatchIds
    <2>6. CoordinatorTypeOK'
        BY <1>1, <2>3, <2>4, <2>5 DEF CoordinatorTypeOK
    <2>7. Head(sent).batch \in BatchIds /\ Head(sent).call \in {"create_batch", "finalize_auction"}
        BY <2>3 DEF Transaction
    <2>8. /\ status' \in [BatchIds -> {"OPEN", "AUCTION", "SETTLED", "FAILED"}]
          /\ bidders \subseteq bidders' /\ bidders' \subseteq BatchIds
          /\ settled' \subseteq BatchIds /\ spoiled' = spoiled
          /\ \A b \in settled' : b \in settled \/ status[b] = "SETTLED"
          /\ \A b \in BatchIds : status'[b] = "SETTLED" => status[b] = "SETTLED" \/ b \in bidders
        BY <2>1, <2>2, <2>7, Executed
    <2>9. ChainOK' /\ SolverOK' /\ WonHasBid'
        BY <1>1, <2>1, <2>2, <2>4, <2>8 DEF solverVars, WonHasBid
    <2>10. QED
        BY <1>2, <2>6, <2>9
<1>5. CASE IncludeSolver
    <2>1. PICK now \in BlockTimes : block_time' = now /\ Execute(Head(solver_sent), now)
        BY <1>5 DEF IncludeSolver
    <2>2. now \in Nat /\ now <= clock
        BY <2>1, BlockTimeTypes
    <2>3. Head(solver_sent) \in SolverCall /\ Tail(solver_sent) \in Seq(SolverCall)
        BY <1>1, <1>5, QueueRest DEF IncludeSolver
    <2>4. UNCHANGED <<coordinatorVars, bids>> /\ solver_sent' = Tail(solver_sent)
        BY <1>5 DEF IncludeSolver
    <2>6. CoordinatorTypeOK'
        BY <1>1, <2>4 DEF CoordinatorTypeOK, coordinatorVars
    <2>7. /\ Head(solver_sent).batch \in BatchIds
          /\ Head(solver_sent).call \in {"submit_solution", "settle_batch"}
        BY <2>3 DEF SolverCall
    <2>8. /\ status' \in [BatchIds -> {"OPEN", "AUCTION", "SETTLED", "FAILED"}]
          /\ bidders \subseteq bidders' /\ bidders' \subseteq BatchIds
          /\ settled' \subseteq BatchIds /\ spoiled' = spoiled
          /\ \A b \in settled' : b \in settled \/ status[b] = "SETTLED"
          /\ \A b \in BatchIds : status'[b] = "SETTLED" => status[b] = "SETTLED" \/ b \in bidders
        BY <2>1, <2>2, <2>7, Executed
    <2>9. ChainOK' /\ SolverOK' /\ WonHasBid'
        BY <1>1, <2>1, <2>2, <2>3, <2>4, <2>8 DEF coordinatorVars, WonHasBid
    <2>10. QED
        BY <1>2, <2>6, <2>9
<1>6. CASE LoseTransaction
    <2>1. /\ UNCHANGED <<clock, scheduler, told, opened, chainVars, solverVars>>
          /\ sent # <<>> /\ sent' = Tail(sent)
        BY <1>6 DEF LoseTransaction
    <2>2. faults' \in 0..MaxFaults /\ disturbed' \subseteq BatchIds
        BY <1>6, OtherFrame, Constants DEF BatchIds
    <2>3. Tail(sent) \in Seq(Transaction)
        BY <1>1, <2>1, QueueRest
    <2>4. CoordinatorTypeOK'
        BY <1>1, <2>1, <2>2, <2>3 DEF CoordinatorTypeOK
    <2>5. ChainOK' /\ SolverOK' /\ WonHasBid'
        BY <1>1, <2>1 DEF chainVars, solverVars, WonHasBid
    <2>6. QED
        BY <1>2, <2>4, <2>5
<1>7. ASSUME NEW b \in BatchIds,
             SubmitSolution(b) \/ SubmitSettlement(b) \/ SettlementRefused(b)
      PROVE  PipelineTypeOK' /\ WonHasBid'
    <2>1. /\ UNCHANGED <<clock, scheduler, sent, told, opened, chainVars>>
          /\ faults' \in 0..MaxFaults /\ disturbed' \subseteq BatchIds
        <3>1. UNCHANGED <<sent, chainVars>>
            BY <1>7 DEF SubmitSolution, SubmitSettlement, SettlementRefused, coordinatorVars
        <3>2. QED
            BY <1>7, <3>1, OtherFrame
    <2>2. SolverOK'
        <3>1. CASE SubmitSolution(b)
            BY <1>1, <3>1, SolverSendsTypes DEF SubmitSolution
        <3>2. CASE SubmitSettlement(b)
            BY <1>1, <3>2, SolverSendsTypes DEF SubmitSettlement
        <3>3. CASE SettlementRefused(b)
            BY <1>1, <3>3 DEF SettlementRefused
        <3>4. QED
            BY <1>7, <3>1, <3>2, <3>3
    <2>3. CoordinatorTypeOK'
        BY <1>1, <2>1 DEF CoordinatorTypeOK
    <2>4. ChainOK' /\ WonHasBid'
        BY <1>1, <2>1 DEF chainVars, WonHasBid
    <2>5. QED
        BY <1>2, <2>2, <2>3, <2>4
<1>8. CASE PipelineTick
    <2>1. /\ clock' = clock + 1 /\ disturbed' = disturbed \cup Missed
          /\ UNCHANGED <<scheduler, sent, told, opened, faults, chainVars, solverVars>>
        BY <1>8 DEF PipelineTick
    <2>2. Missed \subseteq BatchIds
        BY DEF Missed
    <2>3. CoordinatorTypeOK'
        BY <1>1, <2>1, <2>2 DEF CoordinatorTypeOK
    <2>4. ChainOK' /\ SolverOK' /\ WonHasBid'
        BY <1>1, <2>1 DEF chainVars, solverVars, WonHasBid
    <2>5. QED
        BY <1>2, <2>3, <2>4
<1>9. ASSUME NEW b \in BatchIds, OtherSolverBids(b)
      PROVE  PipelineTypeOK' /\ WonHasBid'
    <2>1. UNCHANGED <<clock, scheduler, sent, told, opened, status, settled, solverVars>>
        BY <1>9 DEF OtherSolverBids
    <2>2. faults' \in 0..MaxFaults /\ disturbed' \subseteq BatchIds
        BY <1>9, OtherFrame
    <2>3. CoordinatorTypeOK'
        BY <1>1, <2>1, <2>2 DEF CoordinatorTypeOK
    <2>4. block_time' \in 0..clock
        <3>1. block_time' \in BlockTimes
            BY <1>9 DEF OtherSolverBids
        <3>2. QED
            BY <1>1, <3>1, BlockTimeTypes
    <2>5. bidders' = bidders \cup {b} /\ spoiled' \subseteq spoiled \cup {b}
        BY <1>9 DEF OtherSolverBids
    <2>6. ChainOK' /\ SolverOK' /\ WonHasBid'
        BY <1>1, <2>1, <2>4, <2>5 DEF solverVars, WonHasBid
    <2>7. QED
        BY <1>2, <2>3, <2>6
<1>10. QED
    BY <1>3, <1>4, <1>5, <1>6, <1>7, <1>8, <1>9 DEF PipelineNext

-----------------------------------------------------------------------------
(* The task and its transactions are in time. *)

LEMMA SentInTimeStep ==
    ASSUME PipelineTypeOK, SentInTime, PipelineNext
    PROVE  SentInTime'
<1>1. /\ sent \in Seq(Transaction) /\ clock \in Nat /\ InclusionTime \in Nat
      /\ DOMAIN sent = 1..Len(sent) /\ Len(sent) \in Nat
      /\ \A k \in 1..Len(sent) : sent[k].at \in Nat
    <2>1. sent \in Seq(Transaction)
        BY DEF PipelineTypeOK, CoordinatorTypeOK
    <2>2. \A k \in 1..Len(sent) : sent[k] \in Transaction
        BY <2>1
    <2>3. \A tx \in Transaction : tx.at \in Nat
        BY DEF Transaction
    <2>4. DOMAIN sent = 1..Len(sent) /\ Len(sent) \in Nat
        BY <2>1
    <2>5. clock \in Nat /\ InclusionTime \in Nat
        BY Constants DEF PipelineTypeOK, CoordinatorTypeOK
    <2>6. QED
        BY <2>1, <2>2, <2>3, <2>4, <2>5
<1>2. ASSUME UNCHANGED <<clock, sent>>
      PROVE  SentInTime'
    BY <1>2 DEF SentInTime
<1>3. ASSUME clock' = clock, sent # <<>>, sent' = Tail(sent)
      PROVE  SentInTime'
    <2>1. /\ DOMAIN sent' = 1..Len(sent) - 1
          /\ \A k \in 1..Len(sent) - 1 : sent'[k] = sent[k + 1]
        BY <1>1, <1>3, QueueRest
    <2>2. \A k \in 1..Len(sent) - 1 : k + 1 \in 1..Len(sent)
        BY <1>1
    <2>3. ASSUME NEW k \in DOMAIN sent'
          PROVE  /\ clock' \in sent'[k].at..sent'[k].at + InclusionTime
                 /\ \A j \in 1..k : sent'[j].at <= sent'[k].at
        <3>1. k \in 1..Len(sent) - 1 /\ sent'[k] = sent[k + 1] /\ k + 1 \in DOMAIN sent
            BY <1>1, <2>1, <2>2
        <3>2. \A j \in 1..k : j \in 1..Len(sent) - 1 /\ j + 1 \in 1..k + 1
            BY <1>1, <3>1
        <3>3. /\ clock \in sent[k + 1].at..sent[k + 1].at + InclusionTime
              /\ \A j \in 1..k + 1 : sent[j].at <= sent[k + 1].at
            BY <3>1 DEF SentInTime
        <3>4. \A j \in 1..k : sent'[j] = sent[j + 1] /\ sent[j + 1].at <= sent[k + 1].at
            BY <2>1, <3>2, <3>3
        <3>5. QED
            BY <1>3, <3>1, <3>3, <3>4
    <2>4. QED
        BY <2>3 DEF SentInTime
<1>4. ASSUME NEW tx \in Transaction, clock' = clock, tx.at = clock, sent' = Append(sent, tx)
      PROVE  SentInTime'
    <2>1. /\ DOMAIN sent' = 1..Len(sent) + 1
          /\ \A k \in 1..Len(sent) : sent'[k] = sent[k]
          /\ sent'[Len(sent) + 1] = tx
        BY <1>1, <1>4, QueueAppend
    <2>2. ASSUME NEW k \in DOMAIN sent'
          PROVE  /\ clock' \in sent'[k].at..sent'[k].at + InclusionTime
                 /\ \A j \in 1..k : sent'[j].at <= sent'[k].at
        <3>1. CASE k = Len(sent) + 1
            <4>1. \A j \in 1..Len(sent) : sent[j].at <= clock
                BY <1>1 DEF SentInTime
            <4>2. ASSUME NEW j \in 1..k PROVE sent'[j].at <= clock
                <5>1. CASE j = k
                    BY <1>1, <1>4, <2>1, <3>1, <5>1
                <5>2. CASE j # k
                    <6>1. j \in 1..Len(sent)
                        BY <1>1, <3>1, <5>2
                    <6>2. QED
                        BY <2>1, <4>1, <6>1
                <5>3. QED
                    BY <5>1, <5>2
            <4>3. sent'[k].at = clock
                BY <1>4, <2>1, <3>1
            <4>4. QED
                BY <1>1, <1>4, <4>2, <4>3
        <3>2. CASE k # Len(sent) + 1
            <4>1. k \in DOMAIN sent /\ \A j \in 1..k : j \in 1..Len(sent)
                BY <1>1, <2>1, <3>2
            <4>2. QED
                BY <1>1, <1>4, <2>1, <4>1 DEF SentInTime
        <3>3. QED
            BY <3>1, <3>2
    <2>3. QED
        BY <2>2 DEF SentInTime
<1>5. CASE CoordinatorActs
    <2>1. CreateTx \in Transaction /\ CreateTx.at = clock
          /\ FinalizeTx \in Transaction /\ FinalizeTx.at = clock
        BY CoordinatorSendTypes DEF CreateTx, FinalizeTx
    <2>2. \/ sent' = sent
          \/ sent' = Append(sent, CreateTx) \/ sent' = Append(sent, FinalizeTx)
        BY <1>5, CoordinatorFrame DEF Sends
    <2>3. clock' = clock
        BY <1>5, CoordinatorFrame
    <2>4. QED
        BY <1>2, <1>4, <2>1, <2>2, <2>3
<1>6. CASE PipelineTick
    <2>1. clock' = clock + 1 /\ sent' = sent /\ (sent # <<>> => clock < Head(sent).at + InclusionTime)
        BY <1>6 DEF PipelineTick, NothingOverdue
    <2>2. ASSUME NEW k \in DOMAIN sent
          PROVE  clock + 1 \in sent[k].at..sent[k].at + InclusionTime
        <3>1. k \in 1..Len(sent) /\ sent # <<>> /\ 1 \in 1..k
            BY <1>1
        <3>2. Head(sent) = sent[1] /\ sent[1].at <= sent[k].at
            BY <1>1, <3>1 DEF SentInTime
        <3>3. sent[1].at \in Nat /\ sent[k].at \in Nat /\ clock >= sent[k].at
            BY <1>1, <3>1 DEF SentInTime
        <3>4. QED
            BY <1>1, <2>1, <3>1, <3>2, <3>3
    <2>3. QED
        BY <2>1, <2>2 DEF SentInTime
<1>7. ASSUME NEW b \in BatchIds,
             SubmitSolution(b) \/ SubmitSettlement(b) \/ SettlementRefused(b)
      PROVE  SentInTime'
    <2>1. UNCHANGED <<clock, sent>>
        BY <1>7 DEF SubmitSolution, SubmitSettlement, SettlementRefused, coordinatorVars
    <2>2. QED
        BY <1>2, <2>1
<1>8. CASE \/ IncludeCoordinator \/ IncludeSolver \/ LoseTransaction
           \/ \E b \in BatchIds : OtherSolverBids(b)
    <2>1. 0 \in BatchIds
        BY Constants DEF BatchIds
    <2>2. clock' = clock /\ (sent' = sent \/ (sent # <<>> /\ sent' = Tail(sent)))
        BY <1>8, <2>1, OtherFrame
    <2>3. QED
        BY <1>2, <1>3, <2>2
<1>9. QED
    BY <1>5, <1>6, <1>7, <1>8 DEF PipelineNext

\* As time goes on the batch that closed last is never an earlier one.
LEMMA ClosedGrows ==
    ASSUME NEW t \in Nat
    PROVE  /\ compute_batch_id(t) <= compute_batch_id(t + 1)
           /\ closed_batch_at_timestamp(t).batch <= closed_batch_at_timestamp(t + 1).batch
<1> DEFINE k == compute_batch_id(t)
           l == compute_batch_id(t + 1)
<1>1. t + 1 \in Nat
    OBVIOUS
<1>2. /\ k \in Nat /\ (k # 0 => CloseTime(k - 1) <= t)
      /\ l \in Nat /\ t + 1 < CloseTime(l)
    BY <1>1, BatchAt
<1>3. /\ closed_batch_at_timestamp(t).batch = IF k = 0 THEN 0 ELSE k - 1
      /\ closed_batch_at_timestamp(t + 1).batch = IF l = 0 THEN 0 ELSE l - 1
    BY <1>1, ClosedAt
<1> HIDE DEF k, l
<1>4. k <= l
    <2>1. SUFFICES ASSUME l < k PROVE FALSE
        BY <1>2
    <2>2. k # 0 /\ k - 1 \in Nat /\ l <= k - 1
        BY <1>2, <2>1
    <2>3. CloseTime(l) <= CloseTime(k - 1) /\ CloseTime(l) \in Nat /\ CloseTime(k - 1) \in Nat
        BY <1>2, <2>2, WindowsInOrder
    <2>4. QED
        BY <1>2, <2>2, <2>3
<1>5. QED
    BY <1>2, <1>3, <1>4 DEF k, l

\* The window that the task wakes up for is the one that closes now.
LEMMA WokenInTime ==
    ASSUME PipelineTypeOK, Timely, CloseWindow
    PROVE  /\ clock = scheduler.due
           /\ \E k \in BatchIds :
                 /\ clock = CloseTime(k)
                 /\ scheduler' = [at |-> "count", batch |-> k, count |-> 0,
                                  close_time |-> CloseTime(k), due |-> CloseTime(k) + MaxDelay]
<1>1. clock \in Nat /\ scheduler.due \in Nat
    BY SchedulerFields DEF PipelineTypeOK, CoordinatorTypeOK
<1>2. /\ scheduler.at = "sleep" /\ clock >= scheduler.due
      /\ closed_batch_at_timestamp(clock).batch <= LastBatch
    BY DEF CloseWindow
<1>3. ~ Beyond
    BY <1>1, <1>2, ClosedAt, Constants DEF Beyond
<1>4. clock = scheduler.due
    BY <1>1, <1>2, <1>3 DEF Timely
<1>5. PICK k \in Nat : scheduler.due = CloseTime(k)
    BY <1>2 DEF Timely
<1>6. /\ closed_batch_at_timestamp(clock).batch = k
      /\ closed_batch_at_timestamp(clock).close_time = CloseTime(k)
    BY <1>4, <1>5, JustClosed
<1>7. k \in BatchIds
    BY <1>2, <1>6 DEF BatchIds
<1>8. QED
    BY <1>4, <1>5, <1>6, <1>7 DEF CloseWindow

\* What a step to another place leaves as it is.
LEMMA Moved ==
    ASSUME scheduler \in Scheduler, NEW p, Goto(p)
    PROVE  /\ scheduler'.at = p /\ scheduler'.batch = scheduler.batch
           /\ scheduler'.close_time = scheduler.close_time /\ scheduler'.due = scheduler.due
    BY DEF Scheduler, Goto

\* Where the steps of the coordinator lead, and what they change of the task's times.
SameBatch == scheduler'.batch = scheduler.batch /\ scheduler'.close_time = scheduler.close_time

\* The task sleeps until the close of the window that is open now.
UntilClose ==
    \E k \in Nat : /\ scheduler'.due = CloseTime(k) /\ clock < CloseTime(k)
                   /\ k = 0 \/ CloseTime(k - 1) <= clock

TaskSteps ==
    LET s == scheduler
        t == scheduler' IN
    \/ t.at = "sleep" /\ UntilClose
    \/ CloseWindow
    \/ s.at = "count" /\ t.at = "create" /\ SameBatch /\ t.due = s.due
    \/ s.at = "create" /\ t.at \in {"close", "createFailed"} /\ SameBatch /\ t.due = s.due
    \/ s.at = "close" /\ t.at = "wait" /\ SameBatch /\ t.due = clock + AuctionWait
    \/ /\ s.at = "wait" /\ clock >= s.due
       /\ t.at = "finalize" /\ SameBatch /\ t.due = s.close_time + MaxDelay + AuctionWait
    \/ s.at = "finalize" /\ t.at \in {"winner", "finalizeFailed"} /\ SameBatch /\ t.due = s.due
    \/ s.at = "createFailed" /\ t.at = "formFailed" /\ SameBatch /\ t.due = s.due
    \/ s.at = "finalizeFailed" /\ t.at = "auctionFailed" /\ SameBatch /\ t.due = s.due
    \/ t.at \in {"loop", "down"}

LEMMA TaskStep ==
    ASSUME PipelineTypeOK, CoordinatorActs
    PROVE  TaskSteps
<1>1. scheduler \in Scheduler /\ clock \in Nat
    BY DEF PipelineTypeOK, CoordinatorTypeOK
<1>2. CASE SleepUntilClose
    <2>1. PICK k \in Nat : k = compute_batch_id(clock)
        BY <1>1, BatchAt
    <2>2. /\ next_batch_close_time(clock) = CloseTime(k) /\ clock < CloseTime(k)
          /\ k = 0 \/ CloseTime(k - 1) <= clock
        BY <1>1, <2>1, BatchAt
    <2>3. scheduler'.at = "sleep" /\ scheduler'.due = next_batch_close_time(clock)
        BY <1>1, <1>2 DEF SleepUntilClose, Scheduler
    <2>4. QED
        BY <2>2, <2>3 DEF TaskSteps, UntilClose
<1>3. CASE CloseWindow
    BY <1>3 DEF TaskSteps
<1>4. CASE \E count \in {0, 1} : CountIntents(count)
    BY <1>1, <1>4 DEF CountIntents, TaskSteps, SameBatch, Scheduler
<1>5. CASE CreateBatch \/ CreateFails
    BY <1>1, <1>5, Moved DEF CreateBatch, CreateFails, TaskSteps, SameBatch
<1>6. CASE NotifyGateway \/ NotifyFails
    <2>1. scheduler.at = "close" /\ Notified
        BY <1>6 DEF NotifyGateway, NotifyFails
    <2>2. scheduler'.at = "wait" /\ SameBatch /\ scheduler'.due = clock + AuctionWait
        BY <1>1, <2>1 DEF Notified, AuctionWaitOver, SameBatch, Scheduler
    <2>3. QED
        BY <2>1, <2>2 DEF TaskSteps
<1>7. CASE WaitIsOver
    BY <1>1, <1>7 DEF WaitIsOver, TaskSteps, SameBatch, Scheduler
<1>8. CASE FinalizeAuction \/ FinalizeFails
    BY <1>1, <1>8, Moved DEF FinalizeAuction, FinalizeFails, TaskSteps, SameBatch
<1>9. CASE report_batch_failure \/ ReportFails
    <2>1. scheduler.at \in DOMAIN AfterReport /\ Goto(AfterReport[scheduler.at])
        BY <1>9 DEF report_batch_failure, ReportFails
    <2>2. \/ scheduler.at = "createFailed" /\ Goto("formFailed")
          \/ scheduler.at = "finalizeFailed" /\ Goto("auctionFailed")
          \/ Goto("loop")
        BY <2>1 DEF AfterReport
    <2>3. QED
        BY <1>1, <2>2, Moved DEF TaskSteps, SameBatch
<1>10. CASE LogWinner \/ Crash \/ Restart
    <2>1. Goto("loop") \/ Goto("down")
        BY <1>10 DEF LogWinner, Crash, Restart
    <2>2. QED
        BY <1>1, <2>1, Moved DEF TaskSteps
<1>11. QED
    BY <1>2, <1>3, <1>4, <1>5, <1>6, <1>7, <1>8, <1>9, <1>10
    DEF CoordinatorActs, CoordinatorStep, Work, Failure

\* The step of the clock.
LEMMA TickStep ==
    ASSUME PipelineTypeOK, PipelineTick
    PROVE  /\ clock' = clock + 1 /\ disturbed' = disturbed \cup Missed
           /\ UNCHANGED <<scheduler, sent, told, opened, faults, chainVars, solverVars>>
           /\ \/ scheduler.at = "down"
              \/ scheduler.at # "loop" /\ clock + 1 <= scheduler.due
              \/ scheduler.at = "sleep" /\ Beyond /\ Beyond'
<1>1. clock \in Nat /\ scheduler.due \in Nat
    BY SchedulerFields DEF PipelineTypeOK, CoordinatorTypeOK
<1>2. /\ clock' = clock + 1 /\ disturbed' = disturbed \cup Missed
      /\ UNCHANGED <<scheduler, sent, told, opened, faults, chainVars, solverVars>>
      /\ Punctual
    BY DEF PipelineTick
<1>3. Beyond => Beyond'
    <2>1. PICK t \in Nat : t = clock
        BY <1>1
    <2>2. /\ closed_batch_at_timestamp(t).batch <= closed_batch_at_timestamp(t + 1).batch
          /\ closed_batch_at_timestamp(t).batch \in Nat
          /\ closed_batch_at_timestamp(t + 1).batch \in Nat
        BY ClosedGrows, ClosedAt
    <2>3. Beyond <=> closed_batch_at_timestamp(t).batch > LastBatch
        BY <2>1 DEF Beyond
    <2>4. Beyond' <=> closed_batch_at_timestamp(t + 1).batch > LastBatch
        BY <1>2, <2>1 DEF Beyond
    <2>5. QED
        BY <2>2, <2>3, <2>4, Constants
<1>4. QED
    BY <1>1, <1>2, <1>3 DEF Punctual, Beyond

LEMMA ToSleep ==
    ASSUME TaskSteps, scheduler'.at = "sleep"
    PROVE  UntilClose
<1>1. CloseWindow => scheduler'.at = "count"
    BY DEF CloseWindow
<1>2. QED
    BY <1>1 DEF TaskSteps

LEMMA TimelyStep ==
    ASSUME PipelineTypeOK, Timely, PipelineNext
    PROVE  Timely'
<1>1. /\ clock \in Nat /\ scheduler.due \in Nat /\ scheduler.close_time \in Nat
      /\ scheduler.batch \in Nat
      /\ MaxDelay \in Nat /\ AuctionWait \in Nat
    BY SchedulerFields, Constants DEF PipelineTypeOK, CoordinatorTypeOK
<1>2. ASSUME UNCHANGED <<clock, scheduler>>
      PROVE  Timely'
    BY <1>2 DEF Timely, Beyond
<1>3. CASE CoordinatorActs
    <2>1. clock' = clock /\ TaskSteps
        BY <1>3, CoordinatorFrame, TaskStep
    <2>2. CASE scheduler'.at = "sleep"
        <3>1. PICK k \in Nat : /\ scheduler'.due = CloseTime(k) /\ clock < CloseTime(k)
                               /\ k = 0 \/ CloseTime(k - 1) <= clock
            BY <2>1, <2>2, ToSleep DEF UntilClose
        <3>2. CloseTime(k) \in Nat
            BY WindowsClose
        <3>3. QED
            BY <1>1, <2>1, <2>2, <3>1, <3>2 DEF Timely, Early, Late, Busy
    <2>3. CASE CloseWindow
        <3>1. PICK k \in BatchIds :
                 /\ clock = CloseTime(k)
                 /\ scheduler' = [at |-> "count", batch |-> k, count |-> 0,
                                  close_time |-> CloseTime(k), due |-> CloseTime(k) + MaxDelay]
            BY <2>3, WokenInTime
        <3>2. QED
            BY <1>1, <2>1, <3>1 DEF Timely, Early, Late, Busy
    <2>4. CASE scheduler'.at \in {"loop", "down"}
        BY <2>4 DEF Timely, Early, Late, Busy
    <2>5. CASE /\ scheduler.at \in Early /\ scheduler'.at \in Early
               /\ SameBatch /\ scheduler'.due = scheduler.due
        BY <1>1, <2>1, <2>5 DEF Timely, Early, Late, Busy, SameBatch
    <2>6. CASE /\ scheduler.at \in Late /\ scheduler'.at \in Late
               /\ SameBatch /\ scheduler'.due = scheduler.due
        BY <1>1, <2>1, <2>6 DEF Timely, Early, Late, Busy, SameBatch
    <2>7. CASE /\ scheduler.at = "close" /\ scheduler'.at = "wait"
               /\ SameBatch /\ scheduler'.due = clock + AuctionWait
        BY <1>1, <2>1, <2>7 DEF Timely, Early, Late, Busy, SameBatch
    <2>8. CASE /\ scheduler.at = "wait" /\ clock >= scheduler.due
               /\ scheduler'.at = "finalize" /\ SameBatch
               /\ scheduler'.due = scheduler.close_time + MaxDelay + AuctionWait
        BY <1>1, <2>1, <2>8 DEF Timely, Early, Late, Busy, SameBatch
    <2>9. QED
        BY <2>1, <2>2, <2>3, <2>4, <2>5, <2>6, <2>7, <2>8 DEF TaskSteps, Early, Late
<1>4. CASE PipelineTick
    <2>1. /\ clock' = clock + 1 /\ scheduler' = scheduler
          /\ \/ scheduler.at = "down"
             \/ scheduler.at # "loop" /\ clock + 1 <= scheduler.due
             \/ scheduler.at = "sleep" /\ Beyond /\ Beyond'
        BY <1>4, TickStep
    <2>2. CASE scheduler.at = "sleep"
        <3>1. PICK k \in Nat : scheduler.due = CloseTime(k) /\ (k = 0 \/ CloseTime(k - 1) <= clock)
            BY <2>2 DEF Timely
        <3>2. k # 0 => CloseTime(k - 1) \in Nat
            BY WindowsClose
        <3>3. k = 0 \/ CloseTime(k - 1) <= clock + 1
            BY <1>1, <3>1, <3>2
        <3>4. clock + 1 <= scheduler.due \/ Beyond'
            BY <2>1, <2>2
        <3>5. QED
            BY <2>1, <2>2, <3>1, <3>3, <3>4 DEF Timely, Early, Late, Busy
    <2>3. CASE scheduler.at \in Busy
        BY <1>1, <2>1, <2>3 DEF Timely, Early, Late, Busy
    <2>4. CASE scheduler.at \notin Busy /\ scheduler.at # "sleep"
        BY <2>1, <2>4 DEF Timely, Early, Late, Busy
    <2>5. QED
        BY <2>2, <2>3, <2>4
<1>5. ASSUME NEW b \in BatchIds,
             SubmitSolution(b) \/ SubmitSettlement(b) \/ SettlementRefused(b)
      PROVE  Timely'
    BY <1>2, <1>5, OtherFrame
<1>6. CASE \/ IncludeCoordinator \/ IncludeSolver \/ LoseTransaction
           \/ \E b \in BatchIds : OtherSolverBids(b)
    <2>1. 0 \in BatchIds
        BY Constants DEF BatchIds
    <2>2. QED
        BY <1>2, <1>6, <2>1, OtherFrame
<1>7. QED
    BY <1>3, <1>4, <1>5, <1>6 DEF PipelineNext

LEMMA OpenedBeforeStep ==
    ASSUME PipelineTypeOK, Timely, OpenedBefore, PipelineNext
    PROVE  OpenedBefore'
<1>1. /\ clock \in Nat /\ opened \subseteq BatchIds /\ scheduler.batch \in BatchIds
      /\ scheduler.close_time \in Nat
      /\ \A b \in BatchIds : CloseTime(b) \in Nat
    BY SchedulerFields, Constants, WindowsClose DEF PipelineTypeOK, CoordinatorTypeOK
<1>2. ASSUME UNCHANGED <<clock, scheduler, opened>>
      PROVE  OpenedBefore'
    BY <1>2 DEF OpenedBefore
<1>3. CASE CoordinatorActs
    <2>1. /\ clock' = clock /\ TaskSteps
          /\ \/ opened' = opened
             \/ scheduler.at = "create" /\ opened' = opened \cup {scheduler.batch}
        BY <1>3, CoordinatorFrame, TaskStep
    <2>2. scheduler.at = "create" => CloseTime(scheduler.batch) <= clock
        BY <1>1 DEF Timely, Early, Busy
    <2>3. ASSUME NEW b \in opened'
          PROVE  CloseTime(b) <= clock /\ CloseTime(b) \in Nat
        BY <1>1, <2>1, <2>2 DEF OpenedBefore
    <2>4. ASSUME NEW b \in opened', scheduler'.at = "sleep"
          PROVE  CloseTime(b) < scheduler'.due
        <3>1. PICK k \in Nat : /\ scheduler'.due = CloseTime(k) /\ clock < CloseTime(k)
            BY <2>1, <2>4, ToSleep DEF UntilClose
        <3>2. CloseTime(k) \in Nat
            BY WindowsClose
        <3>3. QED
            BY <1>1, <2>3, <2>4, <3>1, <3>2
    <2>5. ASSUME NEW b \in opened', scheduler'.at \in {"count", "create"}
          PROVE  CloseTime(b) < scheduler'.close_time
        <3>1. CASE CloseWindow
            <4>1. /\ clock = scheduler.due /\ scheduler.at = "sleep"
                  /\ scheduler'.close_time = clock /\ opened' = opened
                BY <3>1, WokenInTime DEF CloseWindow
            <4>2. QED
                BY <2>5, <4>1 DEF OpenedBefore
        <3>2. CASE scheduler.at = "count" /\ scheduler'.at = "create" /\ SameBatch
            BY <2>1, <2>5, <3>2 DEF OpenedBefore, SameBatch
        <3>3. QED
            BY <2>1, <2>5, <3>1, <3>2 DEF TaskSteps
    <2>6. QED
        BY <2>1, <2>3, <2>4, <2>5 DEF OpenedBefore
<1>4. CASE PipelineTick
    <2>1. clock' = clock + 1 /\ UNCHANGED <<scheduler, opened>>
        BY <1>4, TickStep
    <2>2. \A b \in opened : CloseTime(b) <= clock + 1
        BY <1>1 DEF OpenedBefore
    <2>3. QED
        BY <2>1, <2>2 DEF OpenedBefore
<1>5. ASSUME NEW b \in BatchIds,
             SubmitSolution(b) \/ SubmitSettlement(b) \/ SettlementRefused(b)
      PROVE  OpenedBefore'
    BY <1>2, <1>5, OtherFrame
<1>6. CASE \/ IncludeCoordinator \/ IncludeSolver \/ LoseTransaction
           \/ \E b \in BatchIds : OtherSolverBids(b)
    <2>1. 0 \in BatchIds
        BY Constants DEF BatchIds
    <2>2. QED
        BY <1>2, <1>6, <2>1, OtherFrame
<1>7. QED
    BY <1>3, <1>4, <1>5, <1>6 DEF PipelineNext

-----------------------------------------------------------------------------
(* No window that closed is forgotten. *)

\* What was created or will be decided stays so while transactions are only added.
LEMMA EndedStays ==
    ASSUME PipelineTypeOK, UNCHANGED status, told \subseteq told', NEW b \in BatchIds,
           sent' = sent \/ \E tx \in Transaction : sent' = Append(sent, tx)
    PROVE  /\ \A k \in 1..Len(sent) + 1 : CreatedBy(b, k) => CreatedBy(b, k)'
           /\ CreatedBy(b, Len(sent) + 1) => CreatedBy(b, Len(sent) + 1)'
           /\ Ended(b) => Ended(b)'
<1>1. sent \in Seq(Transaction)
    BY DEF PipelineTypeOK, CoordinatorTypeOK
<1>2. PICK n \in Nat : n = Len(sent)
    BY <1>1
<1>3. PICK m \in Nat : m = Len(sent')
    BY <1>1, QueueAppend
<1>4. /\ DOMAIN sent = 1..n /\ DOMAIN sent' = 1..m /\ n <= m
      /\ \A k \in 1..n : sent'[k] = sent[k]
    <2>1. CASE sent' = sent
        BY <1>1, <1>2, <1>3, <2>1
    <2>2. ASSUME NEW tx \in Transaction, sent' = Append(sent, tx)
          PROVE  /\ DOMAIN sent = 1..n /\ DOMAIN sent' = 1..m /\ n <= m
                 /\ \A k \in 1..n : sent'[k] = sent[k]
        BY <1>1, <1>2, <1>3, <2>2, QueueAppend
    <2>3. QED
        BY <2>1, <2>2
<1>5. \A k \in 1..n + 1 : \A j \in 1..k - 1 : j \in 1..n
    BY <1>2
<1>6. \A k \in 1..n + 1 : CreatedBy(b, k) => CreatedBy(b, k)'
    BY <1>4, <1>5 DEF CreatedBy, IsCall
<1>7. ASSUME CreatedBy(b, Len(sent) + 1)
      PROVE  CreatedBy(b, Len(sent) + 1)'
    <2>1. CreatedBy(b, n + 1) /\ n + 1 \in 1..n + 1
        BY <1>2, <1>7
    <2>2. CreatedBy(b, n + 1)'
        BY <1>6, <2>1
    <2>3. CreatedBy(b, m + 1)'
        <3>1. \A j \in 1..(n + 1) - 1 : j \in 1..(m + 1) - 1
            BY <1>4
        <3>2. QED
            BY <2>2, <3>1 DEF CreatedBy
    <2>4. QED
        BY <1>3, <2>3
<1>8. ASSUME Ended(b)
      PROVE  Ended(b)'
    <2>1. CASE Decided(b) \/ <<"failed", b>> \in told
        BY <2>1 DEF Ended, Decided
    <2>2. ASSUME NEW k \in DOMAIN sent, Decides(b, k)
          PROVE  Ended(b)'
        <3>1. k \in 1..n /\ k \in 1..n + 1 /\ k \in DOMAIN sent' /\ sent'[k] = sent[k]
            BY <1>4
        <3>2. CreatedBy(b, k)'
            BY <1>6, <2>2, <3>1 DEF Decides
        <3>3. Decides(b, k)'
            BY <2>2, <3>1, <3>2 DEF Decides, IsCall
        <3>4. QED
            BY <3>1, <3>3 DEF Ended
    <2>3. QED
        BY <1>8, <2>1, <2>2 DEF Ended
<1>9. QED
    BY <1>2, <1>6, <1>7, <1>8

\* The same when the first transaction is executed, or is lost and concerns another batch.
LEMMA EndedIncluded ==
    ASSUME PipelineTypeOK, NEW b \in BatchIds, sent # <<>>, sent' = Tail(sent), told' = told,
           status[b] # "OPEN" => status'[b] # "OPEN",
           Decided(b) => Decided(b)',
           IsCall(Head(sent), "create_batch", b) => status'[b] # "OPEN",
           Decides(b, 1) => Decided(b)'
    PROVE  /\ CreatedBy(b, Len(sent) + 1) => CreatedBy(b, Len(sent) + 1)'
           /\ Ended(b) => Ended(b)'
<1>1. sent \in Seq(Transaction)
    BY DEF PipelineTypeOK, CoordinatorTypeOK
<1>2. PICK n \in Nat : n = Len(sent)
    BY <1>1
<1>3. /\ DOMAIN sent = 1..n /\ DOMAIN sent' = 1..n - 1 /\ Len(sent') = n - 1 /\ n >= 1
      /\ \A k \in 1..n - 1 : sent'[k] = sent[k + 1]
      /\ Head(sent) = sent[1]
    BY <1>1, <1>2, QueueRest
<1>4. ASSUME NEW k \in 2..n + 1, CreatedBy(b, k)
      PROVE  CreatedBy(b, k - 1)'
    <2>1. CASE status[b] # "OPEN"
        BY <2>1 DEF CreatedBy
    <2>2. ASSUME NEW j \in 1..k - 1, IsCall(sent[j], "create_batch", b)
          PROVE  CreatedBy(b, k - 1)'
        <3>1. CASE j = 1
            BY <1>3, <2>2, <3>1 DEF CreatedBy
        <3>2. CASE j # 1
            <4>1. j - 1 \in 1..(k - 1) - 1 /\ j - 1 \in 1..n - 1 /\ (j - 1) + 1 = j
                BY <1>2, <3>2
            <4>2. IsCall(sent'[j - 1], "create_batch", b)
                BY <1>3, <2>2, <4>1
            <4>3. QED
                BY <4>1, <4>2 DEF CreatedBy, IsCall
        <3>3. QED
            BY <3>1, <3>2
    <2>3. QED
        BY <1>4, <2>1, <2>2 DEF CreatedBy
<1>5. ASSUME CreatedBy(b, Len(sent) + 1)
      PROVE  CreatedBy(b, Len(sent) + 1)'
    <2>1. n + 1 \in 2..n + 1 /\ (n + 1) - 1 = n /\ CreatedBy(b, n + 1)
        BY <1>2, <1>3, <1>5
    <2>2. CreatedBy(b, n)'
        BY <1>4, <2>1
    <2>3. Len(sent') + 1 = n
        BY <1>2, <1>3
    <2>4. QED
        BY <2>2, <2>3
<1>6. ASSUME NEW k \in DOMAIN sent, Decides(b, k)
      PROVE  Ended(b)'
    <2>1. CASE k = 1
        BY <1>6, <2>1 DEF Ended
    <2>2. CASE k # 1
        <3>1. k \in 2..n + 1 /\ k - 1 \in 1..n - 1 /\ (k - 1) + 1 = k
            BY <1>2, <1>3, <2>2
        <3>2. CreatedBy(b, k - 1)' /\ sent'[k - 1] = sent[k] /\ k - 1 \in DOMAIN sent'
            BY <1>3, <1>4, <1>6, <3>1 DEF Decides
        <3>3. Decides(b, k - 1)'
            BY <1>6, <3>2 DEF Decides, IsCall
        <3>4. QED
            BY <3>2, <3>3 DEF Ended
    <2>3. QED
        BY <2>1, <2>2
<1>7. Decided(b) \/ <<"failed", b>> \in told => Ended(b)'
    BY DEF Ended
<1>8. QED
    BY <1>5, <1>6, <1>7 DEF Ended

\* A finalize_auction sent in time is executed in time, unless its block is dated too early.
LEMMA DecidedInTime ==
    ASSUME PipelineTypeOK, SentInTime, NEW b \in BatchIds, sent # <<>>,
           Decides(b, 1), NEW now \in Nat, now <= clock, now >= Head(sent).at
    PROVE  /\ Head(sent).call = "finalize_auction" /\ Head(sent).batch = b /\ status[b] # "OPEN"
           /\ now \in Deadline(b)..Deadline(b) + AuctionResolution
<1>1. /\ sent \in Seq(Transaction) /\ clock \in Nat /\ 1 \in DOMAIN sent
      /\ Head(sent) = sent[1] /\ sent[1] \in Transaction
    <2>1. sent \in Seq(Transaction) /\ clock \in Nat
        BY DEF PipelineTypeOK, CoordinatorTypeOK
    <2>2. QED
        BY <2>1, QueueRest
<1>2. PICK t \in Nat : t = sent[1].at
    BY <1>1 DEF Transaction
<1>3. /\ clock <= t + InclusionTime /\ now >= t
      /\ t - AuctionWait \in CloseTime(b)..CloseTime(b) + MaxDelay
    <2>1. clock \in sent[1].at..sent[1].at + InclusionTime
        BY <1>1 DEF SentInTime
    <2>2. clock <= t + InclusionTime
        <3>1. InclusionTime \in Nat
            BY Constants
        <3>2. clock \in t..t + InclusionTime
            BY <1>2, <2>1
        <3>3. QED
            BY <1>1, <3>1, <3>2
    <2>3. t - AuctionWait \in CloseTime(b)..CloseTime(b) + MaxDelay
        BY <1>2 DEF Decides
    <2>4. now >= t
        BY <1>1, <1>2
    <2>5. QED
        BY <2>2, <2>3, <2>4
<1>4. b \in Nat /\ CloseTime(b) \in Nat
    BY Constants, WindowsClose
<1>5. now \in Deadline(b)..Deadline(b) + AuctionResolution
    <2>1. /\ AuctionWait \in Nat /\ MaxDelay \in Nat /\ InclusionTime \in Nat
          /\ SolutionWindow \in Nat /\ AuctionResolution \in Nat
          /\ AuctionWait >= SolutionWindow
          /\ AuctionWait + MaxDelay + InclusionTime <= SolutionWindow + AuctionResolution
        BY Constants
    <2>2. PICK c \in Nat : c = CloseTime(b)
        BY <1>4
    <2>3. c <= t - AuctionWait /\ t - AuctionWait <= c + MaxDelay
        BY <1>3, <2>2
    <2>4. now >= c + SolutionWindow /\ now <= c + SolutionWindow + AuctionResolution
        BY <1>1, <1>3, <2>1, <2>3
    <2>5. QED
        BY <2>1, <2>2, <2>4 DEF Deadline
<1>6. status[b] # "OPEN"
    <2>1. \A j \in 1..1 - 1 : FALSE
        OBVIOUS
    <2>2. QED
        BY <2>1 DEF Decides, CreatedBy
<1>7. QED
    BY <1>1, <1>5, <1>6 DEF Decides, IsCall

\* A crash disturbs the batch the task is with, or about to begin with.
LEMMA CrashDisturbs ==
    ASSUME PipelineTypeOK, Crash, NEW b \in BatchIds, InWork(b)
    PROVE  b \in disturbed'
<1>1. disturbed' = disturbed \cup (Current \cap BatchIds)
    BY DEF Crash, Fault
<1>2. CASE scheduler.at = "sleep"
    <2>1. scheduler.due = CloseTime(b) /\ clock = CloseTime(b)
        BY <1>2 DEF InWork
    <2>2. CloseTime(b) \in Nat /\ b \in Nat
        BY WindowsClose, Constants
    <2>3. closed_batch_at_timestamp(clock).batch = b
        BY <2>1, <2>2, JustClosed
    <2>4. b \in Current
        BY <1>2, <2>1, <2>2, <2>3 DEF Current
    <2>5. QED
        BY <1>1, <2>4
<1>3. CASE scheduler.at # "sleep"
    <2>1. scheduler.batch = b /\ scheduler.at # "loop"
        BY <1>3 DEF InWork
    <2>2. Current = {b}
        BY <1>3, <2>1 DEF Current
    <2>3. QED
        BY <1>1, <2>2
<1>4. QED
    BY <1>2, <1>3

\* The coordinator does not drop the batch it is with: it is on to its next step, or the
\* batch has ended.
LEMMA WorkGoesOn ==
    ASSUME PipelineTypeOK, Timely, CoordinatorActs, NEW b \in BatchIds \ disturbed', InWork(b)
    PROVE  Ended(b)' \/ InWork(b)'
<1>1. /\ scheduler \in Scheduler /\ sent \in Seq(Transaction) /\ clock \in Nat
      /\ b \in BatchIds /\ b \in Nat
      /\ scheduler.close_time \in Nat /\ scheduler.due \in Nat
    BY SchedulerFields, Constants DEF PipelineTypeOK, CoordinatorTypeOK
<1>2. /\ UNCHANGED <<clock, status>> /\ told \subseteq told'
      /\ CreateTx \in Transaction /\ FinalizeTx \in Transaction
      /\ sent' = sent \/ sent' = Append(sent, CreateTx) \/ sent' = Append(sent, FinalizeTx)
    BY CoordinatorFrame, CoordinatorSendTypes DEF chainVars, Sends
<1>3. CreatedBy(b, Len(sent) + 1) => CreatedBy(b, Len(sent) + 1)'
    BY <1>1, <1>2, EndedStays
<1>4. ~ Crash
    BY CrashDisturbs
<1>5. CASE scheduler.at = "sleep"
    <2>1. CloseWindow
        BY <1>4, <1>5 DEF CoordinatorActs, CoordinatorStep, Work, Failure, SleepUntilClose,
            CountIntents, CreateBatch, NotifyGateway, WaitIsOver, FinalizeAuction, LogWinner,
            report_batch_failure, CreateFails, NotifyFails, FinalizeFails, ReportFails, Restart,
            AfterReport
    <2>2. PICK k \in BatchIds :
              /\ clock = CloseTime(k)
              /\ scheduler' = [at |-> "count", batch |-> k, count |-> 0,
                               close_time |-> CloseTime(k), due |-> CloseTime(k) + MaxDelay]
        BY <2>1, WokenInTime
    <2>3. clock = CloseTime(b)
        BY <1>5 DEF InWork
    <2>4. k = b
        <3>1. k \in Nat
            BY Constants
        <3>2. compute_batch_id(CloseTime(k)) = k + 1 /\ compute_batch_id(CloseTime(b)) = b + 1
            BY <1>1, <3>1, JustClosed
        <3>3. QED
            BY <1>1, <2>2, <2>3, <3>1, <3>2
    <2>5. QED
        BY <2>2, <2>4 DEF InWork
<1>6. CASE scheduler.at # "sleep"
    <2>1. scheduler.batch = b
        BY <1>6 DEF InWork
    <2>2. CASE scheduler.at = "count"
        <3>1. \E count \in {0, 1} : CountIntents(count)
            BY <1>4, <2>2 DEF CoordinatorActs, CoordinatorStep, Work, Failure, SleepUntilClose,
                CloseWindow, CreateBatch, NotifyGateway, WaitIsOver, FinalizeAuction, LogWinner,
                report_batch_failure, CreateFails, NotifyFails, FinalizeFails, ReportFails,
                Restart, AfterReport
        <3>2. scheduler'.at = "create" /\ scheduler'.batch = b
            BY <1>1, <2>1, <3>1 DEF CountIntents, Scheduler
        <3>3. QED
            BY <3>2 DEF InWork
    <2>3. CASE scheduler.at = "create"
        <3>1. CreateBatch \/ CreateFails
            BY <1>4, <2>3 DEF CoordinatorActs, CoordinatorStep, Work, Failure, SleepUntilClose,
                CloseWindow, CountIntents, NotifyGateway, WaitIsOver, FinalizeAuction, LogWinner,
                report_batch_failure, NotifyFails, FinalizeFails, ReportFails, Restart, AfterReport
        <3>2. CASE CreateFails
            <4>1. scheduler'.at = "createFailed" /\ scheduler'.batch = b
                BY <1>1, <2>1, <3>2, Moved DEF CreateFails
            <4>2. QED
                BY <4>1 DEF InWork
        <3>3. CASE CreateBatch
            <4>1. /\ scheduler'.at = "close" /\ scheduler'.batch = b
                  /\ sent' = Append(sent, CreateTx)
                BY <1>1, <2>1, <3>3, Moved DEF CreateBatch, Send, CreateTx
            <4>2. PICK n \in Nat : n = Len(sent)
                BY <1>1
            <4>3. Len(sent') = n + 1 /\ sent'[n + 1] = CreateTx
                BY <1>1, <1>2, <4>1, <4>2
            <4>4. n + 1 \in 1..(n + 1 + 1) - 1
                OBVIOUS
            <4>5. CreatedBy(b, n + 1 + 1)'
                BY <2>1, <4>3, <4>4 DEF CreatedBy, IsCall, CreateTx
            <4>6. CreatedBy(b, Len(sent) + 1)'
                BY <4>3, <4>5
            <4>7. QED
                BY <4>1, <4>6 DEF InWork
        <3>4. QED
            BY <3>1, <3>2, <3>3
    <2>4. CASE scheduler.at = "close"
        <3>1. NotifyGateway \/ NotifyFails
            BY <1>4, <2>4 DEF CoordinatorActs, CoordinatorStep, Work, Failure, SleepUntilClose,
                CloseWindow, CountIntents, CreateBatch, WaitIsOver, FinalizeAuction, LogWinner,
                report_batch_failure, CreateFails, FinalizeFails, ReportFails, Restart, AfterReport
        <3>2. scheduler'.at = "wait" /\ scheduler'.batch = b
            BY <1>1, <2>1, <3>1 DEF NotifyGateway, NotifyFails, Notified, Scheduler
        <3>3. QED
            BY <1>3, <2>4, <3>2 DEF InWork
    <2>5. CASE scheduler.at = "wait"
        <3>1. WaitIsOver
            BY <1>4, <2>5 DEF CoordinatorActs, CoordinatorStep, Work, Failure, SleepUntilClose,
                CloseWindow, CountIntents, CreateBatch, NotifyGateway, FinalizeAuction, LogWinner,
                report_batch_failure, CreateFails, NotifyFails, FinalizeFails, ReportFails,
                Restart, AfterReport
        <3>2. scheduler'.at = "finalize" /\ scheduler'.batch = b
            BY <1>1, <2>1, <3>1 DEF WaitIsOver, Scheduler
        <3>3. QED
            BY <1>3, <2>5, <3>2 DEF InWork
    <2>6. CASE scheduler.at = "finalize"
        <3>1. FinalizeAuction \/ FinalizeFails
            BY <1>4, <2>6 DEF CoordinatorActs, CoordinatorStep, Work, Failure, SleepUntilClose,
                CloseWindow, CountIntents, CreateBatch, NotifyGateway, WaitIsOver, LogWinner,
                report_batch_failure, CreateFails, NotifyFails, ReportFails, Restart, AfterReport
        <3>2. CASE FinalizeFails
            <4>1. scheduler'.at = "finalizeFailed" /\ scheduler'.batch = b
                BY <1>1, <2>1, <3>2, Moved DEF FinalizeFails
            <4>2. QED
                BY <4>1 DEF InWork
        <3>3. CASE FinalizeAuction
            <4>1. sent' = Append(sent, FinalizeTx)
                BY <3>3 DEF FinalizeAuction, Send, FinalizeTx
            <4>2. PICK n \in Nat : n = Len(sent)
                BY <1>1
            <4>3. Len(sent') = n + 1 /\ sent'[n + 1] = FinalizeTx /\ DOMAIN sent' = 1..n + 1
                BY <1>1, <1>2, <4>1, <4>2
            <4>4. CreatedBy(b, n + 1)'
                <5>1. CreatedBy(b, n + 1)
                    BY <2>6, <4>2 DEF InWork
                <5>2. n + 1 \in 1..Len(sent) + 1
                    BY <4>2
                <5>3. QED
                    BY <1>1, <1>2, <5>1, <5>2, EndedStays
            <4>5. clock - AuctionWait \in CloseTime(b)..CloseTime(b) + MaxDelay
                <5>1. /\ scheduler.close_time = CloseTime(b)
                      /\ clock <= scheduler.close_time + MaxDelay + AuctionWait
                      /\ clock >= scheduler.close_time + AuctionWait
                    BY <2>1, <2>6 DEF Timely, Late, Busy
                <5>2. PICK c \in Nat : c = CloseTime(b)
                    BY <1>1, <5>1
                <5>3. AuctionWait \in Nat /\ MaxDelay \in Nat
                    BY Constants
                <5>4. c <= clock - AuctionWait /\ clock - AuctionWait <= c + MaxDelay
                    BY <1>1, <5>1, <5>2, <5>3
                <5>5. clock - AuctionWait \in c..c + MaxDelay
                    BY <1>1, <5>3, <5>4
                <5>6. QED
                    BY <5>2, <5>5
            <4>6. Decides(b, n + 1)'
                BY <2>1, <4>3, <4>4, <4>5 DEF Decides, IsCall, FinalizeTx
            <4>7. n + 1 \in DOMAIN sent'
                BY <4>3
            <4>8. QED
                BY <4>6, <4>7 DEF Ended
        <3>4. QED
            BY <3>1, <3>2, <3>3
    <2>7. CASE scheduler.at \in {"createFailed", "finalizeFailed"}
        <3>1. report_batch_failure \/ ReportFails
            BY <1>4, <2>7 DEF CoordinatorActs, CoordinatorStep, Work, Failure, SleepUntilClose,
                CloseWindow, CountIntents, CreateBatch, NotifyGateway, WaitIsOver,
                FinalizeAuction, LogWinner, CreateFails, NotifyFails, FinalizeFails, Restart
        <3>2. ~ ReportFails
            BY <2>1 DEF ReportFails, Fault
        <3>3. <<"failed", b>> \in told'
            BY <2>1, <3>1, <3>2 DEF report_batch_failure
        <3>4. QED
            BY <3>3 DEF Ended
    <2>8. QED
        BY <1>6, <2>2, <2>3, <2>4, <2>5, <2>6, <2>7 DEF InWork
<1>7. QED
    BY <1>5, <1>6

\* A window closes while the task sleeps until that moment, or it is not up.
LEMMA ClosesOnTick ==
    ASSUME PipelineTypeOK, Timely, PipelineTick, NEW b \in BatchIds \ disturbed',
           clock + 1 = CloseTime(b)
    PROVE  scheduler.at = "sleep" /\ scheduler.due = CloseTime(b)
<1>1. PICK t \in Nat : t = clock
    BY DEF PipelineTypeOK, CoordinatorTypeOK
<1>2. b \in Nat /\ b <= LastBatch /\ CloseTime(b) \in Nat /\ t < CloseTime(b)
    BY <1>1, Constants, WindowsClose DEF BatchIds
<1>3. compute_batch_id(t + 1) = b + 1
    BY <1>1, <1>2, JustClosed
<1>4. b # 0 => CloseTime(b - 1) <= t
    <2>1. CASE b # 0
        <3>1. b - 1 \in Nat /\ b - 1 < b
            BY <1>2, <2>1
        <3>2. CloseTime(b - 1) \in Nat /\ CloseTime(b - 1) + BatchWindow <= CloseTime(b)
            BY <1>2, <3>1, WindowsClose
        <3>3. QED
            BY <1>1, <3>2, Constants
    <2>2. QED
        BY <2>1
<1>5. compute_batch_id(t) = b
    BY <1>2, <1>4, OneBatchAt
<1>6. ~ Beyond
    <2>1. closed_batch_at_timestamp(t).batch = IF b = 0 THEN 0 ELSE b - 1
        BY <1>5, ClosedAt
    <2>2. QED
        BY <1>1, <1>2, <2>1, Constants DEF Beyond
<1>7. scheduler.at # "down"
    <2>1. SUFFICES ASSUME scheduler.at = "down" PROVE FALSE
        OBVIOUS
    <2>2. Missed = {b} \cap BatchIds
        BY <1>1, <1>2, <1>3, <1>5, <2>1 DEF Missed
    <2>3. QED
        BY <2>2, TickStep
<1>8. scheduler.at # "loop" /\ clock + 1 <= scheduler.due
    BY <1>6, <1>7, TickStep
<1>9. scheduler.due \in Nat /\ scheduler.batch \in Nat /\ scheduler.at \in Places
    BY SchedulerFields, Constants DEF PipelineTypeOK, CoordinatorTypeOK
<1>10. scheduler.at \notin Busy
    <2>1. SUFFICES ASSUME scheduler.at \in Busy PROVE FALSE
        OBVIOUS
    <2>2. PICK c \in Nat : c = scheduler.batch
        BY <1>9
    <2>3. CloseTime(c) \in Nat
        BY WindowsClose
    <2>4. /\ CloseTime(c) <= t
          /\ scheduler.due <= CloseTime(c) + MaxDelay + AuctionWait
        <3>1. /\ scheduler.close_time = CloseTime(c)
              /\ clock \in CloseTime(c)..scheduler.due
              /\ scheduler.at \in Early => scheduler.due = CloseTime(c) + MaxDelay
              /\ scheduler.at = "wait" =>
                    scheduler.due - AuctionWait \in CloseTime(c)..CloseTime(c) + MaxDelay
              /\ scheduler.at \in Late => scheduler.due = CloseTime(c) + MaxDelay + AuctionWait
              /\ scheduler.at \in Early \/ scheduler.at = "wait" \/ scheduler.at \in Late
            BY <2>1, <2>2 DEF Timely, Busy
        <3>2. MaxDelay \in Nat /\ AuctionWait \in Nat
            BY Constants
        <3>3. CASE scheduler.at = "wait"
            BY <1>1, <1>9, <2>3, <3>1, <3>2, <3>3
        <3>4. CASE scheduler.at \in Early \cup Late
            BY <1>1, <1>9, <2>3, <3>1, <3>2, <3>4
        <3>5. QED
            BY <3>1, <3>3, <3>4
    <2>5. ~ (b <= c)
        <3>1. SUFFICES ASSUME b <= c PROVE FALSE
            OBVIOUS
        <3>2. CloseTime(b) <= CloseTime(c)
            BY <1>2, <3>1, WindowsInOrder
        <3>3. QED
            BY <1>1, <1>2, <2>3, <2>4, <3>2
    <2>6. CloseTime(c) + BatchWindow <= CloseTime(b)
        BY <1>2, <2>5, WindowsClose
    <2>7. QED
        BY <1>1, <1>2, <1>8, <1>9, <2>3, <2>4, <2>6, Constants
<1>11. scheduler.at = "sleep"
    BY <1>7, <1>8, <1>9, <1>10 DEF Busy, Early, Late, Places
<1>12. PICK k \in Nat : scheduler.due = CloseTime(k) /\ (k = 0 \/ CloseTime(k - 1) <= t)
    BY <1>1, <1>11 DEF Timely
<1>13. t < CloseTime(k)
    BY <1>1, <1>8, <1>9, <1>12
<1>14. compute_batch_id(t) = k
    BY <1>12, <1>13, OneBatchAt
<1>15. QED
    BY <1>5, <1>11, <1>12, <1>14

LEMMA NoneForgottenStep ==
    ASSUME PipelineTypeOK, Timely, SentInTime, NoneForgotten, PipelineNext
    PROVE  NoneForgotten'
<1>1. /\ sent \in Seq(Transaction) /\ clock \in Nat
      /\ BatchIds \subseteq Nat /\ \A b \in BatchIds : CloseTime(b) \in Nat
    BY Constants, WindowsClose DEF PipelineTypeOK, CoordinatorTypeOK
<1>2. SUFFICES ASSUME NEW b \in BatchIds, b \notin disturbed', b \notin spoiled',
                      clock' >= CloseTime(b)
               PROVE  Ended(b)' \/ InWork(b)'
    BY DEF NoneForgotten
\* The task and the clock stay; what was ended or created stays so.
<1>3. ASSUME UNCHANGED <<clock, scheduler>>, disturbed \subseteq disturbed',
             spoiled \subseteq spoiled',
             Ended(b) => Ended(b)',
             CreatedBy(b, Len(sent) + 1) => CreatedBy(b, Len(sent) + 1)'
      PROVE  Ended(b)' \/ InWork(b)'
    <2>1. Ended(b) \/ InWork(b)
        BY <1>2, <1>3 DEF NoneForgotten
    <2>2. QED
        BY <1>3, <2>1 DEF InWork
<1>4. CASE CoordinatorActs
    <2>1. /\ UNCHANGED <<clock, status, spoiled>> /\ told \subseteq told' /\ disturbed \subseteq disturbed'
          /\ CreateTx \in Transaction /\ FinalizeTx \in Transaction
          /\ sent' = sent \/ sent' = Append(sent, CreateTx) \/ sent' = Append(sent, FinalizeTx)
        BY <1>4, CoordinatorFrame, CoordinatorSendTypes DEF chainVars, Sends
    <2>2. Ended(b) \/ InWork(b)
        BY <1>2, <2>1 DEF NoneForgotten
    <2>3. Ended(b) => Ended(b)'
        BY <2>1, EndedStays
    <2>4. InWork(b) => Ended(b)' \/ InWork(b)'
        BY <1>2, <1>4, WorkGoesOn
    <2>5. QED
        BY <2>2, <2>3, <2>4
<1>5. CASE IncludeCoordinator
    <2>1. /\ UNCHANGED <<clock, scheduler, told>> /\ sent # <<>> /\ sent' = Tail(sent)
          /\ disturbed \subseteq disturbed'
        BY <1>5 DEF IncludeCoordinator
    <2>2. PICK now \in BlockTimes :
              /\ Execute(Head(sent), now)
              /\ disturbed' = IF Head(sent).call = "finalize_auction" /\ now < Head(sent).at
                              THEN disturbed \cup {Head(sent).batch} ELSE disturbed
        BY <1>5 DEF IncludeCoordinator
    <2>3. now \in Nat /\ now <= clock
        BY BlockTimeTypes
    <2>4. PICK tx \in Transaction : tx = Head(sent) /\ tx = sent[1]
        BY <1>1, <2>1, QueueRest
    <2>5. /\ tx.batch \in BatchIds /\ tx.at \in Nat
          /\ tx.call \in {"create_batch", "finalize_auction"}
        BY DEF Transaction
    <2>6. /\ status[b] # "OPEN" => status'[b] # "OPEN"
          /\ Decided(b) => Decided(b)'
          /\ tx.call = "create_batch" => status'[tx.batch] # "OPEN"
          /\ spoiled' = spoiled
          /\ /\ tx.call = "finalize_auction" /\ status[tx.batch] # "OPEN" /\ tx.batch \notin spoiled
             /\ now \in Deadline(tx.batch)..Deadline(tx.batch) + AuctionResolution
             => Decided(tx.batch)'
        BY <2>2, <2>3, <2>4, <2>5, Executed
    <2>7. ASSUME Decides(b, 1)
          PROVE  Decided(b)'
        <3>1. tx.batch = b /\ tx.call = "finalize_auction"
            BY <2>4, <2>7 DEF Decides, IsCall
        <3>2. now >= tx.at
            BY <1>2, <2>2, <2>3, <2>4, <2>5, <3>1
        <3>3. status[b] # "OPEN" /\ now \in Deadline(b)..Deadline(b) + AuctionResolution
            BY <2>1, <2>3, <2>4, <2>7, <3>2, DecidedInTime
        <3>4. QED
            BY <1>2, <2>6, <3>1, <3>3
    <2>8. /\ CreatedBy(b, Len(sent) + 1) => CreatedBy(b, Len(sent) + 1)'
          /\ Ended(b) => Ended(b)'
        BY <2>1, <2>4, <2>6, <2>7, EndedIncluded DEF IsCall
    <2>9. QED
        BY <1>3, <2>1, <2>6, <2>8
<1>6. CASE LoseTransaction
    <2>1. /\ UNCHANGED <<clock, scheduler, told, status, spoiled>> /\ sent # <<>> /\ sent' = Tail(sent)
          /\ disturbed' = disturbed \cup {Head(sent).batch}
        BY <1>6 DEF LoseTransaction, Fault, chainVars
    <2>2. Head(sent).batch # b
        BY <1>2, <2>1
    <2>3. ~ IsCall(Head(sent), "create_batch", b) /\ ~ Decides(b, 1)
        BY <1>1, <2>1, <2>2, QueueRest DEF IsCall, Decides
    <2>4. /\ CreatedBy(b, Len(sent) + 1) => CreatedBy(b, Len(sent) + 1)'
          /\ Ended(b) => Ended(b)'
        BY <2>1, <2>3, EndedIncluded DEF Decided
    <2>5. QED
        BY <1>3, <2>1, <2>4
<1>7. CASE IncludeSolver
    <2>1. UNCHANGED <<clock, scheduler, told, sent, disturbed>>
        BY <1>7 DEF IncludeSolver, coordinatorVars
    <2>2. PICK now \in BlockTimes : Execute(Head(solver_sent), now)
        BY <1>7 DEF IncludeSolver
    <2>3. Head(solver_sent) \in SolverCall
        <3>1. solver_sent \in Seq(SolverCall) /\ solver_sent # <<>>
            BY <1>7 DEF IncludeSolver, PipelineTypeOK, SolverCall
        <3>2. QED
            BY <3>1, QueueRest
    <2>4. now \in Nat
        BY BlockTimeTypes
    <2>5. status' = status /\ spoiled' = spoiled
        BY <2>2, <2>3, <2>4, Executed DEF SolverCall
    <2>6. QED
        BY <1>3, <2>1, <2>5, EndedStays
<1>8. ASSUME NEW c \in BatchIds,
             \/ SubmitSolution(c) \/ SubmitSettlement(c) \/ SettlementRefused(c)
             \/ OtherSolverBids(c)
      PROVE  Ended(b)' \/ InWork(b)'
    <2>1. UNCHANGED <<clock, scheduler, told, sent, status>> /\ spoiled \subseteq spoiled'
        BY <1>8 DEF SubmitSolution, SubmitSettlement, SettlementRefused, OtherSolverBids,
            coordinatorVars, chainVars
    <2>2. disturbed \subseteq disturbed'
        BY <1>8, OtherFrame
    <2>3. QED
        BY <1>3, <2>1, <2>2, EndedStays
<1>9. CASE PipelineTick
    <2>1. /\ clock' = clock + 1 /\ disturbed \subseteq disturbed'
          /\ UNCHANGED <<scheduler, sent, told, status, spoiled>>
          /\ \/ scheduler.at = "down"
             \/ scheduler.at # "loop" /\ clock + 1 <= scheduler.due
             \/ scheduler.at = "sleep" /\ Beyond
        BY <1>9, TickStep DEF chainVars
    <2>2. /\ CreatedBy(b, Len(sent) + 1) => CreatedBy(b, Len(sent) + 1)'
          /\ Ended(b) => Ended(b)'
        BY <2>1, EndedStays
    <2>3. CASE clock + 1 = CloseTime(b)
        <3>1. scheduler.at = "sleep" /\ scheduler.due = CloseTime(b)
            BY <1>2, <1>9, <2>3, ClosesOnTick
        <3>2. QED
            BY <2>1, <2>3, <3>1 DEF InWork
    <2>4. CASE clock >= CloseTime(b)
        <3>1. Ended(b) \/ InWork(b)
            BY <1>2, <2>1, <2>4 DEF NoneForgotten
        <3>2. ~ (scheduler.at = "sleep" /\ scheduler.due = CloseTime(b) /\ clock = CloseTime(b))
            <4>1. SUFFICES ASSUME scheduler.at = "sleep", scheduler.due = CloseTime(b),
                                  clock = CloseTime(b)
                           PROVE  FALSE
                OBVIOUS
            <4>2. closed_batch_at_timestamp(clock).batch = b
                BY <1>1, <4>1, JustClosed
            <4>3. ~ Beyond
                BY <4>2, Constants DEF Beyond, BatchIds
            <4>4. QED
                BY <1>1, <2>1, <4>1, <4>3
        <3>3. InWork(b) => InWork(b)'
            BY <2>1, <2>2, <3>2 DEF InWork
        <3>4. QED
            BY <2>2, <3>1, <3>3
    <2>5. QED
        BY <1>1, <1>2, <2>1, <2>3, <2>4
<1>10. QED
    BY <1>4, <1>5, <1>6, <1>7, <1>8, <1>9 DEF PipelineNext

-----------------------------------------------------------------------------
(* The invariant. *)

LEMMA PipelineInitInv ==
    ASSUME PipelineInit
    PROVE  PipelineInv
<1>1. /\ clock = Genesis - 1 /\ clock \in Nat /\ 0 \in BatchIds /\ MaxFaults \in Nat
      /\ BatchIds \subseteq Nat
    BY Constants DEF PipelineInit, CoordinatorInit, BatchIds
<1>2. PipelineTypeOK
    <2>1. scheduler \in Scheduler
        BY <1>1 DEF PipelineInit, CoordinatorInit, Scheduler, Places
    <2>2. sent \in Seq(Transaction)
        BY DEF PipelineInit, CoordinatorInit
    <2>3. CoordinatorTypeOK
        BY <1>1, <2>1, <2>2 DEF PipelineInit, CoordinatorInit, CoordinatorTypeOK
    <2>4. solver_sent \in Seq([call : {"submit_solution", "settle_batch"},
                               batch : BatchIds, at : Nat])
        BY DEF PipelineInit
    <2>5. QED
        BY <1>1, <2>3, <2>4 DEF PipelineInit, PipelineTypeOK
<1>3. scheduler.at = "loop" /\ sent = <<>> /\ opened = {}
    BY DEF PipelineInit, CoordinatorInit
<1>4. Timely /\ OpenedBefore
    BY <1>3 DEF Timely, OpenedBefore, Early, Late, Busy
<1>5. SentInTime
    BY <1>3 DEF SentInTime
<1>6. NoneForgotten
    <2>1. ASSUME NEW b \in BatchIds
          PROVE  ~ (clock >= CloseTime(b))
        <3>1. PICK n \in Nat : n = b
            BY <1>1
        <3>2. CloseTime(0) <= CloseTime(n) /\ CloseTime(0) \in Nat /\ CloseTime(n) \in Nat
            BY WindowsInOrder
        <3>3. CloseTime(0) >= Genesis + BatchWindow
            BY WindowsClose
        <3>4. QED
            BY <1>1, <3>1, <3>2, <3>3, Constants
    <2>2. QED
        BY <2>1 DEF NoneForgotten
<1>7. WonHasBid
    BY DEF PipelineInit, WonHasBid
<1>8. QED
    BY <1>2, <1>4, <1>5, <1>6, <1>7 DEF PipelineInv

LEMMA PipelineInvStep ==
    ASSUME PipelineInv, [PipelineNext]_pipelineVars
    PROVE  PipelineInv'
<1>1. CASE PipelineNext
    BY <1>1, TypeStep, TimelyStep, OpenedBeforeStep, SentInTimeStep, NoneForgottenStep
    DEF PipelineInv
<1>2. CASE UNCHANGED pipelineVars
    <2>1. UNCHANGED <<clock, scheduler, sent, told, opened, disturbed, faults, block_time,
                      status, bidders, spoiled, settled, bids, solver_sent>>
        BY <1>2 DEF pipelineVars, coordinatorVars, chainVars, solverVars
    <2>2. PipelineTypeOK' /\ WonHasBid'
        BY <2>1 DEF PipelineInv, PipelineTypeOK, CoordinatorTypeOK, WonHasBid
    <2>3. Timely' /\ OpenedBefore' /\ SentInTime'
        BY <2>1 DEF PipelineInv, Timely, Beyond, OpenedBefore, SentInTime
    <2>4. NoneForgotten'
        BY <2>1 DEF PipelineInv, NoneForgotten, Ended, InWork, Decided, Decides, CreatedBy, IsCall
    <2>5. QED
        BY <2>2, <2>3, <2>4 DEF PipelineInv
<1>3. QED
    BY <1>1, <1>2

LEMMA PipelineInvariant == PipelineSpec => []PipelineInv
    BY PipelineInitInv, PipelineInvStep, PTL DEF PipelineSpec

-----------------------------------------------------------------------------
(* Theorems. *)

\* Every variable of the coordinator, the chain and the solver keeps its type; a batch is
\* settled only if it had a solution (batch_scheduler.rs, batch_auction.cairo).
THEOREM PipelineTypeCorrect == PipelineSpec => []PipelineTypeOK
<1>1. PipelineInv => PipelineTypeOK
    BY DEF PipelineInv
<1>2. QED
    BY <1>1, PipelineInvariant, PTL

\* What is left to happen for a batch happens within the times the scheduler allows.
LEMMA InvEndsInTime ==
    ASSUME PipelineInv
    PROVE  EndsInTime
<1>1. /\ clock \in Nat /\ sent \in Seq(Transaction)
      /\ scheduler.due \in Nat /\ scheduler.close_time \in Nat
      /\ MaxDelay \in Nat /\ AuctionWait \in Nat /\ InclusionTime \in Nat
    BY SchedulerFields, Constants DEF PipelineInv, PipelineTypeOK, CoordinatorTypeOK
<1>2. SUFFICES ASSUME NEW b \in BatchIds \ (disturbed \cup spoiled), clock > LatestEnd(b)
               PROVE  Decided(b) \/ <<"failed", b>> \in told
    BY DEF EndsInTime, EndedBy
<1>3. PICK c \in Nat : c = CloseTime(b)
    BY WindowsClose, Constants
<1>4. clock > c + MaxDelay + AuctionWait + InclusionTime
    BY <1>2, <1>3 DEF LatestEnd
<1>5. ~ InWork(b)
    <2>1. SUFFICES ASSUME InWork(b) PROVE FALSE
        OBVIOUS
    <2>2. CASE scheduler.at = "sleep"
        BY <1>1, <1>3, <1>4, <2>1, <2>2 DEF InWork
    <2>3. CASE scheduler.at # "sleep"
        <3>1. scheduler.batch = b /\ scheduler.at \in Busy
            BY <2>1, <2>3 DEF InWork, Busy, Early, Late
        <3>2. /\ scheduler.close_time = c /\ clock <= scheduler.due
              /\ scheduler.at \in Early => scheduler.due = c + MaxDelay
              /\ scheduler.at = "wait" => scheduler.due - AuctionWait \in c..c + MaxDelay
              /\ scheduler.at \in Late => scheduler.due = c + MaxDelay + AuctionWait
              /\ scheduler.at \in Early \/ scheduler.at = "wait" \/ scheduler.at \in Late
            BY <1>1, <1>3, <3>1 DEF PipelineInv, Timely, Busy
        <3>3. CASE scheduler.at = "wait"
            BY <1>1, <1>4, <3>2, <3>3
        <3>4. CASE scheduler.at # "wait"
            BY <1>1, <1>4, <3>2, <3>4
        <3>5. QED
            BY <3>3, <3>4
    <2>4. QED
        BY <2>2, <2>3
<1>6. ASSUME NEW k \in DOMAIN sent, Decides(b, k)
      PROVE  FALSE
    <2>1. sent[k] \in Transaction
        BY <1>1
    <2>2. PICK t \in Nat : t = sent[k].at
        BY <2>1 DEF Transaction
    <2>3. clock <= t + InclusionTime
        <3>1. clock \in sent[k].at..sent[k].at + InclusionTime
            BY DEF PipelineInv, SentInTime
        <3>2. QED
            BY <1>1, <2>2, <3>1
    <2>4. t - AuctionWait <= c + MaxDelay
        BY <1>1, <1>3, <1>6, <2>2 DEF Decides
    <2>5. QED
        BY <1>1, <1>4, <2>3, <2>4
<1>7. clock >= CloseTime(b)
    BY <1>1, <1>3, <1>4
<1>8. Ended(b)
    BY <1>2, <1>5, <1>7 DEF PipelineInv, NoneForgotten
<1>9. QED
    BY <1>6, <1>8 DEF Ended

\* Every window that is not excused, by a fault or by solutions that cannot be scored, is
\* decided on chain, or the gateway has been told that it failed, by the time the auction could last be decided, for any windows, waits and
\* delays that fit into each other (batch_scheduler.rs:82-136, batch_auction.cairo:252-259).
THEOREM EveryWindowEndsInTime == PipelineSpec => []EndsInTime
    BY InvEndsInTime, PipelineInvariant, PTL

\* The transaction a step sends for a new batch.
LEMMA OpenedOnceStep ==
    ASSUME PipelineInv, [PipelineNext]_pipelineVars,
           NEW k \in DOMAIN sent', sent'[k].call = "create_batch", Len(sent') > Len(sent),
           sent'[k] = sent'[Len(sent')]
    PROVE  sent'[k].batch \notin opened /\ clock >= CloseTime(sent'[k].batch)
<1>1. /\ sent \in Seq(Transaction) /\ Len(sent) \in Nat /\ clock \in Nat
      /\ scheduler.batch \in BatchIds
    <2>1. sent \in Seq(Transaction) /\ clock \in Nat /\ scheduler.batch \in BatchIds
        BY SchedulerFields DEF PipelineInv, PipelineTypeOK, CoordinatorTypeOK
    <2>2. QED
        BY <2>1
<1>2. sent' # sent /\ (sent # <<>> => sent' # Tail(sent))
    BY <1>1, QueueRest
<1>3. ASSUME NEW b \in BatchIds
      PROVE  ~ (\/ IncludeCoordinator \/ IncludeSolver \/ LoseTransaction
                \/ SubmitSolution(b) \/ SubmitSettlement(b) \/ SettlementRefused(b)
                \/ OtherSolverBids(b))
    BY <1>2, OtherFrame DEF PipelineInv
<1>4. ~ PipelineTick /\ ~ UNCHANGED pipelineVars
    BY <1>2, TickStep DEF PipelineInv, pipelineVars, coordinatorVars
<1>5. CoordinatorActs
    <2>1. 0 \in BatchIds
        BY Constants DEF BatchIds
    <2>2. QED
        BY <1>3, <1>4, <2>1 DEF PipelineNext
<1>6. /\ CreateTx \in Transaction /\ FinalizeTx \in Transaction
      /\ \/ scheduler.at = "create" /\ sent' = Append(sent, CreateTx)
         \/ scheduler.at = "finalize" /\ sent' = Append(sent, FinalizeTx)
    BY <1>2, <1>5, CoordinatorFrame, CoordinatorSendTypes DEF PipelineInv, Sends
<1>7. \A tx \in Transaction : sent' = Append(sent, tx) => sent'[Len(sent')] = tx
    BY <1>1, QueueAppend
<1>8. scheduler.at = "create" /\ sent'[k] = CreateTx
    BY <1>6, <1>7 DEF FinalizeTx
<1>9. sent'[k].batch = scheduler.batch
    BY <1>8 DEF CreateTx
<1>10. /\ scheduler.close_time = CloseTime(scheduler.batch) /\ clock >= scheduler.close_time
    BY <1>1, <1>8, SchedulerFields
    DEF PipelineInv, PipelineTypeOK, CoordinatorTypeOK, Timely, Busy, Early
<1>11. scheduler.batch \notin opened
    <2>1. scheduler.batch \in opened => CloseTime(scheduler.batch) < scheduler.close_time
        BY <1>8 DEF PipelineInv, OpenedBefore
    <2>2. scheduler.close_time \in Nat
        BY SchedulerFields DEF PipelineInv, PipelineTypeOK, CoordinatorTypeOK
    <2>3. QED
        BY <1>10, <2>1, <2>2
<1>12. QED
    BY <1>9, <1>10, <1>11

\* However often the coordinator is restarted, which remembers nothing, it asks for an
\* auction only for a window that is over, and never twice (batch_scheduler.rs:82-136).
THEOREM AuctionsOpenedOnce == PipelineSpec => OpenedOnce
<1>1. ASSUME PipelineInv, [PipelineNext]_pipelineVars
      PROVE  [\A tx \in {sent'[k] : k \in DOMAIN sent'} :
                 (tx.call = "create_batch" /\ Len(sent') > Len(sent) /\ tx = sent'[Len(sent')])
                     => tx.batch \notin opened /\ clock >= CloseTime(tx.batch)]_pipelineVars
    BY <1>1, OpenedOnceStep
<1>2. QED
    BY <1>1, PipelineInvariant, PTL DEF PipelineSpec, OpenedOnce
-----------------------------------------------------------------------------
(* The life cycle of a batch. *)

\* A transaction that gets into a block starts, bids for, decides or executes its batch
\* in the abstract, or reverts.
LEMMA ExecutedInLifecycle ==
    ASSUME PipelineTypeOK, NEW tx, tx.batch \in BatchIds,
           tx.call \in {"create_batch", "finalize_auction", "submit_solution", "settle_batch"},
           Execute(tx, block_time'), block_time' \in Nat, block_time <= block_time'
    PROVE  BatchLife!Next
<1> DEFINE b == tx.batch
<1>1. /\ status \in [BatchIds -> {"OPEN", "AUCTION", "SETTLED", "FAILED"}]
      /\ b \in BatchIds
    BY DEF PipelineTypeOK
<1>2. CASE tx.call = "create_batch"
    <2>1. create_batch(b)
        BY <1>2 DEF Execute
    <2>2. CASE status[b] = "OPEN"
        <3>1. BatchLife!Start(b)
            BY <2>1, <2>2 DEF create_batch, BatchLife!Start
        <3>2. QED
            BY <1>1, <3>1 DEF BatchLife!Next
    <2>3. CASE status[b] # "OPEN"
        BY <2>1, <2>3 DEF create_batch, BatchLife!Next
    <2>4. QED
        BY <2>2, <2>3
<1>3. CASE tx.call = "finalize_auction"
    <2>1. finalize_auction(b, block_time')
        BY <1>3 DEF Execute
    <2>2. CASE /\ status[b] = "AUCTION" /\ b \notin spoiled
               /\ block_time' \in Deadline(b)..Deadline(b) + AuctionResolution
        <3>1. BatchLife!Decide(b)
            BY <1>1, <2>1, <2>2
            DEF finalize_auction, Deadline, BatchLife!Decide, BatchLife!LastBid
        <3>2. QED
            BY <1>1, <3>1 DEF BatchLife!Next
    <2>3. CASE ~ (/\ status[b] = "AUCTION" /\ b \notin spoiled
                  /\ block_time' \in Deadline(b)..Deadline(b) + AuctionResolution)
        BY <2>1, <2>3 DEF finalize_auction, BatchLife!Next
    <2>4. QED
        BY <2>2, <2>3
<1>4. CASE tx.call = "submit_solution"
    <2>1. submit_solution(b, block_time')
        BY <1>4 DEF Execute
    <2>2. CASE status[b] = "AUCTION" /\ block_time' \in CloseTime(b)..CloseTime(b) + SolutionWindow
        <3>1. BatchLife!Bid(b)
            BY <1>1, <2>1, <2>2 DEF submit_solution, BatchLife!Bid, BatchLife!LastBid
        <3>2. QED
            BY <1>1, <3>1 DEF BatchLife!Next
    <2>3. CASE ~ (status[b] = "AUCTION"
                  /\ block_time' \in CloseTime(b)..CloseTime(b) + SolutionWindow)
        BY <2>1, <2>3 DEF submit_solution, BatchLife!Next
    <2>4. QED
        BY <2>2, <2>3
<1>5. CASE tx.call = "settle_batch"
    <2>1. settle_batch(b)
        BY <1>5 DEF Execute
    <2>2. CASE status[b] = "SETTLED" /\ b \notin settled
        <3>1. BatchLife!Execute(b)
            BY <2>1, <2>2 DEF settle_batch, BatchLife!Execute
        <3>2. QED
            BY <1>1, <3>1 DEF BatchLife!Next
    <2>3. CASE ~ (status[b] = "SETTLED" /\ b \notin settled)
        <3>1. settled' = settled
            BY <2>1, <2>3 DEF settle_batch
        <3>2. QED
            BY <2>1, <3>1 DEF settle_batch, BatchLife!Next
    <2>4. QED
        BY <2>2, <2>3
<1>6. QED
    BY <1>2, <1>3, <1>4, <1>5

\* The chain this module keeps of the contracts, with delays, blocks dated late, lost and
\* reverted transactions and a solver that settles too early, does nothing that the life
\* cycle of a batch forbids: SettlementImplementsBatchLifecycle says that of the contracts.
THEOREM PipelineImplementsBatchLifecycle == PipelineSpec => BatchLifecycleSpec
<1>1. PipelineInit => BatchLife!Init
    <2>1. PipelineInit => block_time = Genesis - 1
        BY DEF PipelineInit, CoordinatorInit
    <2>2. Genesis - 1 \in Nat
        <3>1. Genesis \in Nat /\ Genesis > 0
            BY Constants
        <3>2. QED
            BY <3>1
    <2>3. QED
        BY <2>1, <2>2 DEF PipelineInit, BatchLife!Init
<1>2. PipelineInv /\ [PipelineNext]_pipelineVars
          => [BatchLife!Next]_<<block_time, status, bidders, settled>>
    <2> SUFFICES ASSUME PipelineInv, PipelineNext, ~ UNCHANGED chainVars
                 PROVE  BatchLife!Next
        BY DEF pipelineVars, chainVars
    <2>1. /\ PipelineTypeOK
          /\ sent \in Seq(Transaction) /\ solver_sent \in Seq(SolverCall)
          /\ block_time \in Nat /\ clock \in Nat
        BY DEF PipelineInv, PipelineTypeOK, CoordinatorTypeOK, SolverCall
    <2>2. \A t \in BlockTimes : t \in Nat /\ block_time <= t
        BY <2>1 DEF BlockTimes
    <2>3. CASE IncludeCoordinator
        <3>1. Head(sent) \in Transaction
            BY <2>1, <2>3, QueueRest DEF IncludeCoordinator
        <3>2. block_time' \in BlockTimes /\ Execute(Head(sent), block_time')
            BY <2>3 DEF IncludeCoordinator
        <3>3. QED
            BY <2>1, <2>2, <3>1, <3>2, ExecutedInLifecycle DEF Transaction
    <2>4. CASE IncludeSolver
        <3>1. Head(solver_sent) \in SolverCall
            BY <2>1, <2>4, QueueRest DEF IncludeSolver
        <3>2. block_time' \in BlockTimes /\ Execute(Head(solver_sent), block_time')
            BY <2>4 DEF IncludeSolver
        <3>3. QED
            BY <2>1, <2>2, <3>1, <3>2, ExecutedInLifecycle DEF SolverCall
    <2>5. ASSUME NEW b \in BatchIds, OtherSolverBids(b)
          PROVE  BatchLife!Next
        <3>1. /\ status[b] = "AUCTION" /\ bidders' = bidders \cup {b}
              /\ UNCHANGED <<status, settled>>
              /\ block_time' \in BlockTimes /\ block_time' \in CloseTime(b)..Deadline(b)
            BY <2>5 DEF OtherSolverBids
        <3>2. BatchLife!Bid(b)
            BY <3>1 DEF Deadline, BatchLife!Bid, BatchLife!LastBid
        <3>3. QED
            BY <2>2, <3>1, <3>2 DEF BatchLife!Next
    <2>6. QED
        BY <2>3, <2>4, <2>5 DEF PipelineNext, CoordinatorActs, LoseTransaction, SubmitSolution,
            SubmitSettlement, SettlementRefused, PipelineTick
<1>3. QED
    BY <1>1, <1>2, PipelineInvariant, PTL
    DEF PipelineSpec, BatchLifecycleSpec, BatchLife!Spec
=============================================================================
