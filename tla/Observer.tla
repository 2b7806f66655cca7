------------------------------ MODULE Observer ------------------------------
(***************************************************************************)
(* backend/observer/src/indexer.rs: the observer reads the events of one   *)
(* contract after the other, page by page, from current_block to whatever  *)
(* block is the latest at each request, tells the gateway of every event,  *)
(* and saves the next block to read in a checkpoint file.  Events are in   *)
(* the order of their numbers within a block.                              *)
(*                                                                         *)
(* A poll ends at the first error of the node and is repeated from where   *)
(* it began; an error of the gateway is retried or only logged.            *)
(* The HTTP client has no timeout: a peer that falls silent in the middle  *)
(* of a request stops the observer until the process is started again.     *)
(***************************************************************************)
EXTENDS Naturals, Sequences, FiniteSets

CONSTANTS Events,          \* the events the contracts may emit, as numbers
          Addresses,       \* contract_addresses, in the order they are polled
          AddressOf,       \* the index in Addresses of the contract of each event
          Unreadable,      \* events of other kinds, or whose data cannot be parsed
          FromBlock,       \* from_block
          PageSize,        \* chunk_size
          MaxAttempts,     \* 5: requests made for one event
          NoCheckpoint,    \* no checkpoint file, or one that is no number
          MaxBlock,        \* bound: the last block
          MaxFaults        \* bound: failed and unanswered requests, and crashes

ASSUME ObserverAssumption ==
    /\ Events \subseteq Nat \ {0} /\ IsFiniteSet(Events)
    /\ Addresses \in Seq(STRING) /\ Addresses # <<>>
    /\ AddressOf \in [Events -> DOMAIN Addresses]
    /\ Unreadable \subseteq Events
    /\ {PageSize, MaxAttempts} \subseteq Nat \ {0}
    /\ {MaxBlock, MaxFaults} \subseteq Nat
    /\ FromBlock \in 0..MaxBlock + 1                 \* the bound leaves room for it
    /\ NoCheckpoint \notin Nat

VARIABLES
    head,         \* the latest block
    block_of,     \* the block of each event; 0 when it has not been emitted
    observer,     \* where the observer is, and what it remembers
    checkpoint,   \* the contents of the checkpoint file
    tried,        \* history: the events the gateway was told of, or could not be
    read_to,      \* history: the latest block when each contract was last read
    late,         \* history: the events in blocks that were passed before they could be read
    faults        \* history: the number of failed and unanswered requests, and crashes

observerVars == <<head, block_of, observer, checkpoint, tried, read_to, late, faults>>

Places == {"sleep", "fetch", "handle", "post", "save", "write", "hung", "down"}

\* A continuation token is the last event of the page before; 0 when there is none.
Tokens == Events \cup {0}

ObserverTypeOK ==
    /\ head \in 0..MaxBlock
    /\ block_of \in [Events -> 0..head]
    /\ observer \in [at : Places, current_block : 0..MaxBlock + 1, max_seen : 0..MaxBlock + 1,
                     address : DOMAIN Addresses, token : Tokens, page : SUBSET Events,
                     attempts : 0..MaxAttempts - 1]
    /\ checkpoint \in (0..MaxBlock + 1) \cup {NoCheckpoint}
    /\ tried \subseteq Events
    /\ read_to \in [DOMAIN Addresses -> 0..head]
    /\ late \subseteq Events
    /\ faults \in 0..MaxFaults

\* read_checkpoint(..).unwrap_or(from_block)
StartBlock == IF checkpoint = NoCheckpoint THEN FromBlock ELSE checkpoint

Started == [at |-> "sleep", current_block |-> StartBlock, max_seen |-> 0, address |-> 1,
            token |-> 0, page |-> {}, attempts |-> 0]

ObserverInit ==
    /\ head = 0
    /\ block_of = [e \in Events |-> 0]
    /\ checkpoint = NoCheckpoint
    /\ observer = [Started EXCEPT !.current_block = FromBlock]
    /\ tried = {}
    /\ read_to = [a \in DOMAIN Addresses |-> 0]
    /\ late = {}
    /\ faults = 0

-----------------------------------------------------------------------------
(* The chain *)

NewBlock(emitted) ==
    /\ head < MaxBlock                                \* bound
    /\ head' = head + 1
    /\ block_of' = [e \in Events |-> IF e \in emitted THEN head + 1 ELSE block_of[e]]
    /\ late' = IF head + 1 < observer.current_block THEN late \cup emitted ELSE late
    /\ UNCHANGED <<observer, checkpoint, tried, read_to, faults>>

Emitted == {e \in Events : block_of[e] # 0}

Before(d, e) == block_of[d] < block_of[e] \/ (block_of[d] = block_of[e] /\ d < e)

First(S) == CHOOSE e \in S : \A d \in S \ {e} : Before(e, d)

Last(S) == CHOOSE e \in S : \A d \in S \ {e} : Before(d, e)

-----------------------------------------------------------------------------
(* poll_events *)

LocalStep == UNCHANGED <<head, block_of, faults>>

Fault == faults < MaxFaults /\ faults' = faults + 1 /\ UNCHANGED <<head, block_of>>

Poll ==
    /\ observer.at = "sleep"
    /\ observer' = [observer EXCEPT !.at = "fetch", !.max_seen = observer.current_block,
                                    !.address = 1, !.token = 0]
    /\ LocalStep /\ UNCHANGED <<checkpoint, tried, read_to, late>>

\* The observer after the last page of a contract.
NextAddress ==
    IF observer.address < Len(Addresses)
    THEN [observer EXCEPT !.at = "fetch", !.address = @ + 1, !.token = 0]
    ELSE [observer EXCEPT !.at = "save", !.token = 0]

\* What the node has for a request of the contract, after the token.
Unread(address, token) ==
    {e \in Emitted : /\ AddressOf[e] = address
                     /\ block_of[e] >= observer.current_block
                     /\ token # 0 => Before(token, e)}

PageOf(S) ==
    {e \in S : Cardinality({d \in S : Before(d, e)}) < PageSize}

FetchPage ==
    LET address == observer.address
        unread  == Unread(address, observer.token)
        page    == PageOf(unread)
    IN  /\ observer.at = "fetch"
        /\ observer' = IF unread = {} THEN NextAddress
                       ELSE [observer EXCEPT !.at = "handle", !.page = page,
                                 !.token = IF page = unread THEN 0 ELSE Last(page)]
        /\ read_to' = [read_to EXCEPT ![address] = head]
        /\ LocalStep /\ UNCHANGED <<checkpoint, tried, late>>

\* Mutant: the poll goes on with the next contract.
MutantFetchFails ==
    /\ observer.at = "fetch"
    /\ observer' = NextAddress
    /\ Fault /\ UNCHANGED <<checkpoint, tried, read_to, late>>

\* The poll ends; the next one reads the same blocks again.
FetchFails ==
    /\ observer.at = "fetch"
    /\ observer' = [observer EXCEPT !.at = "sleep"]
    /\ Fault /\ UNCHANGED <<checkpoint, tried, read_to, late>>

Larger(a, b) == IF a > b THEN a ELSE b

HandleEvent ==
    LET e == First(observer.page)
        seen == [observer EXCEPT !.max_seen = Larger(@, block_of[e])]
    IN  /\ observer.at = "handle"
        /\ observer.page # {}
        /\ IF e \in Unreadable
           THEN /\ observer' = [seen EXCEPT !.page = @ \ {e}]
                /\ tried' = tried \cup {e}
           ELSE /\ observer' = [seen EXCEPT !.at = "post", !.attempts = 0]
                /\ UNCHANGED tried
        /\ LocalStep /\ UNCHANGED <<checkpoint, read_to, late>>

EndOfPage ==
    /\ observer.at = "handle"
    /\ observer.page = {}
    /\ observer' = IF observer.token # 0 THEN [observer EXCEPT !.at = "fetch"] ELSE NextAddress
    /\ LocalStep /\ UNCHANGED <<checkpoint, tried, read_to, late>>

-----------------------------------------------------------------------------
(* post_gateway_json *)

\* The request succeeds, is refused, or does not get through: the event is done with.
PostEnds ==
    LET e == First(observer.page) IN
    /\ observer.at = "post"
    /\ observer' = [observer EXCEPT !.at = "handle", !.page = @ \ {e}, !.attempts = 0]
    /\ tried' = tried \cup {e}
    /\ LocalStep /\ UNCHANGED <<checkpoint, read_to, late>>

\* Mutant: after the last attempt the count starts over.
MutantTryAgain ==
    /\ observer.at = "post"
    /\ observer' = [observer EXCEPT !.attempts = (@ + 1) % MaxAttempts]
    /\ LocalStep /\ UNCHANGED <<checkpoint, tried, read_to, late>>

\* The gateway answers 429 or 5xx and there is an attempt left.  The last one is PostEnds.
TryAgain ==
    /\ observer.at = "post"
    /\ observer.attempts + 1 < MaxAttempts
    /\ observer' = [observer EXCEPT !.attempts = @ + 1]
    /\ LocalStep /\ UNCHANGED <<checkpoint, tried, read_to, late>>

-----------------------------------------------------------------------------
(* The end of a poll *)

\* Blocks after the last one of the instance are all alike.
Capped(block) == IF block > MaxBlock THEN MaxBlock + 1 ELSE block

\* The comparison with max_seen, which starts as current_block, always holds: a poll
\* without events moves on by one block as well.
Advance ==
    /\ observer.at = "save"
    /\ observer' = [observer EXCEPT !.at = "write", !.current_block = Capped(observer.max_seen + 1)]
    /\ late' = late \cup {e \in Emitted : block_of[e] \in (read_to[AddressOf[e]] + 1)..observer.max_seen}
    /\ LocalStep /\ UNCHANGED <<checkpoint, tried, read_to>>

WriteCheckpoint ==
    /\ observer.at = "write"
    /\ observer' = [observer EXCEPT !.at = "sleep"]
    /\ checkpoint' = observer.current_block
    /\ LocalStep /\ UNCHANGED <<tried, read_to, late>>

\* The file is not opened, or emptied and not written: only a warning.
WriteFails ==
    /\ observer.at = "write"
    /\ observer' = [observer EXCEPT !.at = "sleep"]
    /\ checkpoint' \in {checkpoint, NoCheckpoint}
    /\ LocalStep /\ UNCHANGED <<tried, read_to, late>>

\* reqwest::Client::new() sets no timeout: no answer and no error, and the loop waits.
Unanswered ==
    /\ observer.at \in {"fetch", "post"}
    /\ observer' = [observer EXCEPT !.at = "hung"]
    /\ Fault /\ UNCHANGED <<checkpoint, tried, read_to, late>>

\* In the middle of a write it leaves an empty file.
Crash ==
    /\ observer.at # "down"
    /\ observer' = [observer EXCEPT !.at = "down"]
    /\ checkpoint' \in IF observer.at = "write" THEN {checkpoint, NoCheckpoint} ELSE {checkpoint}
    /\ Fault /\ UNCHANGED <<tried, read_to, late>>

Restart ==
    /\ observer.at = "down"
    /\ observer' = Started
    /\ LocalStep /\ UNCHANGED <<checkpoint, tried, read_to, late>>

Work == Poll \/ FetchPage \/ HandleEvent \/ EndOfPage \/ Advance \/ WriteCheckpoint \/ Restart

Post == PostEnds \/ TryAgain

ObserverNext ==
    \/ \E emitted \in SUBSET (Events \ Emitted) : NewBlock(emitted)
    \/ Work \/ Post \/ FetchFails \/ WriteFails \/ Unanswered \/ Crash

\* The process runs, and is started again when it ends (docker-compose.yml:103); a request
\* gets an answer or an error unless it is Unanswered, which nothing mends but the end of the
\* process.  Nothing makes a block come, and no fault has to happen.
ObserverFairness == WF_observerVars(Work \/ WriteFails) /\ WF_observerVars(Post)

ObserverSpec == ObserverInit /\ [][ObserverNext]_observerVars /\ ObserverFairness

-----------------------------------------------------------------------------
(* Properties. *)

\* What lies behind the observer, in memory or in the checkpoint file, has been tried,
\* however pages, new blocks, failed requests and crashes come in between, unless its
\* block did not exist when its contract was last read (indexer.rs:95-130).
PassedIsTried ==
    \A e \in Emitted \ (tried \cup late) :
        /\ observer.at # "down" => block_of[e] >= observer.current_block
        /\ checkpoint # NoCheckpoint => block_of[e] >= checkpoint

\* The observer gets to every event, or past it: no error and no crash stops it for good,
\* only a request that is never answered (indexer.rs:78 sets no timeout).
EveryEventIsReached ==
    \A e \in Events : e \in Emitted ~> (e \in tried \cup late \/ observer.at = "hung")

\* docs/developers/self-hosting.mdx:12: "Rust indexer. Watches Starknet for settlement
\* events and updates the database": every event is brought to the gateway, or tried.
EveryEventIsTried == \A e \in Events : e \in Emitted ~> e \in tried
=============================================================================
