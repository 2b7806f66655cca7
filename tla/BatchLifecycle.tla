--------------------------- MODULE BatchLifecycle ---------------------------
(***************************************************************************)
(* What the contracts promise about a batch, without solvers, plans or     *)
(* bonds: an auction takes bids from the close of the batch to its         *)
(* deadline, is decided once, at the deadline or a little later, is won if *)
(* there was a bid and has failed if there was none, and only a batch that *)
(* was won is executed, at most once.                                      *)
(***************************************************************************)
EXTENDS Naturals

CONSTANTS Batches,
          Closes,              \* Closes[b]: the time from which on b takes bids
          SolutionWindow,      \* for how long
          AuctionResolution    \* how long after that the auction may be decided

VARIABLES time,       \* the timestamp of the latest block
          fate,       \* fate[b]: "OPEN" until the auction starts, then "AUCTION",
                      \* and in the end "SETTLED" or "FAILED"
          bid,        \* the batches somebody bid for
          executed    \* the batches whose intents were settled

LastBid(b) == Closes[b] + SolutionWindow

Init ==
    /\ time \in Nat
    /\ fate = [b \in Batches |-> "OPEN"]
    /\ bid = {}
    /\ executed = {}

Start(b) ==
    /\ fate[b] = "OPEN"
    /\ fate' = [fate EXCEPT ![b] = "AUCTION"]
    /\ UNCHANGED <<bid, executed>>

Bid(b) ==
    /\ fate[b] = "AUCTION"
    /\ time' \in Closes[b]..LastBid(b)
    /\ bid' = bid \cup {b}
    /\ UNCHANGED <<fate, executed>>

Decide(b) ==
    /\ fate[b] = "AUCTION"
    /\ time' \in LastBid(b)..LastBid(b) + AuctionResolution
    /\ fate' = [fate EXCEPT ![b] = IF b \in bid THEN "SETTLED" ELSE "FAILED"]
    /\ UNCHANGED <<bid, executed>>

Execute(b) ==
    /\ fate[b] = "SETTLED" /\ b \notin executed
    /\ executed' = executed \cup {b}
    /\ UNCHANGED <<fate, bid>>

\* Each of these happens in a block, and so does much that no batch is touched by.
Next ==
    /\ time' \in Nat /\ time <= time'
    /\ \/ UNCHANGED <<fate, bid, executed>>
       \/ \E b \in Batches : Start(b) \/ Bid(b) \/ Decide(b) \/ Execute(b)

Spec == Init /\ [][Next]_<<time, fate, bid, executed>>
=============================================================================
