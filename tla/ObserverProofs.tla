--------------------------- MODULE ObserverProofs ---------------------------
(***************************************************************************)
(* Proofs about Observer for any number of contracts, events and blocks,   *)
(* any page size and any number of faults: types, and that what the        *)
(* observer leaves behind has been tried.                                  *)
(***************************************************************************)
EXTENDS Observer, FiniteSetTheorems, WellFoundedInduction, TLAPS

Blocks == 0..MaxBlock + 1

\* Events the gateway has not been told of although nothing excuses it.
Untried == Emitted \ (tried \cup late)

\* The observer moves forward only, and the file is behind it.
Forward ==
    /\ FromBlock <= observer.current_block
    /\ checkpoint # NoCheckpoint => FromBlock <= checkpoint /\ checkpoint <= observer.current_block
    /\ observer.at \in {"fetch", "handle", "post", "save"} => observer.current_block <= observer.max_seen

\* Pages and tokens are made of events.
PagesAreEvents ==
    /\ observer.token # 0 => observer.token \in Emitted
    /\ observer.page \subseteq Emitted
    /\ observer.at = "post" => observer.page # {}

\* Nothing before from_block counts.
AfterStart == \A e \in Untried : block_of[e] >= FromBlock

\* Of a contract the poll is through with, what is untried came after it was read.
Came(e) == block_of[e] > read_to[AddressOf[e]]

\* Of the contract that is being read, what is untried is in the page or after it.
Waits(e) ==
    \/ observer.at \in {"handle", "post"} /\ e \in observer.page
    \/ observer.token # 0 /\ Before(observer.token, e)
    \/ observer.token = 0 /\ (observer.at = "fetch" \/ Came(e))

Progress ==
    \A e \in Untried :
        /\ observer.at = "save" => Came(e)
        /\ observer.at \in {"fetch", "handle", "post"} =>
              /\ AddressOf[e] < observer.address => Came(e)
              /\ AddressOf[e] = observer.address => Waits(e)

ObserverInv ==
    /\ ObserverTypeOK /\ Forward /\ PagesAreEvents
    /\ AfterStart /\ PassedIsTried /\ Progress

-----------------------------------------------------------------------------
(* The order of events. *)

LEMMA BeforeIsAnOrder ==
    ASSUME block_of \in [Events -> Nat]
    PROVE  /\ \A d \in Events : ~Before(d, d)
           /\ \A d, e \in Events : d # e => Before(d, e) \/ Before(e, d)
           /\ \A c, d, e \in Events : Before(c, d) /\ Before(d, e) => Before(c, e)
<1>1. \A e \in Events : e \in Nat /\ block_of[e] \in Nat
  BY ObserverAssumption DEF ObserverAssumption
<1> QED BY <1>1 DEF Before

\* A finite set that is not empty has a least element in a strict order.
LEMMA LeastExists ==
    ASSUME NEW S, IsFiniteSet(S), S # {}, NEW R,
           \A d \in S : <<d, d>> \notin R,
           \A c, d, e \in S : <<c, d>> \in R /\ <<d, e>> \in R => <<c, e>> \in R
    PROVE  \E e \in S : \A d \in S : <<d, e>> \notin R
<1> DEFINE Below(e) == {d \in S : <<d, e>> \in R}
           Sizes == {Cardinality(Below(e)) : e \in S}
<1>1. ASSUME NEW e \in S PROVE IsFiniteSet(Below(e)) /\ Cardinality(Below(e)) \in Nat
  <2>1. Below(e) \in SUBSET S
    OBVIOUS
  <2> HIDE DEF Below
  <2> QED BY <2>1, FS_Subset, FS_CardinalityType
<1>2. ASSUME NEW d \in S, NEW e \in S, <<d, e>> \in R
      PROVE  Cardinality(Below(d)) < Cardinality(Below(e))
  <2>1. Below(d) \subseteq Below(e) /\ d \in Below(e) /\ d \notin Below(d)
    BY <1>2
  <2> HIDE DEF Below
  <2>2. Cardinality(Below(d)) <= Cardinality(Below(e)) /\ Cardinality(Below(d)) # Cardinality(Below(e))
    BY <1>1, <2>1, FS_Subset
  <2> QED BY <1>1, <2>2
<1> HIDE DEF Below
<1>3. PICK n \in Sizes : \A m \in Sizes : ~(<<m, n>> \in OpToRel(<, Nat))
  <2>1. Sizes \subseteq Nat /\ Sizes # {}
    BY <1>1
  <2> HIDE DEF Sizes
  <2> QED BY <2>1, WFMin, NatLessThanWellFounded
<1>4. PICK e \in S : n = Cardinality(Below(e))
  BY <1>3
<1>5. ASSUME NEW d \in S, <<d, e>> \in R PROVE FALSE
  <2>1. Cardinality(Below(d)) \in Sizes /\ Cardinality(Below(d)) \in Nat /\ n \in Nat
    BY <1>1, <1>4
  <2>2. Cardinality(Below(d)) < n
    BY <1>2, <1>4, <1>5
  <2> HIDE DEF Sizes
  <2> QED BY <1>3, <2>1, <2>2 DEF OpToRel
<1> QED BY <1>5

LEMMA EventsAreFinite == \A S \in SUBSET Events : IsFiniteSet(S)
BY ObserverAssumption, FS_Subset DEF ObserverAssumption

LEMMA FirstIsFirst ==
    ASSUME block_of \in [Events -> Nat], NEW S \in SUBSET Events, S # {}
    PROVE  First(S) \in S /\ \A d \in S \ {First(S)} : Before(First(S), d)
<1> DEFINE R == {p \in S \X S : Before(p[1], p[2])}
<1>1. \A d, e \in S : <<d, e>> \in R <=> Before(d, e)
  BY DEF Before
<1> HIDE DEF R
<1>2. /\ \A d \in S : <<d, d>> \notin R
      /\ \A c, d, e \in S : <<c, d>> \in R /\ <<d, e>> \in R => <<c, e>> \in R
      /\ IsFiniteSet(S)
  <2>1. \A d \in S : ~Before(d, d)
    BY BeforeIsAnOrder
  <2>2. \A c, d, e \in S : Before(c, d) /\ Before(d, e) => Before(c, e)
    BY BeforeIsAnOrder
  <2> QED BY <1>1, <2>1, <2>2, EventsAreFinite
<1>3. PICK e \in S : \A d \in S : <<d, e>> \notin R
  BY <1>1, <1>2, LeastExists
<1>4. \A d \in S \ {e} : Before(e, d)
  <2>1. \A d \in S \ {e} : Before(d, e) \/ Before(e, d)
    BY BeforeIsAnOrder
  <2> QED BY <1>1, <1>3, <2>1
<1> QED BY <1>4 DEF First

LEMMA LastIsLast ==
    ASSUME block_of \in [Events -> Nat], NEW S \in SUBSET Events, S # {}
    PROVE  Last(S) \in S /\ \A d \in S \ {Last(S)} : Before(d, Last(S))
<1> DEFINE R == {p \in S \X S : Before(p[2], p[1])}
<1>1. \A d, e \in S : <<d, e>> \in R <=> Before(e, d)
  BY DEF Before
<1> HIDE DEF R
<1>2. /\ \A d \in S : <<d, d>> \notin R
      /\ \A c, d, e \in S : <<c, d>> \in R /\ <<d, e>> \in R => <<c, e>> \in R
      /\ IsFiniteSet(S)
  <2>1. \A d \in S : ~Before(d, d)
    BY BeforeIsAnOrder
  <2>2. \A c, d, e \in S : Before(c, d) /\ Before(d, e) => Before(c, e)
    BY BeforeIsAnOrder
  <2> QED BY <1>1, <2>1, <2>2, EventsAreFinite
<1>3. PICK e \in S : \A d \in S : <<d, e>> \notin R
  BY <1>1, <1>2, LeastExists
<1>4. \A d \in S \ {e} : Before(d, e)
  <2>1. \A d \in S \ {e} : Before(d, e) \/ Before(e, d)
    BY BeforeIsAnOrder
  <2> QED BY <1>1, <1>3, <2>1
<1> QED BY <1>4 DEF Last

\* A page that leaves something out is not empty, and what it leaves out comes after it.
LEMMA PageComesFirst ==
    ASSUME block_of \in [Events -> Nat], NEW S \in SUBSET Events, PageOf(S) # S
    PROVE  /\ Last(PageOf(S)) \in PageOf(S)
           /\ \A e \in S \ PageOf(S) : Before(Last(PageOf(S)), e)
<1> DEFINE Below(e) == {d \in S : Before(d, e)}
           page == PageOf(S)
<1>1. page = {e \in S : Cardinality(Below(e)) < PageSize}
  BY DEF PageOf
<1>2. \A e \in S : Below(e) \subseteq S /\ IsFiniteSet(Below(e)) /\ Cardinality(Below(e)) \in Nat
  <2>1. \A e \in S : Below(e) \in SUBSET S
    OBVIOUS
  <2> HIDE DEF Below
  <2> QED BY <2>1, EventsAreFinite, FS_CardinalityType
<1>3. page # {}
  <2>1. PICK e \in S : \A d \in S \ {e} : Before(e, d)
    BY <1>1, FirstIsFirst
  <2>2. Below(e) = {}
    <3>1. \A d \in S : ~Before(d, e)
      BY <2>1, BeforeIsAnOrder
    <3> QED BY <3>1
  <2> HIDE DEF Below
  <2>3. Cardinality(Below(e)) = 0
    BY <2>2, FS_EmptySet
  <2> QED BY <1>1, <2>3, ObserverAssumption DEF ObserverAssumption
<1>4. ASSUME NEW d \in page, NEW e \in S \ page PROVE Before(d, e)
  <2>1. d \in S /\ e \in S /\ d # e
    BY <1>1
  <2>2. CASE Before(e, d)
    <3>1. Below(e) \subseteq Below(d)
      BY <2>1, <2>2, BeforeIsAnOrder
    <3> HIDE DEF Below
    <3>2. Cardinality(Below(e)) <= Cardinality(Below(d))
      BY <1>2, <2>1, <3>1, FS_Subset
    <3>3. Cardinality(Below(d)) < PageSize /\ ~(Cardinality(Below(e)) < PageSize)
      BY <1>1, <1>4
    <3> QED BY <1>2, <2>1, <3>2, <3>3, ObserverAssumption DEF ObserverAssumption
  <2> QED BY <2>1, <2>2, BeforeIsAnOrder
<1>5. page \in SUBSET Events
  BY <1>1
<1> HIDE DEF page
<1>6. Last(page) \in page
  BY <1>3, <1>5, LastIsLast
<1>7. \A e \in S \ page : Before(Last(page), e)
  BY <1>4, <1>6
<1> QED BY <1>6, <1>7 DEF page

-----------------------------------------------------------------------------
(* Types. *)

ObserverState ==
    [at : Places, current_block : Blocks, max_seen : Blocks, address : DOMAIN Addresses,
     token : Tokens, page : SUBSET Events, attempts : 0..MaxAttempts - 1]

LEMMA ObserverFacts ==
    ASSUME ObserverTypeOK
    PROVE  /\ observer \in ObserverState
           /\ observer.current_block \in Blocks /\ observer.current_block \in Nat
           /\ observer.max_seen \in Blocks /\ observer.max_seen \in Nat
           /\ observer.token \in Tokens /\ observer.page \in SUBSET Events
           /\ observer.address \in DOMAIN Addresses /\ observer.attempts \in 0..MaxAttempts - 1
           /\ block_of \in [Events -> Nat]
           /\ \A e \in Events : block_of[e] <= head /\ block_of[e] \in Blocks
           /\ head \in Nat /\ head <= MaxBlock /\ MaxBlock \in Nat
           /\ Emitted \subseteq Events
<1>1. observer \in ObserverState
  BY DEF ObserverTypeOK, ObserverState, Blocks
<1>2. MaxBlock \in Nat /\ head \in 0..MaxBlock
  BY ObserverAssumption DEF ObserverAssumption, ObserverTypeOK
<1>3. block_of \in [Events -> 0..head]
  BY DEF ObserverTypeOK
<1>4. /\ observer.current_block \in Blocks /\ observer.max_seen \in Blocks
      /\ observer.token \in Tokens /\ observer.page \in SUBSET Events
      /\ observer.address \in DOMAIN Addresses /\ observer.attempts \in 0..MaxAttempts - 1
  BY <1>1 DEF ObserverState
<1> QED BY <1>1, <1>2, <1>3, <1>4 DEF Blocks, Emitted

LEMMA StartedIsAState ==
    ASSUME NEW block \in Blocks
    PROVE  [at |-> "sleep", current_block |-> block, max_seen |-> 0, address |-> 1,
            token |-> 0, page |-> {}, attempts |-> 0] \in ObserverState
<1>1. 1 \in DOMAIN Addresses
  BY ObserverAssumption DEF ObserverAssumption
<1>2. 0 \in Blocks /\ 0 \in 0..MaxAttempts - 1
  BY ObserverAssumption DEF ObserverAssumption, Blocks
<1> QED BY <1>1, <1>2 DEF ObserverState, Places, Tokens

LEMMA AssumedBlocks == FromBlock \in Blocks /\ FromBlock \in Nat /\ MaxBlock \in Nat /\ Blocks \subseteq Nat
BY ObserverAssumption DEF ObserverAssumption, Blocks

LEMMA ObserverInitInv == ObserverInit => ObserverInv
<1> SUFFICES ASSUME ObserverInit PROVE ObserverInv
  OBVIOUS
<1>1. observer = [at |-> "sleep", current_block |-> FromBlock, max_seen |-> 0, address |-> 1,
                  token |-> 0, page |-> {}, attempts |-> 0]
  BY DEF ObserverInit, Started
<1>2. observer \in ObserverState
  BY <1>1, AssumedBlocks, StartedIsAState
<1>3. Emitted = {} /\ Untried = {}
  BY DEF ObserverInit, Emitted, Untried
<1>4. ObserverTypeOK
  <2>1. /\ head \in 0..MaxBlock /\ faults \in 0..MaxFaults /\ 0 \in 0..head
    BY ObserverAssumption DEF ObserverInit, ObserverAssumption
  <2> QED BY <1>2, <2>1 DEF ObserverInit, ObserverTypeOK, ObserverState, Blocks
<1>5. Forward /\ PagesAreEvents
  BY <1>1, AssumedBlocks DEF ObserverInit, Forward, PagesAreEvents
<1>6. AfterStart /\ Progress /\ PassedIsTried
  BY <1>3 DEF AfterStart, Progress, PassedIsTried, Untried
<1> QED BY <1>4, <1>5, <1>6 DEF ObserverInv

-----------------------------------------------------------------------------
(* Steps. *)

\* A step of the observer that stays where it is in the chain.
LEMMA LocalKeepsInv ==
    ASSUME ObserverInv, NEW new \in ObserverState, observer' = new,
           UNCHANGED <<head, block_of, late>>, read_to' \in [DOMAIN Addresses -> 0..head],
           observer.at # "down", new.current_block = observer.current_block,
           tried \subseteq tried', tried' \subseteq Events,
           checkpoint' \in {checkpoint, NoCheckpoint, observer.current_block},
           faults' \in 0..MaxFaults,
           new.at \in {"fetch", "handle", "post", "save"} => new.current_block <= new.max_seen,
           new.token # 0 => new.token \in Emitted, new.page \subseteq Emitted,
           new.at = "post" => new.page # {},
           Progress'
    PROVE  ObserverInv'
<1> USE ObserverFacts DEF ObserverInv
<1>1. Emitted' = Emitted /\ Untried' \subseteq Untried
  BY DEF Emitted, Untried
<1>2. ObserverTypeOK'
  BY DEF ObserverTypeOK, ObserverState, Blocks
<1>3. Forward'
  BY DEF Forward
<1>4. PagesAreEvents'
  BY <1>1 DEF PagesAreEvents
<1>5. AfterStart'
  BY <1>1 DEF AfterStart
<1>6. PassedIsTried'
  <2>1. \A e \in Untried : /\ block_of[e] >= observer.current_block
                           /\ checkpoint # NoCheckpoint => block_of[e] >= checkpoint
    BY DEF PassedIsTried, Untried
  <2>2. Untried' = Emitted' \ (tried' \cup late')
    BY DEF Untried
  <2> QED BY <1>1, <2>1, <2>2 DEF PassedIsTried
<1> QED BY <1>2, <1>3, <1>4, <1>5, <1>6

\* Where nothing is being read there is nothing to say of it.
LEMMA RestHasNoProgress ==
    ASSUME observer'.at \in {"sleep", "hung", "down", "write"}
    PROVE  Progress'
BY DEF Progress

LEMMA PollKeepsInv ==
    ASSUME ObserverInv, Poll
    PROVE  ObserverInv'
<1> DEFINE new == [observer EXCEPT !.at = "fetch", !.max_seen = observer.current_block,
                                   !.address = 1, !.token = 0]
<1>1. ObserverTypeOK /\ faults \in 0..MaxFaults
  BY DEF ObserverInv, ObserverTypeOK
<1>2. 1 \in DOMAIN Addresses
  BY ObserverAssumption DEF ObserverAssumption
<1>3. /\ new \in ObserverState /\ new.at = "fetch" /\ new.max_seen = observer.current_block
      /\ new.current_block = observer.current_block /\ new.address = 1 /\ new.token = 0
      /\ new.page = observer.page
  BY <1>1, <1>2, ObserverFacts DEF ObserverState, Places, Tokens
<1>4. /\ observer' = new /\ UNCHANGED <<head, block_of, late, read_to, checkpoint, tried, faults>>
      /\ observer.at = "sleep"
  BY DEF Poll, LocalStep
<1> HIDE DEF new
<1>5. Progress'
  <2>1. Untried' \subseteq Events
    BY <1>1, <1>4, ObserverFacts DEF Untried, Emitted
  <2>2. \A e \in Events : AddressOf[e] \in Nat /\ AddressOf[e] >= 1
    BY ObserverAssumption DEF ObserverAssumption
  <2>3. \A e \in Untried' : ~(AddressOf[e] < observer'.address) /\ Waits(e)'
    BY <1>3, <1>4, <2>1, <2>2 DEF Waits
  <2> QED BY <1>3, <1>4, <2>3 DEF Progress
<1>6. /\ tried \subseteq Events /\ observer.page \subseteq Emitted
      /\ read_to \in [DOMAIN Addresses -> 0..head]
  BY DEF ObserverInv, ObserverTypeOK, PagesAreEvents
<1> QED BY <1>1, <1>3, <1>4, <1>5, <1>6, ObserverFacts, LocalKeepsInv

LEMMA AddressesAreNumbers ==
    /\ DOMAIN Addresses = 1..Len(Addresses) /\ Len(Addresses) \in Nat /\ DOMAIN Addresses \subseteq Nat
    /\ \A e \in Events : AddressOf[e] \in DOMAIN Addresses /\ AddressOf[e] \in Nat
                           /\ AddressOf[e] <= Len(Addresses)
BY ObserverAssumption DEF ObserverAssumption

LEMMA NextAddressFacts ==
    ASSUME ObserverTypeOK
    PROVE  /\ NextAddress \in ObserverState
           /\ NextAddress.current_block = observer.current_block
           /\ NextAddress.max_seen = observer.max_seen
           /\ NextAddress.page = observer.page /\ NextAddress.token = 0
           /\ \/ NextAddress.at = "fetch" /\ NextAddress.address = observer.address + 1
              \/ NextAddress.at = "save" /\ observer.address = Len(Addresses)
<1>1. observer \in ObserverState /\ observer.address \in 1..Len(Addresses) /\ Len(Addresses) \in Nat
  BY ObserverFacts, AddressesAreNumbers
<1>2. DOMAIN Addresses = 1..Len(Addresses)
  BY AddressesAreNumbers
<1>3. CASE observer.address < Len(Addresses)
  <2>1. observer.address + 1 \in DOMAIN Addresses
    BY <1>1, <1>2, <1>3
  <2>2. NextAddress = [observer EXCEPT !.at = "fetch", !.address = observer.address + 1, !.token = 0]
    BY <1>1, <1>3 DEF NextAddress, ObserverState
  <2> QED BY <1>1, <2>1, <2>2 DEF ObserverState, Places, Tokens
<1>4. CASE ~(observer.address < Len(Addresses))
  <2> DEFINE new == [observer EXCEPT !.at = "save", !.token = 0]
  <2>1. /\ new \in ObserverState /\ new.at = "save" /\ new.token = 0 /\ new.page = observer.page
        /\ new.current_block = observer.current_block /\ new.max_seen = observer.max_seen
    BY <1>1 DEF ObserverState, Places, Tokens
  <2>2. NextAddress = new
    BY <1>4 DEF NextAddress
  <2>3. observer.address = Len(Addresses)
    BY <1>1, <1>4
  <2> HIDE DEF new
  <2> QED BY <2>1, <2>2, <2>3
<1> QED BY <1>3, <1>4

LEMMA NextKeepsProgress ==
    ASSUME ObserverTypeOK, observer' = NextAddress,
           \A e \in Untried' : e \in Events /\ (AddressOf[e] <= observer.address => Came(e)')
    PROVE  Progress'
<1>1. observer.address \in Nat /\ observer.address \in DOMAIN Addresses
  BY ObserverFacts, ObserverAssumption DEF ObserverAssumption
<1>2. \A e \in Events : AddressOf[e] \in Nat /\ AddressOf[e] <= Len(Addresses)
  BY ObserverAssumption DEF ObserverAssumption
<1>3. CASE NextAddress.at = "fetch" /\ NextAddress.address = observer.address + 1
  <2>1. ASSUME NEW e \in Untried', AddressOf[e] < observer'.address PROVE Came(e)'
    <3>1. AddressOf[e] <= observer.address
      BY <1>1, <1>2, <1>3, <2>1
    <3> QED BY <3>1
  <2>2. ASSUME NEW e \in Untried' PROVE Waits(e)'
    BY <1>3, NextAddressFacts DEF Waits
  <2> QED BY <1>3, <2>1, <2>2 DEF Progress
<1>4. CASE NextAddress.at = "save" /\ observer.address = Len(Addresses)
  <2>1. \A e \in Untried' : Came(e)'
    BY <1>2, <1>4
  <2> QED BY <1>4, <2>1 DEF Progress
<1> QED BY <1>3, <1>4, NextAddressFacts

\* What every step that only reads uses of the invariant.
LEMMA LocalFacts ==
    ASSUME ObserverInv
    PROVE  /\ ObserverTypeOK /\ faults \in 0..MaxFaults
           /\ tried \subseteq Events /\ observer.page \subseteq Emitted
           /\ read_to \in [DOMAIN Addresses -> 0..head]
           /\ observer.token # 0 => observer.token \in Emitted
           /\ observer.at \in {"fetch", "handle", "post", "save"}
                 => observer.current_block <= observer.max_seen
           /\ \A e \in Untried : /\ e \in Emitted /\ e \in Events
                                 /\ observer.at # "down" => block_of[e] >= observer.current_block
<1>1. ObserverTypeOK /\ Forward /\ PagesAreEvents /\ PassedIsTried
  BY DEF ObserverInv
<1>2. Emitted \subseteq Events
  BY DEF Emitted
<1> QED BY <1>1, <1>2 DEF ObserverTypeOK, Forward, PagesAreEvents, PassedIsTried, Untried

LEMMA FetchPageKeepsInv ==
    ASSUME ObserverInv, FetchPage
    PROVE  ObserverInv'
<1> DEFINE a == observer.address
           unread == Unread(a, observer.token)
           page == PageOf(unread)
           new == [observer EXCEPT !.at = "handle", !.page = page,
                                   !.token = IF page = unread THEN 0 ELSE Last(page)]
<1>1. /\ observer.at = "fetch"
      /\ observer' = IF unread = {} THEN NextAddress ELSE new
      /\ read_to' = [read_to EXCEPT ![a] = head]
      /\ UNCHANGED <<head, block_of, faults, checkpoint, tried, late>>
  BY DEF FetchPage, LocalStep
<1>2. /\ a \in DOMAIN Addresses /\ head \in 0..head /\ block_of \in [Events -> Nat]
      /\ Emitted \subseteq Events /\ observer \in ObserverState
  BY LocalFacts, ObserverFacts
<1>3. read_to' \in [DOMAIN Addresses -> 0..head]
  BY <1>1, <1>2, LocalFacts
<1>4. Untried' = Untried
  BY <1>1 DEF Untried, Emitted
<1>5. ASSUME NEW e \in Untried, AddressOf[e] < a PROVE Came(e)'
  <2>1. Came(e) /\ AddressOf[e] # a
    <3>1. Came(e)
      BY <1>1, <1>5 DEF ObserverInv, Progress
    <3>2. AddressOf[e] \in Nat /\ a \in Nat
      BY <1>2, LocalFacts, AddressesAreNumbers
    <3> QED BY <1>5, <3>1, <3>2
  <2>2. read_to'[AddressOf[e]] = read_to[AddressOf[e]]
    BY <1>1, <2>1, <1>5, LocalFacts, ObserverAssumption DEF ObserverAssumption
  <2> QED BY <1>1, <2>1, <2>2 DEF Came
<1>6. ASSUME NEW e \in Untried, AddressOf[e] = a PROVE e \in unread
  <2>1. e \in Emitted /\ block_of[e] >= observer.current_block
    BY <1>1, LocalFacts
  <2>2. observer.token # 0 => Before(observer.token, e)
    BY <1>1, <1>6 DEF ObserverInv, Progress, Waits
  <2> QED BY <1>6, <2>1, <2>2 DEF Unread
<1>7. unread \subseteq Emitted /\ page \subseteq unread
  BY DEF Unread, PageOf
<1> HIDE DEF a, unread, page
<1>8. CASE unread = {}
  <2>1. ASSUME NEW e \in Untried', AddressOf[e] <= a PROVE Came(e)'
    <3>1. AddressOf[e] \in Nat /\ a \in Nat /\ e \in Untried
      BY <1>2, <1>4, <2>1, LocalFacts, AddressesAreNumbers
    <3>2. AddressOf[e] # a
      BY <1>4, <1>6, <1>8
    <3> QED BY <1>4, <1>5, <2>1, <3>1, <3>2
  <2>2. Progress'
    BY <1>1, <1>4, <1>8, <2>1, LocalFacts, NextKeepsProgress DEF a
  <2> QED BY <1>1, <1>3, <1>8, <2>2, LocalFacts, NextAddressFacts, LocalKeepsInv
<1>9. CASE unread # {}
  <2>1. /\ page # unread => Last(page) \in page
        /\ page # unread => \A e \in unread \ page : Before(Last(page), e)
    BY <1>2, <1>7, PageComesFirst DEF page
  <2>2. /\ new \in ObserverState /\ new.at = "handle" /\ new.page = page
        /\ new.current_block = observer.current_block /\ new.max_seen = observer.max_seen
        /\ new.address = a /\ new.token = IF page = unread THEN 0 ELSE Last(page)
    BY <1>2, <1>7, <2>1 DEF ObserverState, Places, Tokens, a
  <2> HIDE DEF new
  <2>3. ASSUME NEW e \in Untried', AddressOf[e] = a PROVE Waits(e)'
    <3>1. e \in unread
      BY <1>4, <1>6, <2>3
    <3>2. CASE e \in page
      BY <1>1, <1>9, <2>2, <3>2 DEF Waits
    <3>3. CASE e \notin page
      <4>1. Before(Last(page), e) /\ Last(page) \in Events /\ page # unread
        BY <1>2, <1>7, <2>1, <3>1, <3>3
      <4>2. PICK token \in Events : token = Last(page)
        BY <4>1
      <4>3. token # 0 /\ observer'.token = token
        BY <1>1, <1>9, <2>2, <4>1, <4>2, ObserverAssumption DEF ObserverAssumption
      <4>4. Before(token, e)'
        BY <1>1, <4>1, <4>2 DEF Before
      <4> QED BY <4>3, <4>4 DEF Waits
    <3> QED BY <3>2, <3>3
  <2>4. Progress'
    BY <1>1, <1>4, <1>5, <1>9, <2>2, <2>3 DEF Progress
  <2>5. new.token # 0 => new.token \in Emitted
    BY <1>7, <2>1, <2>2
  <2> QED BY <1>1, <1>3, <1>7, <1>9, <2>2, <2>4, <2>5, LocalFacts, LocalKeepsInv
<1> QED BY <1>8, <1>9

\* An event of the page is done with, and nothing else changes in the poll.
LEMMA PageShrinks ==
    ASSUME ObserverInv, observer.at \in {"handle", "post"}, NEW new \in ObserverState,
           observer' = new, new.at \in {"handle", "post"},
           new.address = observer.address, new.token = observer.token,
           UNCHANGED <<block_of, late, read_to>>, tried \subseteq tried',
           \A e \in observer.page : e \in new.page \/ e \in tried'
    PROVE  Progress'
<1>1. Untried' \subseteq Untried
  BY DEF Untried, Emitted
<1>2. ASSUME NEW e \in Untried', AddressOf[e] < observer.address PROVE Came(e)'
  BY <1>1, <1>2 DEF ObserverInv, Progress, Came
<1>3. ASSUME NEW e \in Untried', AddressOf[e] = observer.address PROVE Waits(e)'
  <2>1. Waits(e) /\ e \notin tried'
    BY <1>1, <1>3 DEF ObserverInv, Progress, Untried
  <2>2. CASE e \in observer.page
    BY <2>1, <2>2 DEF Waits
  <2>3. CASE observer.token # 0 /\ Before(observer.token, e)
    <3>1. PICK token \in Tokens : token = observer.token
      BY ObserverFacts DEF ObserverInv
    <3>2. Before(token, e)'
      BY <2>3, <3>1 DEF Before
    <3> QED BY <2>3, <3>1, <3>2 DEF Waits
  <2>4. CASE observer.token = 0 /\ Came(e)
    BY <2>4 DEF Waits, Came
  <2> QED BY <2>1, <2>2, <2>3, <2>4 DEF Waits
<1> QED BY <1>2, <1>3 DEF Progress

LEMMA FetchFailsKeepsInv ==
    ASSUME ObserverInv, FetchFails
    PROVE  ObserverInv'
<1> DEFINE new == [observer EXCEPT !.at = "sleep"]
<1>1. /\ new \in ObserverState /\ new.at = "sleep" /\ new.current_block = observer.current_block
      /\ new.token = observer.token /\ new.page = observer.page
  BY LocalFacts, ObserverFacts DEF ObserverState, Places
<1>2. /\ observer' = new /\ observer.at = "fetch"
      /\ UNCHANGED <<head, block_of, checkpoint, tried, read_to, late>>
      /\ faults' \in 0..MaxFaults
  BY LocalFacts, ObserverAssumption DEF FetchFails, Fault, ObserverAssumption
<1> HIDE DEF new
<1>3. Progress'
  BY <1>1, <1>2, RestHasNoProgress
<1> QED BY <1>1, <1>2, <1>3, LocalFacts, LocalKeepsInv

LEMMA HandleEventKeepsInv ==
    ASSUME ObserverInv, HandleEvent
    PROVE  ObserverInv'
<1> DEFINE e == First(observer.page)
           seen == [observer EXCEPT !.max_seen = Larger(@, block_of[e])]
<1>1. /\ observer.at = "handle" /\ observer.page # {} /\ observer.page \in SUBSET Events
      /\ UNCHANGED <<head, block_of, faults, checkpoint, read_to, late>>
      /\ observer \in ObserverState /\ block_of \in [Events -> Nat]
  BY LocalFacts, ObserverFacts DEF HandleEvent, LocalStep
<1>2. e \in observer.page /\ e \in Events
  BY <1>1, FirstIsFirst
<1>3. /\ Larger(observer.max_seen, block_of[e]) \in Blocks
      /\ Larger(observer.max_seen, block_of[e]) >= observer.max_seen
  BY <1>2, LocalFacts, ObserverFacts DEF Larger
<1>4. /\ seen \in ObserverState /\ seen.max_seen >= observer.max_seen /\ seen.at = "handle"
      /\ seen.current_block = observer.current_block /\ seen.address = observer.address
      /\ seen.token = observer.token /\ seen.page = observer.page
  BY <1>1, <1>3 DEF ObserverState
<1>5. observer.current_block <= seen.max_seen /\ seen.max_seen \in Nat
  BY <1>1, <1>4, AssumedBlocks, LocalFacts, ObserverFacts DEF ObserverState
<1>6. CASE e \in Unreadable
  <2> DEFINE new == [seen EXCEPT !.page = observer.page \ {e}]
  <2>1. observer' = new /\ tried' = tried \cup {e}
    BY <1>4, <1>6 DEF HandleEvent
  <2> HIDE DEF seen
  <2>2. /\ new \in ObserverState /\ new.at = "handle" /\ new.page = observer.page \ {e}
        /\ new.max_seen = seen.max_seen /\ new.current_block = observer.current_block
        /\ new.address = observer.address /\ new.token = observer.token
    BY <1>4 DEF ObserverState
  <2> HIDE DEF new, e
  <2>3. Progress'
    BY <1>1, <2>1, <2>2, PageShrinks
  <2> QED BY <1>1, <1>2, <1>5, <2>1, <2>2, <2>3, LocalFacts, LocalKeepsInv
<1>7. CASE e \notin Unreadable
  <2> DEFINE new == [seen EXCEPT !.at = "post", !.attempts = 0]
  <2>1. observer' = new /\ tried' = tried
    BY <1>7 DEF HandleEvent
  <2> HIDE DEF seen
  <2>2. 0 \in 0..MaxAttempts - 1
    BY ObserverAssumption DEF ObserverAssumption
  <2>3. /\ new \in ObserverState /\ new.at = "post" /\ new.page = observer.page
        /\ new.max_seen = seen.max_seen /\ new.current_block = observer.current_block
        /\ new.address = observer.address /\ new.token = observer.token
    BY <1>4, <2>2 DEF ObserverState, Places
  <2> HIDE DEF new, e
  <2>4. Progress'
    BY <1>1, <2>1, <2>3, PageShrinks
  <2> QED BY <1>1, <1>2, <1>5, <2>1, <2>3, <2>4, LocalFacts, LocalKeepsInv
<1> QED BY <1>6, <1>7

LEMMA EndOfPageKeepsInv ==
    ASSUME ObserverInv, EndOfPage
    PROVE  ObserverInv'
<1>1. /\ observer.at = "handle" /\ observer.page = {} /\ observer \in ObserverState
      /\ UNCHANGED <<head, block_of, faults, checkpoint, tried, read_to, late>>
      /\ observer.current_block <= observer.max_seen
  BY LocalFacts, ObserverFacts DEF EndOfPage, LocalStep
<1>2. Untried' = Untried
  BY <1>1 DEF Untried, Emitted
<1>3. \A e \in Untried : /\ AddressOf[e] < observer.address => Came(e)
                         /\ AddressOf[e] = observer.address => Waits(e)
  BY <1>1 DEF ObserverInv, Progress
<1>4. CASE observer.token # 0
  <2> DEFINE new == [observer EXCEPT !.at = "fetch"]
  <2>1. /\ new \in ObserverState /\ new.at = "fetch" /\ new.page = observer.page
        /\ new.max_seen = observer.max_seen /\ new.current_block = observer.current_block
        /\ new.address = observer.address /\ new.token = observer.token
    BY <1>1 DEF ObserverState, Places
  <2>2. observer' = new
    BY <1>4 DEF EndOfPage
  <2> HIDE DEF new
  <2>3. ASSUME NEW e \in Untried', AddressOf[e] = observer.address PROVE Waits(e)'
    <3>1. Before(observer.token, e)
      BY <1>1, <1>2, <1>3, <1>4, <2>3 DEF Waits
    <3>2. PICK token \in Tokens : token = observer.token
      BY <1>1 DEF ObserverState
    <3>3. Before(token, e)'
      BY <1>1, <3>1, <3>2 DEF Before
    <3> QED BY <1>4, <2>1, <2>2, <3>2, <3>3 DEF Waits
  <2>4. Progress'
    BY <1>1, <1>2, <1>3, <2>1, <2>2, <2>3 DEF Progress, Came
  <2> QED BY <1>1, <2>1, <2>2, <2>4, LocalFacts, LocalKeepsInv
<1>5. CASE observer.token = 0
  <2>1. observer' = NextAddress
    BY <1>5 DEF EndOfPage
  <2>2. ASSUME NEW e \in Untried', AddressOf[e] <= observer.address PROVE Came(e)'
    <3>1. AddressOf[e] \in Nat /\ observer.address \in Nat /\ e \in Untried
      BY <1>1, <1>2, <2>2, LocalFacts, AddressesAreNumbers DEF ObserverState
    <3>2. Came(e)
      BY <1>1, <1>3, <1>5, <2>2, <3>1 DEF Waits
    <3> QED BY <1>1, <3>2 DEF Came
  <2>3. Progress'
    BY <1>2, <2>1, <2>2, LocalFacts, NextKeepsProgress
  <2> QED BY <1>1, <2>1, <2>3, LocalFacts, NextAddressFacts, LocalKeepsInv
<1> QED BY <1>4, <1>5

LEMMA PostKeepsInv ==
    ASSUME ObserverInv, Post
    PROVE  ObserverInv'
<1>1. /\ observer.at = "post" /\ observer.page # {} /\ observer.page \in SUBSET Events
      /\ UNCHANGED <<head, block_of, faults, checkpoint, read_to, late>>
      /\ observer \in ObserverState /\ block_of \in [Events -> Nat]
      /\ observer.current_block <= observer.max_seen
  BY LocalFacts, ObserverFacts DEF Post, PostEnds, TryAgain, LocalStep, ObserverInv, PagesAreEvents
<1>2. CASE PostEnds
  <2> DEFINE e == First(observer.page)
             new == [observer EXCEPT !.at = "handle", !.page = observer.page \ {e}, !.attempts = 0]
  <2>1. observer' = new /\ tried' = tried \cup {e}
    BY <1>1, <1>2 DEF PostEnds, ObserverState
  <2>2. e \in observer.page /\ e \in Events
    BY <1>1, FirstIsFirst
  <2>3. 0 \in 0..MaxAttempts - 1
    BY ObserverAssumption DEF ObserverAssumption
  <2>4. /\ new \in ObserverState /\ new.at = "handle" /\ new.page = observer.page \ {e}
        /\ new.max_seen = observer.max_seen /\ new.current_block = observer.current_block
        /\ new.address = observer.address /\ new.token = observer.token
    BY <1>1, <2>3 DEF ObserverState, Places
  <2> HIDE DEF new, e
  <2>5. Progress'
    BY <1>1, <2>1, <2>4, PageShrinks
  <2> QED BY <1>1, <2>1, <2>2, <2>4, <2>5, LocalFacts, LocalKeepsInv
<1>3. CASE TryAgain
  <2> DEFINE new == [observer EXCEPT !.attempts = observer.attempts + 1]
  <2>1. observer' = new /\ tried' = tried /\ observer.attempts + 1 < MaxAttempts
    BY <1>1, <1>3 DEF TryAgain, ObserverState
  <2>2. observer.attempts + 1 \in 0..MaxAttempts - 1
    BY <1>1, <2>1, ObserverAssumption DEF ObserverState, ObserverAssumption
  <2>3. /\ new \in ObserverState /\ new.at = "post" /\ new.page = observer.page
        /\ new.max_seen = observer.max_seen /\ new.current_block = observer.current_block
        /\ new.address = observer.address /\ new.token = observer.token
    BY <1>1, <2>2 DEF ObserverState
  <2> HIDE DEF new
  <2>4. Progress'
    BY <1>1, <2>1, <2>3, PageShrinks
  <2> QED BY <1>1, <2>1, <2>3, <2>4, LocalFacts, LocalKeepsInv
<1> QED BY <1>2, <1>3 DEF Post

\* The checkpoint is written or not, a request stays unanswered, or the process ends.
LEMMA RestKeepsInv ==
    ASSUME ObserverInv, WriteCheckpoint \/ WriteFails \/ Unanswered \/ Crash
    PROVE  ObserverInv'
<1>1. PICK at \in {"sleep", "hung", "down"} : observer' = [observer EXCEPT !.at = at]
  BY DEF WriteCheckpoint, WriteFails, Unanswered, Crash
<1> DEFINE new == [observer EXCEPT !.at = at]
<1>2. /\ new \in ObserverState /\ new.at = at /\ new.current_block = observer.current_block
      /\ new.token = observer.token /\ new.page = observer.page
  BY LocalFacts, ObserverFacts DEF ObserverState, Places
<1>3. /\ observer.at # "down" /\ UNCHANGED <<head, block_of, tried, read_to, late>>
      /\ checkpoint' \in {checkpoint, NoCheckpoint, observer.current_block}
      /\ faults' \in 0..MaxFaults
  <2>1. CASE WriteCheckpoint
    <3>1. observer'.current_block = observer.current_block
      BY <1>1, <1>2
    <3> QED BY <2>1, <3>1, LocalFacts DEF WriteCheckpoint, LocalStep
  <2>2. CASE WriteFails
    BY <2>2, LocalFacts DEF WriteFails, LocalStep
  <2>3. CASE Unanswered \/ Crash
    BY <2>3, LocalFacts, ObserverAssumption DEF Unanswered, Crash, Fault, ObserverAssumption
  <2> QED BY <2>1, <2>2, <2>3
<1>4. observer' = new
  BY <1>1
<1> HIDE DEF new
<1>5. Progress'
  BY <1>2, <1>4, RestHasNoProgress
<1> QED BY <1>2, <1>3, <1>4, <1>5, LocalFacts, LocalKeepsInv

LEMMA AdvanceKeepsInv ==
    ASSUME ObserverInv, Advance
    PROVE  ObserverInv'
<1> DEFINE block == Capped(observer.max_seen + 1)
           new == [observer EXCEPT !.at = "write", !.current_block = block]
<1>1. /\ observer.at = "save" /\ observer' = new
      /\ late' = late \cup
            {e \in Emitted : block_of[e] \in (read_to[AddressOf[e]] + 1)..observer.max_seen}
      /\ UNCHANGED <<head, block_of, faults, checkpoint, tried, read_to>>
  BY DEF Advance, LocalStep
<1>2. /\ observer \in ObserverState /\ observer.max_seen \in Nat /\ MaxBlock \in Nat
      /\ observer.max_seen <= MaxBlock + 1
      /\ observer.current_block \in Nat /\ observer.current_block <= MaxBlock + 1
      /\ observer.current_block <= observer.max_seen
  BY <1>1, LocalFacts, ObserverFacts DEF Blocks
<1>3. block \in Blocks /\ observer.current_block <= block /\ block <= observer.max_seen + 1
  BY <1>2 DEF Capped, Blocks
<1> HIDE DEF block
<1>4. /\ new \in ObserverState /\ new.at = "write" /\ new.current_block = block
      /\ new.token = observer.token /\ new.page = observer.page
  BY <1>2, <1>3 DEF ObserverState, Places
<1> HIDE DEF new
<1>5. Emitted' = Emitted /\ Untried' \subseteq Untried
  BY <1>1 DEF Emitted, Untried
<1>6. ASSUME NEW e \in Untried' PROVE block_of[e] >= block
  <2>1. e \in Untried /\ e \in Emitted /\ e \in Events /\ e \notin late'
    BY <1>5, LocalFacts DEF Untried
  <2>2. block_of[e] > read_to[AddressOf[e]]
    BY <1>1, <2>1 DEF ObserverInv, Progress, Came
  <2>3. /\ block_of[e] \in Nat /\ read_to[AddressOf[e]] \in Nat /\ observer.max_seen \in Nat
        /\ block \in Nat
    <3>1. head \in Nat /\ AddressOf[e] \in DOMAIN Addresses
      BY <2>1, LocalFacts, ObserverFacts, AddressesAreNumbers
    <3> QED BY <1>2, <1>3, <2>1, <3>1, AssumedBlocks, LocalFacts, ObserverFacts
  <2>4. ~(block_of[e] <= observer.max_seen)
    BY <1>1, <2>1, <2>2, <2>3
  <2> QED BY <1>3, <2>3, <2>4
<1>7. ObserverTypeOK'
  <2>1. late' \subseteq Events
    BY <1>1, LocalFacts DEF ObserverTypeOK, Emitted
  <2> QED BY <1>1, <1>4, <2>1, LocalFacts DEF ObserverTypeOK, ObserverState, Blocks
<1>8. Forward'
  <2>1. block \in Nat /\ FromBlock \in Nat /\ (checkpoint # NoCheckpoint => checkpoint \in Nat)
    BY <1>3, AssumedBlocks, LocalFacts DEF ObserverTypeOK, Blocks
  <2> QED BY <1>1, <1>2, <1>3, <1>4, <2>1 DEF ObserverInv, Forward
<1>9. PagesAreEvents'
  BY <1>1, <1>4, <1>5 DEF ObserverInv, PagesAreEvents
<1>10. AfterStart'
  BY <1>1, <1>5 DEF ObserverInv, AfterStart
<1>11. PassedIsTried'
  <2>1. \A e \in Untried' : checkpoint # NoCheckpoint => block_of[e] >= checkpoint
    BY <1>5 DEF ObserverInv, PassedIsTried, Untried
  <2>2. Untried' = Emitted' \ (tried' \cup late')
    BY DEF Untried
  <2> QED BY <1>1, <1>4, <1>6, <2>1, <2>2 DEF PassedIsTried
<1>12. Progress'
  BY <1>1, <1>4, RestHasNoProgress
<1> QED BY <1>7, <1>8, <1>9, <1>10, <1>11, <1>12 DEF ObserverInv

LEMMA RestartKeepsInv ==
    ASSUME ObserverInv, Restart
    PROVE  ObserverInv'
<1>1. /\ observer' = Started
      /\ UNCHANGED <<head, block_of, faults, checkpoint, tried, read_to, late>>
  BY DEF Restart, LocalStep
<1>2. /\ StartBlock \in Blocks /\ FromBlock <= StartBlock
      /\ checkpoint # NoCheckpoint => StartBlock = checkpoint
      /\ checkpoint = NoCheckpoint => StartBlock = FromBlock
  BY AssumedBlocks DEF StartBlock, ObserverInv, ObserverTypeOK, Blocks, Forward
<1>3. /\ Started \in ObserverState /\ Started.at = "sleep" /\ Started.current_block = StartBlock
      /\ Started.token = 0 /\ Started.page = {}
  BY <1>2, StartedIsAState DEF Started
<1>4. Untried' = Untried /\ Emitted' = Emitted
  BY <1>1 DEF Untried, Emitted
<1>5. ObserverTypeOK'
  BY <1>1, <1>3 DEF ObserverInv, ObserverTypeOK, ObserverState, Blocks
<1>6. Forward'
  <2>1. StartBlock \in Nat
    BY <1>2, AssumedBlocks
  <2> QED BY <1>1, <1>2, <1>3, <2>1 DEF Forward
<1>7. PagesAreEvents' /\ AfterStart'
  BY <1>1, <1>3, <1>4 DEF ObserverInv, PagesAreEvents, AfterStart
<1>8. PassedIsTried'
  <2>1. \A e \in Untried : /\ checkpoint # NoCheckpoint => block_of[e] >= checkpoint
                           /\ block_of[e] >= FromBlock
    BY DEF ObserverInv, PassedIsTried, AfterStart, Untried
  <2>2. Untried' = Emitted' \ (tried' \cup late')
    BY DEF Untried
  <2> QED BY <1>1, <1>2, <1>3, <1>4, <2>1, <2>2 DEF PassedIsTried
<1>9. Progress'
  BY <1>1, <1>3, RestHasNoProgress
<1> QED BY <1>5, <1>6, <1>7, <1>8, <1>9 DEF ObserverInv

LEMMA NewBlockKeepsInv ==
    ASSUME ObserverInv, NEW emitted \in SUBSET (Events \ Emitted), NewBlock(emitted)
    PROVE  ObserverInv'
<1>1. /\ head < MaxBlock /\ head' = head + 1 /\ head \in Nat /\ MaxBlock \in Nat
      /\ block_of' = [e \in Events |-> IF e \in emitted THEN head + 1 ELSE block_of[e]]
      /\ late' = IF head + 1 < observer.current_block THEN late \cup emitted ELSE late
      /\ UNCHANGED <<observer, checkpoint, tried, read_to, faults>>
  BY LocalFacts, ObserverFacts DEF NewBlock
<1>2. /\ block_of \in [Events -> Nat] /\ \A e \in Events : block_of[e] <= head
      /\ observer.current_block \in Nat /\ late \subseteq Events
      /\ read_to \in [DOMAIN Addresses -> 0..head]
  BY LocalFacts, ObserverFacts DEF ObserverTypeOK
<1>3. Emitted' = Emitted \cup emitted
  BY <1>1 DEF Emitted
<1>4. \A e \in Events : block_of'[e] = IF e \in emitted THEN head + 1 ELSE block_of[e]
  BY <1>1
<1>5. ASSUME NEW e \in Untried' PROVE (e \in Untried /\ e \notin emitted)
                                    \/ (e \in emitted /\ ~(head + 1 < observer.current_block))
  BY <1>1, <1>3 DEF Untried
<1>6. ObserverTypeOK'
  <2>1. block_of' \in [Events -> 0..head']
    BY <1>1, <1>2
  <2>2. late' \subseteq Events /\ head' \in 0..MaxBlock
    BY <1>1, <1>2
  <2>3. read_to' \in [DOMAIN Addresses -> 0..head']
    BY <1>1, <1>2
  <2> QED BY <1>1, <2>1, <2>2, <2>3, LocalFacts DEF ObserverTypeOK
<1>7. Forward' /\ PagesAreEvents'
  BY <1>1, <1>3 DEF ObserverInv, Forward, PagesAreEvents
<1>8. \A e \in Untried' : e \in Events
  BY <1>3 DEF Untried, Emitted
<1>9. AfterStart'
  <2>1. FromBlock <= observer.current_block /\ FromBlock \in Nat
    BY AssumedBlocks DEF ObserverInv, Forward
  <2>2. ASSUME NEW e \in Untried' PROVE block_of'[e] >= FromBlock
    <3>1. CASE e \in Untried /\ e \notin emitted
      BY <1>4, <1>8, <3>1 DEF ObserverInv, AfterStart
    <3>2. CASE e \in emitted /\ ~(head + 1 < observer.current_block)
      BY <1>1, <1>2, <1>4, <1>8, <2>1, <3>2
    <3> QED BY <1>5, <3>1, <3>2
  <2> QED BY <2>2 DEF AfterStart
<1>10. PassedIsTried'
  <2>1. checkpoint # NoCheckpoint => checkpoint \in Nat /\ checkpoint <= observer.current_block
    BY AssumedBlocks DEF ObserverInv, ObserverTypeOK, Forward, Blocks
  <2>2. ASSUME NEW e \in Untried'
        PROVE  /\ observer.at # "down" => block_of'[e] >= observer.current_block
               /\ checkpoint # NoCheckpoint => block_of'[e] >= checkpoint
    <3>1. CASE e \in Untried /\ e \notin emitted
      BY <1>4, <1>8, <3>1 DEF ObserverInv, PassedIsTried, Untried
    <3>2. CASE e \in emitted /\ ~(head + 1 < observer.current_block)
      BY <1>1, <1>2, <1>4, <1>8, <2>1, <3>2
    <3> QED BY <1>5, <3>1, <3>2
  <2>3. Untried' = Emitted' \ (tried' \cup late')
    BY DEF Untried
  <2> QED BY <1>1, <2>2, <2>3 DEF PassedIsTried
<1>11. Progress'
  <2>1. ASSUME NEW e \in Untried', e \in emitted PROVE Came(e)'
    <3>1. read_to[AddressOf[e]] <= head /\ read_to[AddressOf[e]] \in Nat
      BY <1>1, <1>2, <1>8, AddressesAreNumbers
    <3> QED BY <1>1, <1>4, <1>8, <2>1, <3>1 DEF Came
  <2>2. ASSUME NEW e \in Untried', e \in emitted, observer.at \in {"fetch", "handle", "post"}
        PROVE  Waits(e)'
    <3>1. CASE observer.token = 0
      BY <1>1, <2>1, <2>2, <3>1 DEF Waits
    <3>2. CASE observer.token # 0
      <4>1. PICK token \in Emitted : token = observer.token
        BY <3>2, LocalFacts
      <4>2. token \in Events /\ token \notin emitted
        BY <4>1 DEF Emitted
      <4>3. block_of'[token] < block_of'[e]
        BY <1>1, <1>2, <1>4, <1>8, <2>2, <4>2
      <4>4. Before(token, e)'
        BY <4>3 DEF Before
      <4> QED BY <1>1, <3>2, <4>1, <4>4 DEF Waits
    <3> QED BY <3>1, <3>2
  <2>3. ASSUME NEW e \in Untried, e \notin emitted, e \in Events
        PROVE  /\ Came(e) => Came(e)'
               /\ observer.at \in {"fetch", "handle", "post"} /\ Waits(e) => Waits(e)'
    <3>1. Came(e) => Came(e)'
      BY <1>1, <1>4, <2>3 DEF Came
    <3>2. ASSUME observer.token # 0, Before(observer.token, e) PROVE Before(observer.token, e)'
      <4>1. PICK token \in Emitted : token = observer.token
        BY <3>2, LocalFacts
      <4>2. token \in Events /\ token \notin emitted
        BY <4>1 DEF Emitted
      <4>3. Before(token, e)'
        BY <1>4, <2>3, <3>2, <4>1, <4>2 DEF Before
      <4> QED BY <1>1, <4>1, <4>3
    <3>3. ASSUME Waits(e) PROVE Waits(e)'
      <4>1. CASE observer.at \in {"handle", "post"} /\ e \in observer.page
        BY <1>1, <4>1 DEF Waits
      <4>2. CASE observer.token # 0 /\ Before(observer.token, e)
        BY <1>1, <3>2, <4>2 DEF Waits
      <4>3. CASE observer.token = 0 /\ (observer.at = "fetch" \/ Came(e))
        BY <1>1, <3>1, <4>3 DEF Waits
      <4> QED BY <3>3, <4>1, <4>2, <4>3 DEF Waits
    <3> QED BY <3>1, <3>3
  <2>4. ASSUME NEW e \in Untried'
        PROVE  /\ observer'.at = "save" => Came(e)'
               /\ observer'.at \in {"fetch", "handle", "post"} =>
                     /\ AddressOf[e] < observer'.address => Came(e)'
                     /\ AddressOf[e] = observer'.address => Waits(e)'
    <3>1. CASE e \in emitted
      BY <1>1, <2>1, <2>2, <2>4, <3>1
    <3>2. CASE e \notin emitted
      <4>1. e \in Untried /\ e \in Events
        BY <1>5, <1>8, <2>4, <3>2
      <4> QED BY <1>1, <2>3, <3>2, <4>1 DEF ObserverInv, Progress
    <3> QED BY <3>1, <3>2
  <2> QED BY <2>4 DEF Progress
<1> QED BY <1>6, <1>7, <1>9, <1>10, <1>11 DEF ObserverInv

-----------------------------------------------------------------------------
LEMMA ObserverStepKeepsInv ==
    ASSUME ObserverInv, [ObserverNext]_observerVars
    PROVE  ObserverInv'
<1>1. CASE UNCHANGED observerVars
  BY <1>1 DEF observerVars, ObserverInv, ObserverTypeOK, Forward, PagesAreEvents, AfterStart,
              PassedIsTried, Progress, Came, Waits, Before, Untried, Emitted
<1>2. CASE Work
  BY <1>2, PollKeepsInv, FetchPageKeepsInv, HandleEventKeepsInv, EndOfPageKeepsInv,
     AdvanceKeepsInv, RestKeepsInv, RestartKeepsInv DEF Work
<1> QED BY <1>1, <1>2, NewBlockKeepsInv, PostKeepsInv, FetchFailsKeepsInv, RestKeepsInv
        DEF ObserverNext

LEMMA ObserverAlwaysInv == ObserverSpec => []ObserverInv
BY ObserverInitInv, ObserverStepKeepsInv, PTL DEF ObserverSpec

\* The types of Observer hold in every reachable state; in particular the block to read and
\* the checkpoint stay within the instance.
THEOREM ObserverTypeCorrect == ObserverSpec => []ObserverTypeOK
<1>1. ObserverInv => ObserverTypeOK
  BY DEF ObserverInv
<1> QED BY <1>1, ObserverAlwaysInv, PTL

\* indexer.rs, poll_events: whatever blocks, failed requests, lost writes and crashes come
\* between its steps, the observer leaves no event behind that it could have read and that
\* the gateway was not told of.
THEOREM PassedEventsAreTried == ObserverSpec => []PassedIsTried
<1>1. ObserverInv => PassedIsTried
  BY DEF ObserverInv
<1> QED BY <1>1, ObserverAlwaysInv, PTL
=============================================================================
