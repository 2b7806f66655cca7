----------------------- MODULE ReferenceSolverProofs -----------------------
(***************************************************************************)
(* Proofs about ReferenceSolver, for any finite set of orders, any amounts,*)
(* prices and inventory, queues, pages and channels of any length, and any *)
(* number of breaks: no order the feed announces is forgotten, and a bid   *)
(* pays every order of its batch.                                          *)
(***************************************************************************)
EXTENDS ReferenceSolver, SumTheorems

StoredBefore == \A i \in announced : rows[i].status # "NONE"

\* The order has reached the solver, or nothing but a break or a lag keeps it from it.
OnTheWay(i) ==
    \/ i \in received \cup replay
    \/ NewIntent(i) \in Range(channel) \cup Range(wire)

NoneDropped == (link = "live" /\ ~gap) => \A i \in announced : Open(i) => OnTheWay(i)

\* What was read of a list that no order left is still on it.
ReadSoFar ==
    (work.at = "order" /\ ~work.moved) => Range(work.ids) \subseteq Listed(work.batch)

\* Then as many orders were read as there are on the list, so that, unless one was read
\* twice, they are all of it but those that join later.
AllRead ==
    (work.at \in {"fetch", "fill", "submit"} /\ ~work.moved
       /\ Cardinality(Range(work.ids)) = Len(work.ids))
        => Listed(work.batch) \ work.joined \subseteq Range(work.ids)

PaidEnough ==
    work.at = "submit" => /\ DOMAIN work.pays = Range(work.ids)
                          /\ Cardinality(Range(work.ids)) = Len(work.ids)
                          /\ \A i \in DOMAIN work.pays : work.pays[i] >= MinOutput[i]

SolverInv ==
    /\ SolverTypeOK
    /\ StoredBefore
    /\ NoneDropped
    /\ ReadSoFar
    /\ AllRead
    /\ PaidEnough

-----------------------------------------------------------------------------
(* Lemmas about lists of orders. *)

InSequence(list, S) ==
    /\ list \in [1..Cardinality(S) -> S]
    /\ \A k \in DOMAIN list : \A j \in 1..k - 1 : list[j] < list[k]

LEMMA LeastNumber ==
    ASSUME NEW S \in SUBSET Nat, S # {}
    PROVE  \E m \in S : \A n \in S : m <= n
<1>1. PICK m \in S : \A n \in S : <<n, m>> \notin OpToRel(<, Nat)
    BY NatLessThanWellFounded, WFMin
<1>2. \A n \in S : ~ (n < m)
    BY <1>1 DEF OpToRel
<1>3. QED
    BY <1>2

\* Every set of orders can be listed in the order of their sequence.
LEMMA SequenceExists ==
    ASSUME NEW S \in SUBSET Intents
    PROVE  \E list : InSequence(list, S)
<1> DEFINE Bad == {T \in SUBSET Intents : ~ \E list : InSequence(list, T)}
<1>1. IsFiniteSet(Intents) /\ Intents \subseteq Nat
    BY FeedAssumption DEF FeedAssumption
<1>2. ASSUME NEW T \in SUBSET Intents, T = {}
      PROVE  \E list : InSequence(list, T)
    <2>1. Cardinality(T) = 0
        BY <1>2, FS_EmptySet
    <2>2. [k \in 1..0 |-> 0] \in [1..0 -> T] /\ DOMAIN [k \in 1..0 |-> 0] = {}
        OBVIOUS
    <2>3. InSequence([k \in 1..0 |-> 0], T)
        BY <2>1, <2>2 DEF InSequence
    <2>4. QED
        BY <2>3
<1>3. ASSUME NEW T \in SUBSET Intents, NEW m \in T, \A n \in T : m <= n,
             NEW rest, InSequence(rest, T \ {m})
      PROVE  \E list : InSequence(list, T)
    <2>1. PICK c \in Nat : c = Cardinality(T \ {m})
        BY <1>1, FS_CardinalityType, FS_Subset
    <2>2. Cardinality(T) = c + 1
        <3>1. IsFiniteSet(T)
            BY <1>1, FS_Subset
        <3>2. Cardinality(T) \in Nat /\ Cardinality(T \ {m}) = Cardinality(T) - 1
            BY <3>1, FS_CardinalityType, FS_RemoveElement
        <3>3. QED
            BY <2>1, <3>2
    <2> DEFINE list == [k \in 1..c + 1 |-> IF k = 1 THEN m ELSE rest[k - 1]]
    <2>3. /\ rest \in [1..c -> T \ {m}]
          /\ \A k \in 1..c : \A j \in 1..k - 1 : rest[j] < rest[k]
        BY <1>3, <2>1 DEF InSequence
    <2>4. \A k \in 1..c + 1 : k # 1 => k - 1 \in 1..c /\ rest[k - 1] \in T \ {m}
        <3>1. \A k \in 1..c + 1 : k # 1 => k - 1 \in 1..c
            BY <2>1
        <3>2. \A k \in 1..c : rest[k] \in T \ {m}
            BY <2>3
        <3>3. QED
            BY <3>1, <3>2
    <2>5. list \in [1..c + 1 -> T]
        BY <2>4
    <2>6. ASSUME NEW k \in 1..c + 1, NEW j \in 1..k - 1
          PROVE  list[j] < list[k]
        <3>1. /\ k # 1 /\ j \in 1..c + 1 /\ list[k] = rest[k - 1]
              /\ list[j] = IF j = 1 THEN m ELSE rest[j - 1]
            BY <2>1
        <3>2. rest[k - 1] \in T /\ rest[k - 1] # m
            BY <2>4, <3>1
        <3>3. m \in Nat /\ rest[k - 1] \in Nat /\ m <= rest[k - 1]
            BY <1>1, <1>3, <3>2
        <3>4. CASE j = 1
            BY <3>1, <3>2, <3>3, <3>4
        <3>5. CASE j # 1
            <4>1. k - 1 \in 1..c /\ j - 1 \in 1..(k - 1) - 1
                BY <2>1, <3>1, <3>5
            <4>2. rest[j - 1] < rest[k - 1]
                BY <2>3, <4>1
            <4>3. QED
                BY <3>1, <3>5, <4>2
        <3>6. QED
            BY <3>4, <3>5
    <2>7. DOMAIN list = 1..c + 1
        OBVIOUS
    <2> HIDE DEF list
    <2>8. InSequence(list, T)
        BY <2>2, <2>5, <2>6, <2>7 DEF InSequence
    <2>9. QED
        BY <2>8
<1>4. Bad = {}
    <2>1. SUFFICES ASSUME Bad # {} PROVE FALSE
        OBVIOUS
    <2>2. Bad \in SUBSET SUBSET Intents
        OBVIOUS
    <2>3. \E T \in Bad : \A U \in Bad : U \subseteq T => U = T
        <3> HIDE DEF Bad
        <3>1. IsFiniteSet(Intents)
            BY <1>1
        <3>2. QED
            BY <2>1, <2>2, <3>1, LeastSubset
    <2>4. PICK T \in Bad : \A U \in Bad : U \subseteq T => U = T
        BY <2>3
    <2>5. T \in SUBSET Intents /\ ~ \E list : InSequence(list, T)
        OBVIOUS
    <2>6. T # {}
        BY <1>2, <2>5
    <2>7. PICK m \in T : \A n \in T : m <= n
        BY <1>1, <2>5, <2>6, LeastNumber
    <2>8. T \ {m} \notin Bad /\ T \ {m} \in SUBSET Intents
        BY <2>4, <2>5
    <2>9. \E rest : InSequence(rest, T \ {m})
        BY <2>8
    <2>10. QED
        BY <1>3, <2>5, <2>7, <2>9
<1>5. QED
    BY <1>4

\* The list of a set of orders has every one of them.
LEMMA SequenceOfSet ==
    ASSUME NEW S \in SUBSET Intents
    PROVE  /\ SequenceOf(S) \in Seq(S) /\ Len(SequenceOf(S)) \in Nat
           /\ DOMAIN SequenceOf(S) = 1..Len(SequenceOf(S))
           /\ Len(SequenceOf(S)) = Cardinality(S)
           /\ Range(SequenceOf(S)) = S
<1> DEFINE list == SequenceOf(S)
<1>1. IsFiniteSet(Intents) /\ Intents \subseteq Nat
    BY FeedAssumption DEF FeedAssumption
<1>2. InSequence(list, S)
    <2>1. SequenceOf(S) = CHOOSE l : InSequence(l, S)
        BY DEF SequenceOf, InSequence
    <2>2. QED
        BY <2>1, SequenceExists
<1>3. PICK c \in Nat : c = Cardinality(S)
    BY <1>1, FS_CardinalityType, FS_Subset
<1> HIDE DEF list
<1>4. list \in [1..c -> S] /\ \A k \in 1..c : \A j \in 1..k - 1 : list[j] < list[k]
    BY <1>2, <1>3 DEF InSequence
<1>5. list \in Injection(1..c, S)
    <2>1. ASSUME NEW j \in 1..c, NEW k \in 1..c, list[j] = list[k], j # k
          PROVE  FALSE
        <3>1. list[j] \in Nat /\ list[k] \in Nat
            BY <1>1, <1>4
        <3>2. j \in 1..k - 1 \/ k \in 1..j - 1
            BY <1>3, <2>1
        <3>3. QED
            BY <1>4, <2>1, <3>1, <3>2
    <2>2. QED
        BY <1>4, <2>1 DEF Injection, IsInjective
<1>6. list \in Surjection(1..c, S)
    <2>1. IsFiniteSet(S)
        BY <1>1, FS_Subset
    <2>2. Cardinality(1..c) = c
        BY FS_Interval
    <2>3. QED
        BY <1>3, <1>5, <2>1, <2>2, FS_Injection
<1>7. list \in Seq(S) /\ Len(list) = c /\ DOMAIN list = 1..c
    BY <1>4
<1>8. Range(list) = S
    BY <1>4, <1>6, <1>7 DEF Surjection, Range
<1>9. QED
    BY <1>3, <1>7, <1>8 DEF list

\* What is in a queue after an entry was added to or taken from it.
LEMMA QueueAdds ==
    ASSUME NEW T, NEW q \in Seq(T), NEW x \in T
    PROVE  /\ Append(q, x) \in Seq(T) /\ Len(q) \in Nat /\ Len(Append(q, x)) = Len(q) + 1
           /\ Range(Append(q, x)) = Range(q) \cup {x}
<1>1. /\ Append(q, x) \in Seq(T) /\ Len(q) \in Nat /\ Len(Append(q, x)) = Len(q) + 1
      /\ DOMAIN q = 1..Len(q) /\ DOMAIN Append(q, x) = 1..Len(q) + 1
      /\ \A k \in 1..Len(q) : Append(q, x)[k] = q[k]
      /\ Append(q, x)[Len(q) + 1] = x
    OBVIOUS
<1>2. \A k \in 1..Len(q) + 1 : k \in 1..Len(q) \/ k = Len(q) + 1
    BY <1>1
<1>3. Range(Append(q, x)) \subseteq Range(q) \cup {x}
    BY <1>1, <1>2 DEF Range
<1>4. \A k \in 1..Len(q) : k \in 1..Len(q) + 1
    BY <1>1
<1>5. Range(q) \cup {x} \subseteq Range(Append(q, x))
    <2>1. Len(q) + 1 \in 1..Len(q) + 1
        BY <1>1
    <2>2. x \in Range(Append(q, x))
        BY <1>1, <2>1 DEF Range
    <2>3. Range(q) \subseteq Range(Append(q, x))
        BY <1>1, <1>4 DEF Range
    <2>4. QED
        BY <2>2, <2>3
<1>6. QED
    BY <1>1, <1>3, <1>5

LEMMA QueueTakes ==
    ASSUME NEW T, NEW q \in Seq(T), q # <<>>
    PROVE  /\ Head(q) \in T /\ Head(q) \in Range(q) /\ Tail(q) \in Seq(T)
           /\ Len(q) \in Nat /\ Len(q) >= 1 /\ Len(Tail(q)) = Len(q) - 1
           /\ Range(q) = Range(Tail(q)) \cup {Head(q)}
<1>1. /\ Head(q) \in T /\ Head(q) = q[1] /\ Tail(q) \in Seq(T)
      /\ Len(q) \in Nat /\ Len(q) >= 1 /\ Len(Tail(q)) = Len(q) - 1
      /\ DOMAIN q = 1..Len(q) /\ DOMAIN Tail(q) = 1..Len(q) - 1
      /\ \A k \in 1..Len(q) - 1 : Tail(q)[k] = q[k + 1]
    OBVIOUS
<1>2. 1 \in 1..Len(q)
    BY <1>1
<1>3. \A k \in 1..Len(q) : k = 1 \/ (k - 1 \in 1..Len(q) - 1 /\ (k - 1) + 1 = k)
    BY <1>1
<1>4. Range(q) \subseteq Range(Tail(q)) \cup {Head(q)}
    <2>1. ASSUME NEW k \in 1..Len(q)
          PROVE  q[k] \in Range(Tail(q)) \cup {Head(q)}
        <3>1. CASE k = 1
            BY <1>1, <3>1
        <3>2. CASE k # 1
            <4>1. k - 1 \in DOMAIN Tail(q) /\ Tail(q)[k - 1] = q[k]
                BY <1>1, <1>3, <3>2
            <4>2. QED
                BY <4>1 DEF Range
        <3>3. QED
            BY <3>1, <3>2
    <2>2. QED
        BY <1>1, <2>1 DEF Range
<1>5. Range(Tail(q)) \cup {Head(q)} \subseteq Range(q)
    <2>1. \A k \in 1..Len(q) - 1 : k + 1 \in 1..Len(q)
        BY <1>1
    <2>2. Range(Tail(q)) \subseteq Range(q)
        BY <1>1, <2>1 DEF Range
    <2>3. Head(q) \in Range(q)
        BY <1>1, <1>2 DEF Range
    <2>4. QED
        BY <2>2, <2>3
<1>6. QED
    BY <1>1, <1>2, <1>4, <1>5

-----------------------------------------------------------------------------
(* Types. *)

Row == [status : {"NONE", "PENDING", "AUCTION", "OVER"}, batch : BatchIds]

Closing == [type : {"batch_closed"}, batch : BatchIds, count : {0, 1}]

GatewayOK ==
    /\ window \in BatchIds
    /\ rows \in [Intents -> Row]
    /\ announced \subseteq Intents

LinkOK ==
    /\ channel \in Seq(Message) /\ Len(channel) <= Capacity
    /\ link \in {"down", "open", "keyed", "live"}
    /\ replay \subseteq Intents
    /\ gap \in BOOLEAN
    /\ wire \in Seq(Message) /\ Len(wire) <= WireSize

QueuesOK ==
    /\ intent_rx \in Seq(Intents) /\ Len(intent_rx) <= QueueSize
    /\ batch_rx \in Seq(BatchIds \X {0, 1}) /\ Len(batch_rx) <= QueueSize
    /\ received \subseteq Intents

Job == [at : {"idle", "order", "fetch", "fill", "submit", "settle", "hung"},
        batch : BatchIds, ids : Seq(Intents), pays : Plans, moved : BOOLEAN,
        joined : SUBSET Intents]

MainOK == pending_intents \subseteq Intents /\ work \in Job

LEMMA TypeParts ==
    SolverTypeOK <=> GatewayOK /\ LinkOK /\ QueuesOK /\ breaks \in 0..MaxBreaks /\ MainOK
    BY DEF SolverTypeOK, FeedTypeOK, GatewayOK, LinkOK, QueuesOK, MainOK, Row, Job

LEMMA TypesNext ==
    ASSUME GatewayOK', LinkOK', QueuesOK', breaks' \in 0..MaxBreaks, MainOK'
    PROVE  SolverTypeOK'
    BY DEF SolverTypeOK, FeedTypeOK, GatewayOK, LinkOK, QueuesOK, MainOK, Row, Job

LEMMA EmptyQueue ==
    /\ <<>> \in Seq(Message) /\ <<>> \in Seq(Intents) /\ <<>> \in Seq(BatchIds \X {0, 1})
    /\ Len(<<>>) = 0 /\ Range(<<>>) = {}
<1>1. Len(<<>>) = 0 /\ DOMAIN <<>> = 1..0
    OBVIOUS
<1>2. 1..0 = {}
    OBVIOUS
<1>3. Range(<<>>) = {}
    BY <1>1, <1>2 DEF Range
<1>4. QED
    BY <1>1, <1>3

LEMMA FeedConstants ==
    /\ Capacity \in Nat /\ Capacity >= 1 /\ WireSize \in Nat /\ WireSize >= 1 /\ QueueSize \in Nat /\ QueueSize >= 1
    /\ LastBatch \in Nat /\ MaxBreaks \in Nat
    /\ MaxU128 \in Nat /\ PriceUnit \in Nat /\ PriceUnit >= 1
    /\ PageLimit \in Nat /\ PageLimit >= 1
    /\ BatchIds \subseteq Nat /\ 0 \in BatchIds
    BY FeedAssumption, SolverAssumption DEF FeedAssumption, SolverAssumption, BatchIds

LEMMA Messages ==
    /\ \A i \in Intents : NewIntent(i) \in Message /\ NewIntent(i).type = "new_intent"
    /\ Closing \subseteq Message
    /\ \A m \in Message : m.type = "new_intent" =>
                            m.intent \in Intents /\ m = NewIntent(m.intent)
    /\ \A m \in Message : m.type = "batch_closed" => m.batch \in BatchIds /\ m.count \in {0, 1}
    BY DEF Message, NewIntent, Closing

LEMMA BreakType ==
    ASSUME breaks \in 0..MaxBreaks, Break
    PROVE  breaks' \in 0..MaxBreaks
    BY FeedConstants DEF Break

\* A broadcast reaches every connection that is up, and pushes out the oldest one only of a
\* receiver that is thereby known to lag.
LEMMA BroadcastKeeps ==
    ASSUME LinkOK, NEW m \in Message, Broadcast(m)
    PROVE  /\ LinkOK' /\ UNCHANGED <<link, replay, wire>>
           /\ Range(channel') \subseteq Range(channel) \cup {m}
           /\ gap => gap'
           /\ link # "down" /\ ~gap' => Range(channel') = Range(channel) \cup {m}
<1>1. /\ channel \in Seq(Message) /\ Len(channel) <= Capacity /\ gap \in BOOLEAN
      /\ UNCHANGED <<link, replay, wire>>
      /\ gap' = (gap \/ (link # "down" /\ Len(channel) = Capacity))
      /\ channel' = IF link = "down" THEN channel
                    ELSE IF Len(channel) = Capacity THEN Append(Tail(channel), m)
                    ELSE Append(channel, m)
    BY DEF LinkOK, Broadcast
<1>2. PICK q \in Seq(Message) : q = channel
    BY <1>1
<1>3. gap' \in BOOLEAN /\ (gap => gap')
    BY <1>1, Zenon
<1>4. ASSUME channel' \in Seq(Message), Len(channel') <= Capacity
      PROVE  LinkOK' /\ UNCHANGED <<link, replay, wire>>
    BY <1>1, <1>3, <1>4 DEF LinkOK
<1>5. CASE link = "down"
    <2>1. channel' = channel
        BY <1>1, <1>5
    <2>2. LinkOK' /\ UNCHANGED <<link, replay, wire>>
        BY <1>1, <1>4, <2>1
    <2>3. QED
        BY <1>3, <1>5, <2>1, <2>2
<1>6. CASE link # "down" /\ Len(channel) = Capacity
    <2>1. q # <<>> /\ channel' = Append(Tail(q), m)
        BY <1>1, <1>2, <1>6, FeedConstants
    <2>2. /\ Tail(q) \in Seq(Message) /\ Len(Tail(q)) = Len(q) - 1 /\ Len(q) \in Nat
          /\ Range(Tail(q)) \subseteq Range(q)
        BY <2>1, QueueTakes
    <2>3. /\ channel' \in Seq(Message) /\ Len(channel') = Len(q)
          /\ Range(channel') = Range(Tail(q)) \cup {m}
        <3>1. PICK r \in Seq(Message) : r = Tail(q)
            BY <2>2
        <3>2. Range(Append(r, m)) = Range(r) \cup {m} /\ Len(Append(r, m)) = Len(r) + 1
              /\ Append(r, m) \in Seq(Message)
            BY QueueAdds
        <3>3. QED
            BY <2>1, <2>2, <3>1, <3>2
    <2>4. gap'
        BY <1>1, <1>6
    <2>5. QED
        BY <1>1, <1>2, <1>3, <1>4, <2>2, <2>3, <2>4
<1>7. CASE link # "down" /\ Len(channel) # Capacity
    <2>1. channel' = Append(q, m)
        BY <1>1, <1>2, <1>7
    <2>2. /\ channel' \in Seq(Message) /\ Len(channel') = Len(q) + 1 /\ Len(q) \in Nat
          /\ Range(channel') = Range(q) \cup {m}
        BY <2>1, QueueAdds
    <2>3. Len(channel') <= Capacity
        BY <1>1, <1>2, <1>7, <2>2, FeedConstants
    <2>4. QED
        BY <1>2, <1>3, <1>4, <2>2, <2>3
<1>8. QED
    BY <1>5, <1>6, <1>7

LEMMA GatewayTypes ==
    ASSUME GatewayOK, LinkOK, breaks \in 0..MaxBreaks, GatewayStep
    PROVE  /\ GatewayOK' /\ LinkOK' /\ breaks' \in 0..MaxBreaks
           /\ UNCHANGED <<queueVars, link, replay, wire>>
           /\ gap => gap'
<1>1. /\ window \in BatchIds /\ rows \in [Intents -> Row] /\ announced \subseteq Intents
      /\ window \in Nat
    BY FeedConstants DEF GatewayOK
<1>2. UNCHANGED queueVars
    BY DEF GatewayStep
\* A step that broadcasts nothing.
<1>3. ASSUME UNCHANGED <<window, linkVars>>, rows' \in [Intents -> Row],
             announced' \subseteq Intents, breaks' = breaks \/ Break
      PROVE  /\ GatewayOK' /\ LinkOK' /\ breaks' \in 0..MaxBreaks
             /\ UNCHANGED <<link, replay, wire>> /\ (gap => gap')
    BY <1>1, <1>3, BreakType DEF GatewayOK, LinkOK, linkVars
<1>4. ASSUME NEW status \in {"PENDING", "OVER"}, NEW b \in BatchIds
      PROVE  [status |-> status, batch |-> b] \in Row
    BY DEF Row
<1>5. ASSUME NEW i \in Intents, NEW b \in BatchIds, StoreIntent(i, b) \/ Reconcile(i, b)
      PROVE  /\ GatewayOK' /\ LinkOK' /\ breaks' \in 0..MaxBreaks
             /\ UNCHANGED <<link, replay, wire>> /\ (gap => gap')
    <2>1. rows' \in [Intents -> Row] /\ announced' \subseteq Intents
        BY <1>1, <1>4, <1>5 DEF StoreIntent, Reconcile
    <2>2. QED
        BY <1>3, <1>5, <2>1 DEF StoreIntent, Reconcile, linkVars
<1>6. ASSUME NEW i \in Intents, AnnounceIntent(i)
      PROVE  /\ GatewayOK' /\ LinkOK' /\ breaks' \in 0..MaxBreaks
             /\ UNCHANGED <<link, replay, wire>> /\ (gap => gap')
    <2>1. LinkOK' /\ UNCHANGED <<link, replay, wire>> /\ (gap => gap')
        BY <1>6, Messages, BroadcastKeeps DEF AnnounceIntent
    <2>2. QED
        BY <1>1, <1>6, <2>1 DEF AnnounceIntent, GatewayOK
<1>7. ASSUME NEW i \in Intents, EndIntent(i)
      PROVE  /\ GatewayOK' /\ LinkOK' /\ breaks' \in 0..MaxBreaks
             /\ UNCHANGED <<link, replay, wire>> /\ (gap => gap')
    <2>1. rows' \in [Intents -> Row]
        BY <1>1, <1>4, <1>7, FeedConstants DEF EndIntent
    <2>2. QED
        BY <1>1, <1>3, <1>7, <2>1 DEF EndIntent
<1>8. ASSUME NEW count \in {0, 1}, CloseBatch(count)
      PROVE  /\ GatewayOK' /\ LinkOK' /\ breaks' \in 0..MaxBreaks
             /\ UNCHANGED <<link, replay, wire>> /\ (gap => gap')
    <2>1. PICK m \in Closing : m = [type |-> "batch_closed", batch |-> window, count |-> count]
        BY <1>1 DEF Closing
    <2>2. Broadcast(m)
        BY <1>8, <2>1 DEF CloseBatch
    <2>3. LinkOK' /\ UNCHANGED <<link, replay, wire>> /\ (gap => gap')
        BY <2>2, Messages, BroadcastKeeps
    <2>4. window' \in BatchIds
        BY <1>1, <1>8, FeedConstants DEF CloseBatch, BatchIds
    <2>5. rows' \in [Intents -> Row]
        <3>1. ASSUME NEW i \in Intents
              PROVE  [rows[i] EXCEPT !.status = "AUCTION"] \in Row /\ rows[i] \in Row
            BY <1>1 DEF Row
        <3>2. QED
            BY <1>8, <3>1 DEF CloseBatch
    <2>6. QED
        BY <1>1, <1>8, <2>3, <2>4, <2>5 DEF CloseBatch, GatewayOK
<1>9. ASSUME NEW b \in BatchIds, NEW requeue \in BatchIds, RequeueBatch(b, requeue)
      PROVE  /\ GatewayOK' /\ LinkOK' /\ breaks' \in 0..MaxBreaks
             /\ UNCHANGED <<link, replay, wire>> /\ (gap => gap')
    <2>1. rows' \in [Intents -> Row]
        BY <1>1, <1>4, <1>9 DEF RequeueBatch
    <2>2. QED
        BY <1>1, <1>3, <1>9, <2>1 DEF RequeueBatch
<1>10. QED
    BY <1>2, <1>5, <1>6, <1>7, <1>8, <1>9 DEF GatewayStep

\* What the two ends of the connection do.
LEMMA FeedTypes ==
    ASSUME GatewayOK, LinkOK, QueuesOK, FeedWork
    PROVE  LinkOK' /\ QueuesOK' /\ UNCHANGED <<gatewayVars, breaks>>
<1>1. /\ channel \in Seq(Message) /\ Len(channel) <= Capacity
      /\ link \in {"down", "open", "keyed", "live"} /\ replay \subseteq Intents
      /\ gap \in BOOLEAN /\ wire \in Seq(Message) /\ Len(wire) <= WireSize
      /\ intent_rx \in Seq(Intents) /\ Len(intent_rx) <= QueueSize
      /\ batch_rx \in Seq(BatchIds \X {0, 1}) /\ Len(batch_rx) <= QueueSize
      /\ received \subseteq Intents
    BY DEF LinkOK, QueuesOK
<1>2. Len(wire) < WireSize => \A m \in Message : /\ Append(wire, m) \in Seq(Message)
                                                  /\ Len(Append(wire, m)) <= WireSize
    BY <1>1, QueueAdds, FeedConstants
<1>3. wire # <<>> => /\ Head(wire) \in Message /\ Tail(wire) \in Seq(Message)
                      /\ Len(Tail(wire)) <= WireSize
    <2>1. ASSUME wire # <<>>
          PROVE  /\ Head(wire) \in Message /\ Tail(wire) \in Seq(Message)
                 /\ Len(wire) \in Nat /\ Len(Tail(wire)) = Len(wire) - 1
        BY <1>1, <2>1, QueueTakes
    <2>2. QED
        BY <1>1, <2>1, FeedConstants
<1>4. CASE Connect \/ RegisterKey
    BY <1>1, <1>4 DEF Connect, RegisterKey, LinkOK, QueuesOK, queueVars
<1>5. CASE replay_pending_intents
    <2>1. Replayed \subseteq Intents
        BY DEF Replayed
    <2>2. QED
        BY <1>1, <1>5, <2>1 DEF replay_pending_intents, LinkOK, QueuesOK, queueVars
<1>6. CASE ForwardReplay
    <2>1. PICK i \in replay : replay' = replay \ {i} /\ wire' = Append(wire, NewIntent(i))
        BY <1>6 DEF ForwardReplay
    <2>2. wire' \in Seq(Message) /\ Len(wire') <= WireSize
        BY <1>1, <1>2, <1>6, <2>1, Messages DEF ForwardReplay
    <2>3. QED
        BY <1>1, <1>6, <2>1, <2>2 DEF ForwardReplay, LinkOK, QueuesOK, queueVars
<1>7. CASE ForwardBroadcast
    <2>1. /\ Head(channel) \in Message /\ Tail(channel) \in Seq(Message)
          /\ Len(Tail(channel)) <= Capacity
        <3>1. channel # <<>>
            BY <1>7 DEF ForwardBroadcast
        <3>2. /\ Head(channel) \in Message /\ Tail(channel) \in Seq(Message)
              /\ Len(channel) \in Nat /\ Len(Tail(channel)) = Len(channel) - 1
            BY <1>1, <3>1, QueueTakes
        <3>3. QED
            BY <1>1, <3>2, FeedConstants
    <2>2. channel' = Tail(channel) /\ wire' \in Seq(Message) /\ Len(wire') <= WireSize
        BY <1>1, <1>2, <1>7, <2>1 DEF ForwardBroadcast
    <2>3. QED
        BY <1>1, <1>7, <2>1, <2>2 DEF ForwardBroadcast, LinkOK, QueuesOK, queueVars
<1>8. CASE ReceiveIntent
    <2>1. PICK i \in Intents : i = Head(wire).intent
        BY <1>3, <1>8, Messages DEF ReceiveIntent
    <2>2. /\ intent_rx' = Append(intent_rx, i) /\ received' = received \cup {i}
          /\ Len(intent_rx) < QueueSize /\ wire' = Tail(wire) /\ wire # <<>>
          /\ UNCHANGED <<batch_rx, channel, link, replay, gap, gatewayVars, breaks>>
        BY <1>8, <2>1 DEF ReceiveIntent
    <2>3. intent_rx' \in Seq(Intents) /\ Len(intent_rx') <= QueueSize
        BY <1>1, <2>2, QueueAdds, FeedConstants
    <2>4. QED
        BY <1>1, <1>3, <2>2, <2>3 DEF LinkOK, QueuesOK
<1>9. CASE ReceiveClose
    <2>1. PICK closed \in BatchIds \X {0, 1} : closed = <<Head(wire).batch, Head(wire).count>>
        BY <1>3, <1>9, Messages DEF ReceiveClose
    <2>2. /\ batch_rx' = Append(batch_rx, closed)
          /\ Len(batch_rx) < QueueSize /\ wire' = Tail(wire) /\ wire # <<>>
          /\ UNCHANGED <<intent_rx, received, channel, link, replay, gap, gatewayVars, breaks>>
        BY <1>9, <2>1 DEF ReceiveClose
    <2>3. batch_rx' \in Seq(BatchIds \X {0, 1}) /\ Len(batch_rx') <= QueueSize
        BY <1>1, <2>2, QueueAdds, FeedConstants
    <2>4. QED
        BY <1>1, <1>3, <2>2, <2>3 DEF LinkOK, QueuesOK
<1>10. QED
    BY <1>4, <1>5, <1>6, <1>7, <1>8, <1>9 DEF FeedWork

-----------------------------------------------------------------------------
(* The feed forgets no order. *)

LEMMA GatewayDropsNone ==
    ASSUME GatewayOK, LinkOK, breaks \in 0..MaxBreaks, StoredBefore, NoneDropped, GatewayStep
    PROVE  StoredBefore' /\ NoneDropped'
<1>1. /\ window \in BatchIds /\ rows \in [Intents -> Row] /\ announced \subseteq Intents
    BY DEF GatewayOK
<1>2. /\ UNCHANGED <<received, replay, wire, link>>
      /\ gap => gap'
    BY GatewayTypes DEF queueVars
\* Steps that announce nothing and leave the channel alone.
<1>3. ASSUME announced' \subseteq announced, UNCHANGED <<channel, gap>>,
             \A i \in announced' : /\ rows'[i].status # "NONE"
                                   /\ Open(i)' => Open(i)
      PROVE  StoredBefore' /\ NoneDropped'
    BY <1>2, <1>3 DEF StoredBefore, NoneDropped, OnTheWay
\* Steps that broadcast one message more.
<1>4. ASSUME NEW m \in Message, Broadcast(m), announced \subseteq announced',
             \A i \in announced' \ announced : NewIntent(i) = m,
             \A i \in announced' : /\ rows'[i].status # "NONE"
                                   /\ Open(i)' => Open(i)
      PROVE  StoredBefore' /\ NoneDropped'
    <2>1. link # "down" /\ ~gap' => Range(channel') = Range(channel) \cup {m}
        BY <1>4, BroadcastKeeps
    <2>2. ASSUME link' = "live", ~gap', NEW i \in announced', Open(i)'
          PROVE  OnTheWay(i)'
        <3>1. link = "live" /\ ~gap /\ Range(channel') = Range(channel) \cup {m}
            BY <1>2, <2>1, <2>2
        <3>2. CASE i \in announced
            <4>1. OnTheWay(i)
                BY <1>4, <2>2, <3>1, <3>2 DEF NoneDropped
            <4>2. QED
                BY <1>2, <3>1, <4>1 DEF OnTheWay
        <3>3. CASE i \notin announced
            BY <1>2, <1>4, <3>1, <3>3 DEF OnTheWay
        <3>4. QED
            BY <3>2, <3>3
    <2>3. QED
        BY <1>4, <2>2 DEF StoredBefore, NoneDropped
<1>5. ASSUME NEW i \in Intents, NEW b \in BatchIds, StoreIntent(i, b) \/ Reconcile(i, b)
      PROVE  StoredBefore' /\ NoneDropped'
    <2>1. announced' \subseteq announced /\ i \notin announced'
        BY <1>5 DEF StoreIntent, Reconcile, StoredBefore
    <2>2. \A j \in announced' : rows'[j] = rows[j]
        BY <1>1, <1>5, <2>1 DEF StoreIntent, Reconcile
    <2>3. announced' \subseteq announced /\ UNCHANGED <<channel, gap>>
        BY <1>5, <2>1 DEF StoreIntent, Reconcile, linkVars
    <2>4. QED
        BY <1>3, <2>2, <2>3 DEF StoredBefore, Open
<1>6. ASSUME NEW i \in Intents, AnnounceIntent(i)
      PROVE  StoredBefore' /\ NoneDropped'
    <2>1. /\ Broadcast(NewIntent(i)) /\ announced' = announced \cup {i} /\ rows' = rows
          /\ rows[i].status # "NONE"
        BY <1>6 DEF AnnounceIntent
    <2>2. PICK m \in Message : m = NewIntent(i)
        BY Messages
    <2>3. Broadcast(m)
        BY <2>1, <2>2
    <2>4. \A j \in announced' : rows'[j].status # "NONE" /\ (Open(j)' => Open(j))
        BY <2>1 DEF StoredBefore, Open
    <2>5. QED
        BY <1>4, <2>1, <2>2, <2>3, <2>4
<1>7. ASSUME NEW i \in Intents, EndIntent(i)
      PROVE  StoredBefore' /\ NoneDropped'
    <2>1. \A j \in announced : rows'[j] = rows[j] \/ rows'[j].status = "OVER"
        BY <1>1, <1>7 DEF EndIntent
    <2>2. UNCHANGED <<announced, channel, gap>>
        BY <1>7 DEF EndIntent, linkVars
    <2>3. QED
        BY <1>3, <2>1, <2>2 DEF StoredBefore, Open
<1>8. ASSUME NEW count \in {0, 1}, CloseBatch(count)
      PROVE  StoredBefore' /\ NoneDropped'
    <2>1. PICK m \in Closing : m = [type |-> "batch_closed", batch |-> window, count |-> count]
        BY <1>1 DEF Closing
    <2>2. Broadcast(m) /\ announced' = announced /\ m \in Message
        BY <1>8, <2>1, Messages DEF CloseBatch
    <2>3. \A j \in Intents : /\ rows'[j].status # "NONE" \/ rows'[j] = rows[j]
                             /\ Open(j)' => Open(j)
        <3>1. ASSUME NEW j \in Intents
              PROVE  \/ rows'[j] = rows[j]
                     \/ Open(j) /\ rows'[j].status = "AUCTION"
            <4>1. \A r \in Row : [r EXCEPT !.status = "AUCTION"].status = "AUCTION"
                BY DEF Row
            <4>2. QED
                BY <1>1, <1>8, <4>1 DEF CloseBatch, Listed, InList, Open
        <3>2. QED
            BY <3>1 DEF Open
    <2>4. \A j \in announced' : rows'[j].status # "NONE" /\ (Open(j)' => Open(j))
        BY <1>1, <2>2, <2>3 DEF StoredBefore
    <2>5. QED
        BY <1>4, <2>2, <2>4
<1>9. ASSUME NEW b \in BatchIds, NEW requeue \in BatchIds, RequeueBatch(b, requeue)
      PROVE  StoredBefore' /\ NoneDropped'
    <2>1. \A j \in announced : \/ rows'[j] = rows[j]
                               \/ rows'[j].status = "PENDING" /\ Open(j)
        BY <1>1, <1>9 DEF RequeueBatch, Listed, InList, Open
    <2>2. UNCHANGED <<announced, channel, gap>>
        BY <1>9 DEF RequeueBatch, linkVars
    <2>3. QED
        BY <1>3, <2>1, <2>2 DEF StoredBefore, Open
<1>10. QED
    BY <1>5, <1>6, <1>7, <1>8, <1>9 DEF GatewayStep

LEMMA FeedDropsNone ==
    ASSUME GatewayOK, LinkOK, QueuesOK, StoredBefore, NoneDropped, FeedWork
    PROVE  StoredBefore' /\ NoneDropped'
<1>1. /\ channel \in Seq(Message) /\ wire \in Seq(Message)
      /\ announced \subseteq Intents /\ replay \subseteq Intents
    BY DEF LinkOK, GatewayOK
<1>2. UNCHANGED <<rows, announced>>
    BY FeedTypes DEF gatewayVars
<1>3. StoredBefore'
    BY <1>2 DEF StoredBefore
<1>4. \A m \in Message : Range(Append(wire, m)) = Range(wire) \cup {m}
    BY <1>1, QueueAdds
<1>5. wire # <<>> => Head(wire) \in Message /\ Range(wire) = Range(Tail(wire)) \cup {Head(wire)}
    BY <1>1, QueueTakes
\* On a connection that stays as it is every order stays on its way.
<1>6. ASSUME UNCHANGED <<link, gap>>,
             link = "live" => \A i \in announced : OnTheWay(i) => OnTheWay(i)'
      PROVE  NoneDropped'
    BY <1>2, <1>6 DEF NoneDropped, Open
<1>7. CASE Connect \/ RegisterKey
    BY <1>3, <1>7 DEF Connect, RegisterKey, NoneDropped
<1>8. CASE replay_pending_intents
    <2>1. ASSUME NEW i \in announced, Open(i)'
          PROVE  i \in replay'
        BY <1>1, <1>2, <1>8, <2>1 DEF replay_pending_intents, Replayed, Open
    <2>2. QED
        BY <1>2, <1>3, <2>1 DEF NoneDropped, OnTheWay
<1>9. CASE ForwardReplay
    <2>1. PICK i \in replay : replay' = replay \ {i} /\ wire' = Append(wire, NewIntent(i))
        BY <1>9 DEF ForwardReplay
    <2>2. Range(wire') = Range(wire) \cup {NewIntent(i)}
        BY <1>1, <1>4, <2>1, Messages
    <2>3. UNCHANGED <<link, gap, channel, received>>
        BY <1>9 DEF ForwardReplay, queueVars
    <2>4. QED
        BY <1>3, <1>6, <2>1, <2>2, <2>3 DEF OnTheWay
<1>10. CASE ForwardBroadcast
    <2>1. /\ Head(channel) \in Message
          /\ Range(channel) = Range(Tail(channel)) \cup {Head(channel)}
        BY <1>1, <1>10, QueueTakes DEF ForwardBroadcast
    <2>2. /\ UNCHANGED <<link, gap, replay, received>> /\ channel' = Tail(channel)
          /\ link = "live" => wire' = Append(wire, Head(channel))
        BY <1>10 DEF ForwardBroadcast, queueVars
    <2>3. link = "live" => Range(wire') = Range(wire) \cup {Head(channel)}
        BY <1>4, <2>1, <2>2
    <2>4. QED
        BY <1>3, <1>6, <2>1, <2>2, <2>3 DEF OnTheWay
<1>11. CASE ReceiveIntent
    <2>1. /\ wire # <<>> /\ wire' = Tail(wire) /\ received' = received \cup {Head(wire).intent}
          /\ Head(wire).type = "new_intent" /\ UNCHANGED <<link, gap, replay, channel>>
        BY <1>11 DEF ReceiveIntent
    <2>2. \A i \in Intents : NewIntent(i) = Head(wire) => i = Head(wire).intent
        BY DEF NewIntent
    <2>3. QED
        BY <1>1, <1>3, <1>5, <1>6, <2>1, <2>2 DEF OnTheWay
<1>12. CASE ReceiveClose
    <2>1. /\ wire # <<>> /\ wire' = Tail(wire) /\ Head(wire).type = "batch_closed"
          /\ UNCHANGED <<link, gap, replay, channel, received>>
        BY <1>12 DEF ReceiveClose
    <2>2. \A i \in Intents : NewIntent(i) # Head(wire)
        BY <2>1, Messages
    <2>3. QED
        BY <1>1, <1>3, <1>5, <1>6, <2>1, <2>2 DEF OnTheWay
<1>13. QED
    BY <1>3, <1>7, <1>8, <1>9, <1>10, <1>11, <1>12 DEF FeedWork

-----------------------------------------------------------------------------
(* Lists of orders, read page by page. *)

\* The page at an offset has the orders behind it, and is empty only at the end.
LEMMA PageAt ==
    ASSUME NEW S, NEW list \in Seq(S), NEW n \in Nat,
           NEW last, last = (IF n + PageLimit < Len(list) THEN n + PageLimit ELSE Len(list))
    PROVE  LET page == SubSeq(list, n + 1, last) IN
           /\ page \in Seq(S) /\ Len(page) \in Nat
           /\ \A k \in 1..Len(page) : n + k \in 1..Len(list) /\ page[k] = list[n + k]
           /\ page = <<>> => Len(list) <= n
           /\ page # <<>> => n + Len(page) <= Len(list)
<1> DEFINE page == SubSeq(list, n + 1, last)
<1>1. Len(list) \in Nat /\ last \in Nat /\ last <= Len(list) /\ PageLimit >= 1 /\ PageLimit \in Nat
    BY FeedConstants
<1>2. CASE last >= n + 1
    <2>1. /\ page \in Seq(S) /\ Len(page) = last - n
          /\ \A k \in 1..last - n : page[k] = list[n + k]
        BY <1>1, <1>2
    <2>2. \A k \in 1..last - n : n + k \in 1..Len(list)
        BY <1>1
    <2> HIDE DEF page
    <2>3. page # <<>> /\ last - n \in Nat /\ n + (last - n) <= Len(list)
        BY <1>1, <1>2, <2>1
    <2>4. /\ page \in Seq(S) /\ Len(page) \in Nat
          /\ \A k \in 1..Len(page) : n + k \in 1..Len(list) /\ page[k] = list[n + k]
          /\ page # <<>>
          /\ n + Len(page) <= Len(list)
        BY <2>1, <2>2, <2>3
    <2>5. QED
        BY <2>4 DEF page
<1>3. CASE ~ (last >= n + 1)
    <2>1. page = <<>>
        BY <1>1, <1>3
    <2>2. Len(list) <= n
        BY <1>1, <1>3
    <2> HIDE DEF page
    <2>3. Len(page) = 0 /\ page \in Seq(S)
        BY <2>1
    <2>4. /\ page \in Seq(S) /\ Len(page) \in Nat
          /\ \A k \in 1..Len(page) : n + k \in 1..Len(list) /\ page[k] = list[n + k]
        BY <2>3
    <2>5. QED
        BY <2>1, <2>2, <2>4 DEF page
<1>4. QED
    BY <1>2, <1>3

\* Two lists, one after the other.
LEMMA TwoLists ==
    ASSUME NEW S, NEW p \in Seq(S), NEW q \in Seq(S)
    PROVE  p \o q \in Seq(S) /\ Range(p \o q) = Range(p) \cup Range(q)
<1>1. /\ p \o q \in Seq(S) /\ Len(p) \in Nat /\ Len(q) \in Nat
      /\ DOMAIN p = 1..Len(p) /\ DOMAIN q = 1..Len(q)
      /\ DOMAIN (p \o q) = 1..Len(p) + Len(q)
      /\ \A k \in 1..Len(p) : (p \o q)[k] = p[k]
      /\ \A k \in Len(p) + 1..Len(p) + Len(q) : (p \o q)[k] = q[k - Len(p)]
    OBVIOUS
<1>2. ASSUME NEW k \in 1..Len(p) + Len(q)
      PROVE  (p \o q)[k] \in Range(p) \cup Range(q)
    <2>1. CASE k \in 1..Len(p)
        BY <1>1, <2>1 DEF Range
    <2>2. CASE k \notin 1..Len(p)
        <3>1. k \in Len(p) + 1..Len(p) + Len(q) /\ k - Len(p) \in 1..Len(q)
            BY <1>1, <2>2
        <3>2. QED
            BY <1>1, <3>1 DEF Range
    <2>3. QED
        BY <2>1, <2>2
<1>3. ASSUME NEW k \in 1..Len(p)
      PROVE  p[k] \in Range(p \o q)
    <2>1. k \in 1..Len(p) + Len(q)
        BY <1>1
    <2>2. QED
        BY <1>1, <2>1 DEF Range
<1>4. ASSUME NEW k \in 1..Len(q)
      PROVE  q[k] \in Range(p \o q)
    <2>1. /\ Len(p) + k \in Len(p) + 1..Len(p) + Len(q) /\ (Len(p) + k) - Len(p) = k
          /\ Len(p) + k \in 1..Len(p) + Len(q)
        BY <1>1
    <2>2. (p \o q)[Len(p) + k] = q[k]
        BY <1>1, <2>1
    <2>3. QED
        BY <1>1, <2>1, <2>2 DEF Range
<1>5. QED
    BY <1>1, <1>2, <1>3, <1>4 DEF Range

-----------------------------------------------------------------------------
(* The loop: types. *)

LEMMA IdleType == Idle \in Job
<1>1. <<>> \in [{} -> 0..MaxU128]
    <2>1. <<>> \in Seq(0..MaxU128) /\ DOMAIN <<>> = 1..0
        OBVIOUS
    <2>2. 1..0 = {}
        OBVIOUS
    <2>3. <<>> \in [1..0 -> 0..MaxU128]
        OBVIOUS
    <2>4. QED
        BY <2>2, <2>3
<1>2. <<>> \in Plans
    BY <1>1 DEF Plans
<1>3. <<>> \in Seq(Intents)
    OBVIOUS
<1>4. QED
    BY <1>2, <1>3, FeedConstants DEF Idle, Job

LEMMA JobFields ==
    ASSUME NEW w \in Job
    PROVE  /\ w.at \in {"idle", "order", "fetch", "fill", "submit", "settle", "hung"}
           /\ w.batch \in BatchIds /\ w.ids \in Seq(Intents) /\ w.pays \in Plans
           /\ w.moved \in BOOLEAN /\ w.joined \in SUBSET Intents
    BY DEF Job

\* An order is paid what it asks for or what the price gives, whichever is more.
LEMMA OutputIsEnough ==
    ASSUME NEW i \in Intents, NEW price \in Nat, Amount[i] * price <= MaxU128
    PROVE  OutputAmount(i, price) \in 0..MaxU128 /\ OutputAmount(i, price) >= MinOutput[i]
<1>1. /\ Amount[i] \in Nat /\ MinOutput[i] \in 0..MaxU128 /\ MaxU128 \in Nat
      /\ PriceUnit \in Nat /\ PriceUnit >= 1
    BY FeedConstants, SolverAssumption DEF SolverAssumption
<1>2. PICK product \in Nat : product = Amount[i] * price
    BY <1>1
<1>3. PICK output \in Nat : output = product \div PriceUnit /\ output <= product
    <2>1. product \div PriceUnit \in Nat
        BY <1>1
    <2>2. PICK q \in Nat : q = product \div PriceUnit
        BY <2>1
    <2>3. q * PriceUnit <= product
        BY <1>1, <2>2
    <2>4. q <= q * PriceUnit
        <3>1. PICK u \in Nat : PriceUnit = u + 1
            <4>1. PriceUnit - 1 \in Nat /\ PriceUnit = (PriceUnit - 1) + 1
                BY <1>1
            <4>2. QED
                BY <4>1
        <3>2. q * PriceUnit = q * u + q
            BY <3>1
        <3>3. q * u \in Nat
            OBVIOUS
        <3>4. QED
            BY <3>2, <3>3
    <2>5. QED
        <3>1. q * PriceUnit \in Nat
            BY <1>1
        <3>2. QED
            BY <2>2, <2>3, <2>4, <3>1
<1>4. OutputAmount(i, price) = IF output > MinOutput[i] THEN output ELSE MinOutput[i]
    BY <1>2, <1>3 DEF OutputAmount
<1>5. QED
    BY <1>1, <1>2, <1>3, <1>4

LEMMA PricesAreNat ==
    /\ \A i \in Intents : InternalFills(i) \subseteq Nat
    /\ Prices \subseteq Nat
    /\ \A i \in Intents : FillPrices(i) \subseteq Nat
<1>1. ASSUME NEW i \in Intents
      PROVE  InternalPrice(i) \in Nat
    <2>1. /\ Amount[i] \in Nat /\ Amount[i] >= 1 /\ MinOutput[i] \in Nat /\ MaxU128 \in Nat
          /\ PriceUnit \in Nat
        BY FeedConstants, SolverAssumption DEF SolverAssumption
    <2>2. PICK product \in Nat : product = MinOutput[i] * PriceUnit
        BY <2>1
    <2>3. PICK wrapped \in Nat : wrapped = product % (MaxU128 + 1)
        BY <2>1
    <2>4. wrapped \div Amount[i] \in Nat
        BY <2>1
    <2>5. QED
        BY <2>2, <2>3, <2>4 DEF InternalPrice
<1>2. Prices \subseteq Nat
    BY SolverAssumption DEF SolverAssumption
<1>3. QED
    BY <1>1, <1>2 DEF InternalFills, FillPrices, BestRoutes

\* What the plan of a batch pays.
LEMMA PlanBuilt ==
    ASSUME MainOK, FillBatch, work'.at # "idle"
    PROVE  /\ work' \in Job /\ work'.at = "submit"
           /\ work'.batch = work.batch /\ work'.ids = work.ids /\ work'.moved = work.moved
           /\ work'.joined = work.joined /\ Cardinality(Range(work.ids)) = Len(work.ids)
           /\ DOMAIN work'.pays = Range(work.ids)
           /\ \A i \in Range(work.ids) : work'.pays[i] >= MinOutput[i]
<1> DEFINE ids == Range(work.ids)
           all == Prices \cup UNION {InternalFills(i) : i \in ids}
<1>1. work \in Job
    BY DEF MainOK
<1>2. ~ LeaveBatch
    BY DEF LeaveBatch, Idle
<1>3. Whole(pending_intents)
    BY <1>2 DEF FillBatch
<1>4. ids \cap pending_intents = ids
    BY <1>3 DEF Whole, Missing
<1>5. ids \subseteq Intents
    <2>1. work.ids \in Seq(Intents)
        BY <1>1, JobFields
    <2>2. QED
        BY <2>1 DEF Range
<1>6. PICK price \in [ids -> all] :
          /\ \A i \in ids : price[i] \in FillPrices(i) /\ Amount[i] * price[i] <= MaxU128
          /\ work' = [work EXCEPT !.at = "submit",
                         !.pays = [i \in ids |-> OutputAmount(i, price[i])]]
    BY <1>2, <1>4 DEF FillBatch
<1>7. ASSUME NEW i \in ids
      PROVE  /\ OutputAmount(i, price[i]) \in 0..MaxU128
             /\ OutputAmount(i, price[i]) >= MinOutput[i]
    <2>1. i \in Intents /\ price[i] \in Nat /\ Amount[i] * price[i] <= MaxU128
        BY <1>5, <1>6, PricesAreNat
    <2>2. QED
        BY <2>1, OutputIsEnough
<1> DEFINE pays == [i \in ids |-> OutputAmount(i, price[i])]
<1>8. pays \in [ids -> 0..MaxU128]
    BY <1>7
<1>9. pays \in Plans
    BY <1>5, <1>8 DEF Plans
<1>10. \A i \in ids : pays[i] >= MinOutput[i]
    BY <1>7
<1>11. DOMAIN pays = ids
    OBVIOUS
<1> HIDE DEF pays
<1>12. work' = [work EXCEPT !.at = "submit", !.pays = pays]
    BY <1>6 DEF pays
<1>13. /\ work' \in Job /\ work'.at = "submit" /\ work'.pays = pays
       /\ work'.batch = work.batch /\ work'.ids = work.ids /\ work'.moved = work.moved
       /\ work'.joined = work.joined
    BY <1>1, <1>9, <1>12 DEF Job
<1>14. Cardinality(Range(work.ids)) = Len(work.ids)
    BY <1>3 DEF Whole
<1>15. QED
    BY <1>10, <1>11, <1>13, <1>14

\* The page that is read next.
LEMMA NextPage ==
    ASSUME GatewayOK, MainOK
    PROVE  LET list == SequenceOf(Listed(work.batch))
               n    == Len(work.ids)
               page == PageFrom(n) IN
           /\ page \in Seq(Intents) /\ Len(page) \in Nat
           /\ list \in Seq(Intents) /\ Len(list) \in Nat /\ Range(list) = Listed(work.batch)
           /\ DOMAIN list = 1..Len(list) /\ Len(list) = Cardinality(Listed(work.batch))
           /\ n \in Nat
           /\ \A k \in 1..Len(page) : n + k \in 1..Len(list) /\ page[k] = list[n + k]
           /\ page = <<>> => Len(list) <= n
           /\ page # <<>> => n + Len(page) <= Len(list)
<1>1. work.ids \in Seq(Intents)
    BY JobFields DEF MainOK
<1>2. PICK n \in Nat : n = Len(work.ids)
    BY <1>1
<1>3. PICK S \in SUBSET Intents : S = Listed(work.batch)
    BY DEF Listed
<1>4. PICK list \in Seq(S) : /\ list = SequenceOf(S) /\ Len(list) \in Nat
                             /\ DOMAIN list = 1..Len(list) /\ Range(list) = S
                             /\ Len(list) = Cardinality(S)
    BY SequenceOfSet
<1>5. list \in Seq(Intents)
    BY <1>4
<1>6. PICK last : last = (IF n + PageLimit < Len(list) THEN n + PageLimit ELSE Len(list))
    OBVIOUS
<1>7. PageFrom(Len(work.ids)) = SubSeq(list, n + 1, last)
    BY <1>2, <1>3, <1>4, <1>6 DEF PageFrom
<1> DEFINE page == SubSeq(list, n + 1, last)
<1>8. /\ page \in Seq(Intents) /\ Len(page) \in Nat
      /\ \A k \in 1..Len(page) : n + k \in 1..Len(list) /\ page[k] = list[n + k]
      /\ page = <<>> => Len(list) <= n
      /\ page # <<>> => n + Len(page) <= Len(list)
    BY <1>5, <1>6, PageAt
<1> HIDE DEF page
<1>9. QED
    BY <1>2, <1>3, <1>4, <1>5, <1>7, <1>8 DEF page

-----------------------------------------------------------------------------
(* The loop reads the whole batch and pays all of it. *)

Loop == ReadSoFar /\ AllRead /\ PaidEnough

\* Whatever happens, the loop may leave the batch.
LEMMA LoopIdle ==
    ASSUME work' = Idle \/ work' = [Idle EXCEPT !.at = "hung"]
    PROVE  Loop' /\ work'.at \in {"idle", "hung"} /\ work' \in Job
<1>1. work'.at \in {"idle", "hung"} /\ work' \in Job
    BY IdleType DEF Idle, Job
<1>2. QED
    BY <1>1 DEF Loop, ReadSoFar, AllRead, PaidEnough

\* The loop goes on with the same batch, of which the list stays the same.
LEMMA LoopSame ==
    ASSUME Loop, UNCHANGED <<rows, work>>
    PROVE  Loop'
<1>1. Listed(work.batch)' = Listed(work.batch)
    BY DEF Listed
<1>2. QED
    BY <1>1 DEF Loop, ReadSoFar, AllRead, PaidEnough

LEMMA LoopStep ==
    ASSUME GatewayOK, QueuesOK, MainOK, Loop, MainStep
    PROVE  QueuesOK' /\ MainOK' /\ Loop'
<1>1. /\ intent_rx \in Seq(Intents) /\ Len(intent_rx) <= QueueSize
      /\ batch_rx \in Seq(BatchIds \X {0, 1}) /\ Len(batch_rx) <= QueueSize
      /\ received \subseteq Intents
      /\ pending_intents \subseteq Intents /\ work \in Job
    BY DEF QueuesOK, MainOK
<1>2. /\ UNCHANGED <<window, rows, announced, channel, wire>>
      /\ Main
    BY DEF MainStep, gatewayVars, linkVars
<1>3. \A b \in BatchIds : Listed(b)' = Listed(b)
    BY <1>2 DEF Listed
<1>4. /\ work.at \in {"idle", "order", "fetch", "fill", "submit", "settle", "hung"}
      /\ work.batch \in BatchIds /\ work.ids \in Seq(Intents)
      /\ work.pays \in Plans /\ work.moved \in BOOLEAN
      /\ work.joined \in SUBSET Intents
    BY <1>1, JobFields
<1>5. ASSUME UNCHANGED <<batch_rx, received>>, intent_rx' \in Seq(Intents),
             Len(intent_rx') <= QueueSize
      PROVE  QueuesOK'
    BY <1>1, <1>5 DEF QueuesOK
<1>6. CASE TakeIntent
    <2>1. /\ intent_rx # <<>> /\ intent_rx' = Tail(intent_rx)
          /\ pending_intents' = pending_intents \cup {Head(intent_rx)}
          /\ UNCHANGED <<work, batch_rx, received>>
        BY <1>6 DEF TakeIntent
    <2>2. /\ Head(intent_rx) \in Intents /\ Tail(intent_rx) \in Seq(Intents)
          /\ Len(Tail(intent_rx)) <= QueueSize
        <3>1. /\ Head(intent_rx) \in Intents /\ Tail(intent_rx) \in Seq(Intents)
              /\ Len(intent_rx) \in Nat /\ Len(Tail(intent_rx)) = Len(intent_rx) - 1
            BY <1>1, <2>1, QueueTakes
        <3>2. QED
            BY <1>1, <3>1, FeedConstants
    <2>3. QueuesOK' /\ MainOK'
        BY <1>1, <2>1, <2>2 DEF QueuesOK, MainOK
    <2>4. Loop'
        BY <1>2, <2>1, LoopSame
    <2>5. QED
        BY <2>3, <2>4
<1>7. CASE TakeBatch
    <2>1. PICK closed \in BatchIds \X {0, 1} :
              /\ closed = Head(batch_rx)
              /\ Tail(batch_rx) \in Seq(BatchIds \X {0, 1})
              /\ Len(Tail(batch_rx)) <= QueueSize
        <3>1. batch_rx # <<>>
            BY <1>7 DEF TakeBatch
        <3>2. /\ Head(batch_rx) \in BatchIds \X {0, 1}
              /\ Tail(batch_rx) \in Seq(BatchIds \X {0, 1})
              /\ Len(batch_rx) \in Nat /\ Len(Tail(batch_rx)) = Len(batch_rx) - 1
            BY <1>1, <3>1, QueueTakes
        <3>3. QED
            BY <1>1, <3>2, FeedConstants
    <2>2. /\ batch_rx' = Tail(batch_rx) /\ UNCHANGED <<pending_intents, intent_rx, received>>
          /\ \/ work' = Idle
             \/ work' = [Idle EXCEPT !.at = "order", !.batch = closed[1]]
        BY <1>7, <2>1 DEF TakeBatch
    <2>3. CASE work' = Idle
        BY <1>1, <2>1, <2>2, <2>3, LoopIdle DEF QueuesOK, MainOK
    <2>4. CASE work' = [Idle EXCEPT !.at = "order", !.batch = closed[1]]
        <3>1. closed[1] \in BatchIds
            BY <2>1
        <3>2. /\ work'.at = "order" /\ work'.batch = closed[1] /\ work'.ids = <<>>
              /\ work' \in Job
            BY <2>4, <3>1, IdleType DEF Idle, Job
        <3>3. Loop'
            BY <3>2, EmptyQueue DEF Loop, ReadSoFar, AllRead, PaidEnough
        <3>4. QED
            BY <1>1, <2>1, <2>2, <3>2, <3>3 DEF QueuesOK, MainOK
    <2>5. QED
        BY <2>2, <2>3, <2>4
<1>8. CASE FetchOrderPage
    <2>1. PICK n \in Nat : n = Len(work.ids)
        BY <1>4
    <2>2. PICK list \in Seq(Intents) : list = SequenceOf(Listed(work.batch))
        BY NextPage
    <2>3. PICK page \in Seq(Intents) : page = PageFrom(n)
        BY <2>1, NextPage
    <2>4. /\ Len(page) \in Nat /\ Len(list) \in Nat
          /\ \A k \in 1..Len(page) : n + k \in 1..Len(list) /\ page[k] = list[n + k]
          /\ page # <<>> => n + Len(page) <= Len(list)
        BY <2>1, <2>2, <2>3, NextPage
    <2>5. PICK ids \in Seq(Intents) : ids = work.ids
        BY <1>4
    <2>6. /\ page # <<>> /\ work.at = "order" /\ UNCHANGED <<pending_intents, queueVars>>
          /\ work' = [work EXCEPT !.ids = ids \o page]
        BY <1>8, <2>1, <2>3, <2>5 DEF FetchOrderPage
    <2>7. /\ ids \o page \in Seq(Intents)
          /\ Range(ids \o page) = Range(ids) \cup Range(page)
        BY <2>3, <2>5, TwoLists
    <2>8. /\ work' \in Job /\ work'.at = "order" /\ work'.batch = work.batch
          /\ work'.ids = ids \o page /\ work'.moved = work.moved
        BY <1>1, <2>6, <2>7 DEF Job
    <2>9. QueuesOK' /\ MainOK'
        BY <1>1, <1>5, <2>6, <2>8 DEF queueVars, MainOK
    <2>10. Range(page) \subseteq Listed(work.batch)
        <3>1. Range(list) = Listed(work.batch) /\ DOMAIN list = 1..Len(list)
            BY <2>2, NextPage
        <3>2. DOMAIN page = 1..Len(page)
            BY <2>3
        <3>3. \A k \in 1..Len(page) : page[k] \in Listed(work.batch)
            BY <2>4, <3>1 DEF Range
        <3>4. QED
            BY <3>2, <3>3 DEF Range
    <2>11. Listed(work.batch)' = Listed(work.batch)
        BY <1>3, <1>4, <2>8
    <2>12. ReadSoFar'
        BY <2>5, <2>6, <2>7, <2>8, <2>10, <2>11 DEF Loop, ReadSoFar
    <2>13. QED
        BY <2>8, <2>9, <2>12 DEF Loop, AllRead, PaidEnough
<1>9. CASE OrderIsRead
    <2>1. PICK cache : cache = pending_intents \cup Range(intent_rx)
        OBVIOUS
    <2>2. /\ work.at = "order" /\ PageFrom(Len(work.ids)) = <<>>
          /\ intent_rx' = <<>> /\ pending_intents' = cache
          /\ UNCHANGED <<batch_rx, received>>
          /\ work' = [work EXCEPT !.at = IF Missing(cache) = {} THEN "fill" ELSE "fetch"]
        BY <1>9, <2>1 DEF OrderIsRead
    <2>3. cache \subseteq Intents
        BY <1>1, <2>1 DEF Range
    <2>4. /\ work' \in Job /\ work'.at \in {"fill", "fetch"} /\ work'.batch = work.batch
          /\ work'.ids = work.ids /\ work'.moved = work.moved /\ work'.joined = work.joined
        BY <1>1, <2>2 DEF Job
    <2>5. <<>> \in Seq(Intents) /\ Len(<<>>) <= QueueSize
        BY FeedConstants
    <2>6. QueuesOK' /\ MainOK'
        BY <1>5, <2>2, <2>3, <2>4, <2>5 DEF MainOK
    <2>7. ASSUME ~ work.moved, Cardinality(Range(work.ids)) = Len(work.ids)
          PROVE  Listed(work.batch) \subseteq Range(work.ids)
        <3>1. PICK n \in Nat : n = Len(work.ids)
            BY <1>4
        <3>2. Cardinality(Listed(work.batch)) \in Nat /\ Cardinality(Listed(work.batch)) <= n
            BY <2>2, <3>1, NextPage
        <3>3. Range(work.ids) \subseteq Listed(work.batch) /\ Cardinality(Range(work.ids)) = n
            BY <2>2, <2>7, <3>1 DEF Loop, ReadSoFar
        <3>4. IsFiniteSet(Listed(work.batch))
            BY FeedAssumption, FS_Subset DEF FeedAssumption, Listed
        <3>5. QED
            BY <3>2, <3>3, <3>4, FS_Subset
    <2>8. Listed(work.batch)' = Listed(work.batch)
        BY <1>3, <1>4, <2>4
    <2>9. Loop'
        BY <2>4, <2>7, <2>8 DEF Loop, ReadSoFar, AllRead, PaidEnough
    <2>10. QED
        BY <2>6, <2>9
<1>10. CASE FetchMissing
    <2>1. /\ work.at = "fetch" /\ UNCHANGED queueVars /\ work' = [work EXCEPT !.at = "fill"]
          /\ \E found \in SUBSET Intents : pending_intents' = pending_intents \cup found
        <3>1. Missing(pending_intents) \subseteq Intents
            BY <1>4 DEF Missing, Range
        <3>2. QED
            BY <1>10, <3>1 DEF FetchMissing
    <2>2. /\ work' \in Job /\ work'.at = "fill" /\ work'.batch = work.batch
          /\ work'.ids = work.ids /\ work'.moved = work.moved /\ work'.joined = work.joined
        BY <1>1, <2>1 DEF Job
    <2>3. QueuesOK' /\ MainOK'
        BY <1>1, <1>5, <2>1, <2>2 DEF queueVars, MainOK
    <2>4. Listed(work.batch)' = Listed(work.batch)
        BY <1>3, <1>4, <2>2
    <2>5. Loop'
        BY <2>1, <2>2, <2>4 DEF Loop, ReadSoFar, AllRead, PaidEnough
    <2>6. QED
        BY <2>3, <2>5
<1>11. CASE FillBatch
    <2>1. work.at = "fill" /\ UNCHANGED queueVars /\ pending_intents' \subseteq pending_intents
        BY <1>11 DEF FillBatch
    <2>2. CASE work'.at = "idle"
        <3>1. work' = Idle
            <4>1. ASSUME NEW pays, work' = [work EXCEPT !.at = "submit", !.pays = pays]
                  PROVE  FALSE
                BY <1>1, <2>2, <4>1 DEF Job
            <4>2. QED
                BY <1>11, <4>1 DEF FillBatch, LeaveBatch
        <3>2. QueuesOK' /\ MainOK'
            BY <1>1, <1>5, <2>1, <2>2, <3>1, LoopIdle DEF queueVars, MainOK
        <3>3. QED
            BY <3>1, <3>2, LoopIdle
    <2>3. CASE work'.at # "idle"
        <3>1. /\ work' \in Job /\ work'.at = "submit" /\ work'.batch = work.batch
              /\ work'.ids = work.ids /\ work'.moved = work.moved /\ work'.joined = work.joined
              /\ Cardinality(Range(work.ids)) = Len(work.ids)
              /\ DOMAIN work'.pays = Range(work.ids)
              /\ \A i \in Range(work.ids) : work'.pays[i] >= MinOutput[i]
            BY <1>11, <2>3, PlanBuilt
        <3>2. QueuesOK' /\ MainOK'
            BY <1>1, <1>5, <2>1, <3>1 DEF queueVars, MainOK
        <3>3. Listed(work.batch)' = Listed(work.batch)
            BY <1>3, <1>4, <3>1
        <3>4. Loop'
            BY <2>1, <3>1, <3>3 DEF Loop, ReadSoFar, AllRead, PaidEnough
        <3>5. QED
            BY <3>2, <3>4
    <2>4. QED
        BY <2>2, <2>3
<1>12. CASE SubmitSolution \/ SubmitSettlement
    <2>1. /\ UNCHANGED <<pending_intents, queueVars>> /\ work.at \in {"submit", "settle"}
          /\ \/ work' = Idle
             \/ work.at = "submit" /\ work' = [work EXCEPT !.at = "settle"]
        BY <1>12 DEF SubmitSolution, SubmitSettlement, LeaveBatch
    <2>2. CASE work' = Idle
        <3>1. QueuesOK' /\ MainOK'
            BY <1>1, <1>5, <2>1, <2>2, LoopIdle DEF queueVars, MainOK
        <3>2. QED
            BY <2>2, <3>1, LoopIdle
    <2>3. CASE work.at = "submit" /\ work' = [work EXCEPT !.at = "settle"]
        <3>1. /\ work' \in Job /\ work'.at = "settle" /\ work'.batch = work.batch
              /\ work'.ids = work.ids /\ work'.moved = work.moved
            BY <1>1, <2>3 DEF Job
        <3>2. QueuesOK' /\ MainOK'
            BY <1>1, <1>5, <2>1, <3>1 DEF queueVars, MainOK
        <3>3. Listed(work.batch)' = Listed(work.batch)
            BY <1>3, <1>4, <3>1
        <3>4. Loop'
            BY <2>3, <3>1, <3>3 DEF Loop, ReadSoFar, AllRead, PaidEnough
        <3>5. QED
            BY <3>2, <3>4
    <2>4. QED
        BY <2>1, <2>2, <2>3
<1>13. QED
    BY <1>2, <1>6, <1>7, <1>8, <1>9, <1>10, <1>11, <1>12 DEF Main

-----------------------------------------------------------------------------
(* The gateway and the feed beside the loop. *)

LEMMA GatewayKeepsLoop ==
    ASSUME GatewayOK, LinkOK, breaks \in 0..MaxBreaks, MainOK, Loop, GatewayActs
    PROVE  MainOK' /\ Loop'
<1>1. /\ GatewayStep /\ UNCHANGED pending_intents
      /\ work' = IF work.at = "order" /\ Leaving # {} THEN [work EXCEPT !.moved = TRUE]
                 ELSE IF work.at \in {"fetch", "fill", "submit"} /\ ~work.moved
                 THEN [work EXCEPT !.joined = @ \cup (Joining \ Range(work.ids))]
                 ELSE work
      /\ pending_intents \subseteq Intents /\ work \in Job
    BY DEF GatewayActs, MainOK
<1>2. PICK b \in BatchIds : b = work.batch
    BY <1>1, JobFields
<1>3. Joining \subseteq Intents
    BY DEF Joining
<1>4. Listed(b)' = {i \in Intents : InList(rows'[i], b)}
    BY DEF Listed
<1>5. CASE work.at = "order" /\ Leaving # {}
    <2>1. /\ work' \in Job /\ work'.at = "order" /\ work'.moved
        BY <1>1, <1>5 DEF Job
    <2>2. QED
        BY <1>1, <2>1 DEF MainOK, Loop, ReadSoFar, AllRead, PaidEnough
<1>6. CASE work.at \in {"fetch", "fill", "submit"} /\ ~work.moved
    <2> DEFINE joined == work.joined \cup (Joining \ Range(work.ids))
    <2>1. joined \in SUBSET Intents /\ work' = [work EXCEPT !.joined = joined]
        BY <1>1, <1>3, <1>6, JobFields
    <2> HIDE DEF joined
    <2>2. /\ work' \in Job /\ work'.at = work.at /\ work'.batch = b /\ work'.moved = work.moved
          /\ work'.ids = work.ids /\ work'.pays = work.pays /\ work'.joined = joined
        BY <1>1, <1>2, <2>1 DEF Job
    <2>3. Listed(b)' \subseteq Listed(b) \cup Joining
        BY <1>2, <1>4 DEF Joining
    <2>4. ASSUME Listed(b) \ work.joined \subseteq Range(work.ids)
          PROVE  Listed(b)' \ joined \subseteq Range(work.ids)
        BY <2>3, <2>4 DEF joined
    <2>5. AllRead'
        BY <1>2, <2>2, <2>4 DEF Loop, AllRead
    <2>6. QED
        BY <1>1, <1>6, <2>2, <2>5 DEF MainOK, Loop, ReadSoFar, PaidEnough
<1>7. CASE ~ (work.at = "order" /\ Leaving # {})
             /\ ~ (work.at \in {"fetch", "fill", "submit"} /\ ~work.moved)
    <2>1. work' = work
        BY <1>1, <1>7
    <2>2. work.at = "order" => Listed(b) \subseteq Listed(b)'
        BY <1>2, <1>4, <1>7 DEF Leaving, Listed
    <2>3. ReadSoFar'
        BY <1>2, <2>1, <2>2 DEF Loop, ReadSoFar
    <2>4. AllRead' /\ PaidEnough'
        BY <1>7, <2>1 DEF Loop, AllRead, PaidEnough
    <2>5. QED
        BY <1>1, <2>1, <2>3, <2>4 DEF MainOK, Loop
<1>8. QED
    BY <1>5, <1>6, <1>7

-----------------------------------------------------------------------------
(* The invariant. *)

LEMMA InitHolds ==
    ASSUME SolverInit
    PROVE  SolverInv
<1>1. /\ window = 0 /\ rows = [i \in Intents |-> [status |-> "NONE", batch |-> 0]]
      /\ announced = {} /\ channel = <<>> /\ link = "down" /\ replay = {} /\ gap = FALSE
      /\ wire = <<>> /\ intent_rx = <<>> /\ batch_rx = <<>> /\ received = {}
      /\ breaks = 0 /\ pending_intents = {} /\ work = Idle
    BY DEF SolverInit, FeedInit
<1>2. GatewayOK
    <2>1. [status |-> "NONE", batch |-> 0] \in Row
        BY FeedConstants DEF Row
    <2>2. QED
        BY <1>1, <2>1, FeedConstants DEF GatewayOK
<1>3. LinkOK /\ QueuesOK /\ breaks \in 0..MaxBreaks /\ MainOK
    <2>1. LinkOK
        <3>1. gap \in BOOLEAN
            BY <1>1, Zenon
        <3>2. QED
            BY <1>1, <3>1, EmptyQueue, FeedConstants DEF LinkOK
    <2>2. QueuesOK
        BY <1>1, EmptyQueue, FeedConstants DEF QueuesOK
    <2>3. breaks \in 0..MaxBreaks
        BY <1>1, FeedConstants
    <2>4. QED
        BY <1>1, <2>1, <2>2, <2>3, IdleType DEF MainOK
<1>4. Range(<<>>) = {} /\ work.at = "idle"
    BY <1>1, EmptyQueue DEF Idle
<1>5. StoredBefore /\ NoneDropped
    BY <1>1 DEF StoredBefore, NoneDropped
<1>6. ReadSoFar /\ AllRead /\ PaidEnough
    BY <1>4 DEF ReadSoFar, AllRead, PaidEnough
<1>7. QED
    BY <1>2, <1>3, <1>5, <1>6, TypeParts DEF SolverInv

\* What breaks leaves nothing behind that the invariant would not allow.
LEMMA BreakHolds ==
    ASSUME SolverInv, LinkFails \/ OrderFails \/ Unanswered \/ SolverCrash
    PROVE  SolverInv'
<1>1. GatewayOK /\ LinkOK /\ QueuesOK /\ breaks \in 0..MaxBreaks /\ MainOK
    BY TypeParts DEF SolverInv
<1>2. /\ UNCHANGED gatewayVars /\ breaks' \in 0..MaxBreaks
      /\ StoredBefore /\ NoneDropped /\ Loop
    BY <1>1, BreakType
       DEF SolverInv, Loop, LinkFails, OrderFails, Unanswered, SolverCrash, ReplayFails, LoseConnection
<1>3. GatewayOK' /\ StoredBefore'
    BY <1>1, <1>2 DEF GatewayOK, StoredBefore, gatewayVars
<1>4. Range(<<>>) = {}
    BY EmptyQueue
<1>5. ASSUME LinkOK', QueuesOK', MainOK', NoneDropped', Loop'
      PROVE  SolverInv'
    <2>1. SolverTypeOK'
        BY <1>2, <1>3, <1>5, TypesNext
    <2>2. QED
        BY <1>3, <1>5, <2>1 DEF SolverInv, Loop
<1>6. CASE LinkFails
    <2>1. /\ UNCHANGED <<queueVars, pending_intents, work, window, rows, announced>>
          /\ \/ ReplayFails
             \/ LoseConnection
        BY <1>2, <1>6 DEF LinkFails, ReplayFails, LoseConnection, mainVars, gatewayVars
    <2>2. QueuesOK' /\ MainOK' /\ Loop'
        BY <1>1, <1>2, <2>1, LoopSame DEF QueuesOK, MainOK, queueVars
    <2>3. CASE ReplayFails
        <3>1. /\ link' = "live" /\ gap' = TRUE /\ UNCHANGED <<channel, replay, wire>>
            BY <2>3 DEF ReplayFails
        <3>2. LinkOK' /\ NoneDropped'
            BY <1>1, <3>1 DEF LinkOK, NoneDropped
        <3>3. QED
            BY <1>5, <2>2, <3>2
    <2>4. CASE LoseConnection
        <3>1. link' = "down" /\ gap' = FALSE /\ channel' = <<>> /\ replay' = {} /\ wire' = <<>>
            BY <2>4 DEF LoseConnection
        <3>2. LinkOK' /\ NoneDropped'
            <4>1. gap' \in BOOLEAN
                BY <3>1, Zenon
            <4>2. QED
                BY <3>1, <4>1, EmptyQueue, FeedConstants DEF LinkOK, NoneDropped
        <3>3. QED
            BY <1>5, <2>2, <3>2
    <2>5. QED
        BY <2>1, <2>3, <2>4
<1>7. CASE OrderFails \/ Unanswered
    <2>1. /\ UNCHANGED <<pending_intents, gatewayVars, linkVars, queueVars>>
          /\ work' = Idle \/ work' = [Idle EXCEPT !.at = "hung"]
        BY <1>7 DEF OrderFails, Unanswered, LeaveBatch
    <2>2. Loop' /\ work' \in Job
        BY <2>1, LoopIdle
    <2>3. LinkOK' /\ QueuesOK' /\ MainOK'
        BY <1>1, <2>1, <2>2 DEF LinkOK, QueuesOK, MainOK, linkVars, queueVars
    <2>4. NoneDropped'
        BY <1>2, <2>1 DEF NoneDropped, OnTheWay, Open, gatewayVars, linkVars, queueVars
    <2>5. QED
        BY <1>5, <2>2, <2>3, <2>4
<1>8. CASE SolverCrash
    <2>1. /\ link' = "down" /\ gap' = FALSE /\ channel' = <<>> /\ replay' = {} /\ wire' = <<>>
          /\ intent_rx' = <<>> /\ batch_rx' = <<>> /\ received' = {}
          /\ pending_intents' = {} /\ work' = Idle
        BY <1>8 DEF SolverCrash, LeaveBatch
    <2>2. Loop' /\ work' \in Job
        BY <2>1, LoopIdle
    <2>3. LinkOK' /\ NoneDropped'
        <3>1. gap' \in BOOLEAN
            BY <2>1, Zenon
        <3>2. QED
            BY <2>1, <3>1, EmptyQueue, FeedConstants DEF LinkOK, NoneDropped
    <2>4. QueuesOK' /\ MainOK'
        BY <2>1, <2>2, EmptyQueue, FeedConstants DEF QueuesOK, MainOK
    <2>5. QED
        BY <1>5, <2>2, <2>3, <2>4
<1>9. QED
    BY <1>6, <1>7, <1>8

LEMMA StepHolds ==
    ASSUME SolverInv, [SolverNext]_solverVars
    PROVE  SolverInv'
<1>1. /\ GatewayOK /\ LinkOK /\ QueuesOK /\ breaks \in 0..MaxBreaks /\ MainOK
      /\ StoredBefore /\ NoneDropped /\ Loop
    BY TypeParts DEF SolverInv, Loop
<1>2. ASSUME GatewayOK', LinkOK', QueuesOK', breaks' \in 0..MaxBreaks, MainOK',
             StoredBefore', NoneDropped', Loop'
      PROVE  SolverInv'
    BY <1>2, TypesNext DEF SolverInv, Loop
<1>3. CASE GatewayActs
    <2>1. GatewayStep
        BY <1>3 DEF GatewayActs
    <2>2. /\ GatewayOK' /\ LinkOK' /\ breaks' \in 0..MaxBreaks /\ UNCHANGED queueVars
          /\ StoredBefore' /\ NoneDropped'
        BY <1>1, <2>1, GatewayTypes, GatewayDropsNone
    <2>3. MainOK' /\ Loop'
        BY <1>1, <1>3, GatewayKeepsLoop
    <2>4. QueuesOK'
        BY <1>1, <2>2 DEF QueuesOK, queueVars
    <2>5. QED
        BY <1>2, <2>2, <2>3, <2>4
<1>4. CASE FeedWork /\ UNCHANGED mainVars
    <2>1. LinkOK' /\ QueuesOK' /\ UNCHANGED <<gatewayVars, breaks, pending_intents, work>>
        BY <1>1, <1>4, FeedTypes DEF mainVars
    <2>2. GatewayOK' /\ MainOK' /\ breaks' \in 0..MaxBreaks
        BY <1>1, <2>1 DEF GatewayOK, MainOK, gatewayVars
    <2>3. StoredBefore' /\ NoneDropped'
        BY <1>1, <1>4, FeedDropsNone
    <2>4. Loop'
        BY <1>1, <2>1, LoopSame DEF gatewayVars
    <2>5. QED
        BY <1>2, <2>1, <2>2, <2>3, <2>4
<1>5. CASE MainStep
    <2>1. QueuesOK' /\ MainOK' /\ Loop'
        BY <1>1, <1>5, LoopStep
    <2>2. UNCHANGED <<gatewayVars, linkVars, breaks, received>>
        <3>1. UNCHANGED received
            BY <1>5 DEF MainStep, Main, TakeIntent, TakeBatch, FetchOrderPage, OrderIsRead,
                        FetchMissing, FillBatch, SubmitSolution, SubmitSettlement, queueVars
        <3>2. QED
            BY <1>5, <3>1 DEF MainStep
    <2>3. GatewayOK' /\ LinkOK' /\ breaks' \in 0..MaxBreaks
        BY <1>1, <2>2 DEF GatewayOK, LinkOK, gatewayVars, linkVars
    <2>4. StoredBefore' /\ NoneDropped'
        BY <1>1, <2>2 DEF StoredBefore, NoneDropped, OnTheWay, Open, gatewayVars, linkVars
    <2>5. QED
        BY <1>2, <2>1, <2>3, <2>4
<1>6. CASE LinkFails \/ OrderFails \/ Unanswered \/ SolverCrash
    BY <1>6, BreakHolds
<1>7. CASE UNCHANGED solverVars
    <2>1. /\ UNCHANGED <<window, rows, announced, channel, link, replay, gap, wire>>
          /\ UNCHANGED <<intent_rx, batch_rx, received, breaks, pending_intents, work>>
        BY <1>7 DEF solverVars, feedVars, mainVars, gatewayVars, linkVars, queueVars
    <2>2. GatewayOK' /\ LinkOK' /\ QueuesOK' /\ breaks' \in 0..MaxBreaks /\ MainOK'
        BY <1>1, <2>1 DEF GatewayOK, LinkOK, QueuesOK, MainOK
    <2>3. StoredBefore' /\ NoneDropped'
        BY <1>1, <2>1 DEF StoredBefore, NoneDropped, OnTheWay, Open
    <2>4. Loop'
        BY <1>1, <2>1, LoopSame
    <2>5. QED
        BY <1>2, <2>2, <2>3, <2>4
<1>8. QED
    BY <1>3, <1>4, <1>5, <1>6, <1>7 DEF SolverNext

LEMMA AlwaysInv == SolverSpec => []SolverInv
    BY InitHolds, StepHolds, PTL DEF SolverSpec

\* At every moment the queues hold what they are for and no more than they can.
THEOREM SolverTypeCorrect == SolverSpec => []SolverTypeOK
<1>1. SolverInv => SolverTypeOK
    BY DEF SolverInv
<1>2. QED
    BY <1>1, AlwaysInv, PTL

\* Whenever all that was sent to a live connection has arrived, the solver was given every
\* announced order that is open, whatever the lengths of its queues and of the channel and
\* however often the connection broke before.
THEOREM NoAnnouncedOrderForgotten == SolverSpec => []NoOrderForgotten
<1>1. ASSUME SolverInv
      PROVE  NoOrderForgotten
    BY <1>1, EmptyQueue DEF SolverInv, NoneDropped, OnTheWay, NoOrderForgotten
<1>2. QED
    BY <1>1, AlwaysInv, PTL

\* A solution is only sent for the whole list of its batch, read through pages of any size
\* while orders join it, and while broadcasts, replays and requests fill the cache; it pays
\* every order on the list at least what it asks for.
THEOREM EveryBidPaysItsBatch == SolverSpec => BidPaysEveryOrder
<1>1. ASSUME SolverInv, work.at = "submit", ~work.moved
      PROVE  /\ Listed(work.batch) \ work.joined \subseteq DOMAIN work.pays
             /\ \A i \in DOMAIN work.pays : work.pays[i] >= MinOutput[i]
    BY <1>1 DEF SolverInv, AllRead, PaidEnough
<1>2. QED
    BY <1>1, AlwaysInv, PTL DEF BidPaysEveryOrder
=============================================================================
