--------------------------- MODULE ClientSdkProofs ---------------------------
(***************************************************************************)
(* Proofs about ClientSdk, for every number of threads, retries, nonces    *)
(* and crashes: types, nonces returned once, orders committed once.        *)
(***************************************************************************)
EXTENDS ClientSdk, SequenceTheorems, TLAPS

\* Threads that hold a nonce.
BusyHasNonce ==
    \A t \in Threads :
        threads[t].at \in {"flush", "build", "post", "wait"} => threads[t].nonce \in Orders

ClientTypeInv == ClientTypeOK /\ BusyHasNonce

LEMMA ClientInitTypes == ClientInit => ClientTypeInv
<1> SUFFICES ASSUME ClientInit PROVE ClientTypeInv
  OBVIOUS
<1> USE ClientAssumption DEF ClientInit
<1>1. IdleThread \in [at : {"idle", "flush", "save", "build", "post", "wait"},
                      nonce : 0..MaxNonce, attempt : Attempts]
  BY DEF IdleThread, Attempts
<1>2. returned \in Seq(Orders)
  <2>1. <<>> \in Seq(Orders)
    OBVIOUS
  <2> QED BY <2>1
<1>3. requests \in [Orders \X Attempts -> {"none", "lost"} \cup InService \cup Answers]
  OBVIOUS
<1>4. ClientTypeOK
  BY <1>1, <1>2, <1>3 DEF ClientTypeOK, IdleThread
<1>5. BusyHasNonce
  BY DEF BusyHasNonce, IdleThread
<1> QED BY <1>4, <1>5 DEF ClientTypeInv

-----------------------------------------------------------------------------
ThreadState == [at : {"idle", "flush", "save", "build", "post", "wait"},
                nonce : 0..MaxNonce, attempt : Attempts]

\* A thread that changes its place keeps the types when it keeps, or takes, a nonce.
LEMMA ThreadMoves ==
    ASSUME ClientTypeInv, NEW t \in Threads, NEW new \in ThreadState,
           new.at \in {"flush", "build", "post", "wait"} => new.nonce \in Orders,
           threads' = [threads EXCEPT ![t] = new]
    PROVE  threads' \in [Threads -> ThreadState] /\ BusyHasNonce'
BY DEF ClientTypeInv, ClientTypeOK, BusyHasNonce, ThreadState, Orders

LEMMA IdleIsAState == IdleThread \in ThreadState /\ IdleThread.at = "idle"
BY ClientAssumption DEF IdleThread, ThreadState, Attempts

LEMMA ThreadIsAState ==
    ASSUME ClientTypeInv, NEW t \in Threads
    PROVE  threads[t] \in ThreadState
BY DEF ClientTypeInv, ClientTypeOK, ThreadState

LEMMA EndKeepsThreads ==
    ASSUME ClientTypeInv, NEW t \in Threads, EndCall(t)
    PROVE  threads' \in [Threads -> ThreadState] /\ BusyHasNonce'
<1>1. threads' = [threads EXCEPT ![t] = IdleThread]
  BY DEF EndCall
<1> QED BY <1>1, IdleIsAState, ThreadMoves

\* The thread keeps its nonce and goes to another place.
LEMMA StepKeepsThreads ==
    ASSUME ClientTypeInv, NEW t \in Threads,
           NEW at \in {"flush", "save", "build", "post", "wait"},
           at # "save" => threads[t].nonce \in Orders,
           threads' = [threads EXCEPT ![t].at = at]
    PROVE  threads' \in [Threads -> ThreadState] /\ BusyHasNonce'
<1> DEFINE new == [threads[t] EXCEPT !.at = at]
<1>1. threads[t] \in ThreadState
  BY ThreadIsAState
<1>2. new \in ThreadState /\ new.at = at /\ new.nonce = threads[t].nonce
  BY <1>1 DEF ThreadState
<1>3. threads' = [threads EXCEPT ![t] = new]
  OBVIOUS
<1> HIDE DEF new
<1> QED BY <1>2, <1>3, ThreadMoves

RequestState == {"none", "lost"} \cup InService \cup Answers

\* An answer, a thread's step or a step of the gateway: what the typed parts need.
LEMMA AnswersAreTyped ==
    ASSUME ClientTypeInv, NEW r, NEW answer \in RequestState,
           requests' = [requests EXCEPT ![r] = answer]
    PROVE  requests' \in [Orders \X Attempts -> RequestState]
BY DEF ClientTypeInv, ClientTypeOK, RequestState

LEMMA TypesInParts ==
    ASSUME nonces' \in 0..MaxNonce, file' \in (0..MaxNonce) \cup {NoFile, Torn},
           process' \in {"up", "down"}, threads' \in [Threads -> ThreadState],
           requests' \in [Orders \X Attempts -> RequestState],
           rows' \in [Orders -> {"NONE", "PENDING", "ONCHAIN_FAILED"}],
           user_nonces' \subseteq Orders, returned' \in Seq(Orders),
           commits' \in [Orders -> Nat], accepted' \subseteq Orders, crashes' \in 0..MaxCrashes
    PROVE  ClientTypeOK'
BY DEF ClientTypeOK, ThreadState, RequestState

LEMMA ThreadStepKeepsTypes ==
    ASSUME ClientTypeInv, NEW t \in Threads,
           \/ get_next_nonce(t) \/ set_nonce(t) \/ FlushFails(t) \/ ClientStep(t)
    PROVE  ClientTypeInv'
<1> USE ClientAssumption
<1>0. /\ nonces \in 0..MaxNonce /\ file \in (0..MaxNonce) \cup {NoFile, Torn}
      /\ process \in {"up", "down"} /\ threads[t] \in ThreadState
      /\ requests \in [Orders \X Attempts -> RequestState]
      /\ rows \in [Orders -> {"NONE", "PENDING", "ONCHAIN_FAILED"}]
      /\ user_nonces \subseteq Orders /\ returned \in Seq(Orders)
      /\ commits \in [Orders -> Nat] /\ accepted \subseteq Orders /\ crashes \in 0..MaxCrashes
      /\ threads[t].at \in {"flush", "build", "post", "wait"} => threads[t].nonce \in Orders
  BY DEF ClientTypeInv, ClientTypeOK, BusyHasNonce, ThreadState, RequestState
<1> USE TypesInParts DEF ClientTypeInv
<1>1. CASE get_next_nonce(t)
  <2> DEFINE new == [threads[t] EXCEPT !.at = "flush", !.nonce = nonces + 1]
  <2>1. nonces + 1 \in Orders /\ nonces + 1 \in 0..MaxNonce
    BY <1>0, <1>1 DEF get_next_nonce, Orders
  <2>2. new \in ThreadState /\ new.nonce = nonces + 1
    BY <1>0, <2>1 DEF ThreadState
  <2>3. threads' = [threads EXCEPT ![t] = new]
    BY <1>1 DEF get_next_nonce
  <2> HIDE DEF new
  <2>4. threads' \in [Threads -> ThreadState] /\ BusyHasNonce'
    BY <2>1, <2>2, <2>3, ThreadMoves
  <2> QED BY <1>0, <1>1, <2>1, <2>4 DEF get_next_nonce, gatewayVars
<1>2. CASE set_nonce(t)
  <2>1. threads' \in [Threads -> ThreadState] /\ BusyHasNonce'
    BY <1>2, StepKeepsThreads DEF set_nonce
  <2>2. nonces' \in 0..MaxNonce
    BY <1>0, <1>2 DEF set_nonce
  <2> QED BY <1>0, <1>2, <2>1, <2>2 DEF set_nonce, gatewayVars
<1>3. CASE FlushFails(t)
  <2>1. threads' \in [Threads -> ThreadState] /\ BusyHasNonce'
    BY <1>3, EndKeepsThreads DEF FlushFails, EndCall
  <2> QED BY <1>0, <1>3, <2>1 DEF FlushFails, gatewayVars
<1>4. CASE flush(t)
  <2>1. threads[t].nonce \in Orders
    BY <1>0, <1>4 DEF flush
  <2>2. threads' \in [Threads -> ThreadState] /\ BusyHasNonce'
    BY <1>4, <2>1, StepKeepsThreads DEF flush
  <2>3. returned' \in Seq(Orders)
    BY <1>0, <1>4, <2>1 DEF flush
  <2>4. file' \in (0..MaxNonce) \cup {NoFile, Torn}
    BY <1>0, <1>4 DEF flush, Save, Flushed
  <2> QED BY <1>0, <1>4, <2>2, <2>3, <2>4 DEF flush, gatewayVars
<1>5. CASE flush_set(t)
  <2>1. threads' \in [Threads -> ThreadState] /\ BusyHasNonce'
    BY <1>5, EndKeepsThreads DEF flush_set, EndCall
  <2>2. file' \in (0..MaxNonce) \cup {NoFile, Torn}
    BY <1>0, <1>5 DEF flush_set, Save, Flushed
  <2> QED BY <1>0, <1>5, <2>1, <2>2 DEF flush_set, gatewayVars
<1>6. CASE build(t)
  <2>1. threads[t].nonce \in Orders
    BY <1>0, <1>6 DEF build
  <2>2. threads' \in [Threads -> ThreadState] /\ BusyHasNonce'
    BY <1>6, <2>1, StepKeepsThreads, EndKeepsThreads DEF build
  <2> QED BY <1>0, <1>6, <2>2 DEF build, trackerVars, gatewayVars
<1>7. CASE Send(t)
  <2>1. threads[t].nonce \in Orders
    BY <1>0, <1>7 DEF Send
  <2>2. threads' \in [Threads -> ThreadState] /\ BusyHasNonce'
    BY <1>7, <2>1, StepKeepsThreads DEF Send
  <2>3. requests' \in [Orders \X Attempts -> RequestState]
    BY <1>7, AnswersAreTyped DEF Send, RequestState, InService
  <2> QED BY <1>0, <1>7, <2>2, <2>3 DEF Send, trackerVars, gatewayVars
<1>8. CASE ReceiveOk(t)
  <2>1. threads' \in [Threads -> ThreadState] /\ BusyHasNonce'
    BY <1>8, EndKeepsThreads DEF ReceiveOk
  <2>2. accepted' \subseteq Orders
    BY <1>0, <1>8 DEF ReceiveOk
  <2> QED BY <1>0, <1>8, <2>1, <2>2 DEF ReceiveOk, trackerVars, gatewayVars
<1>9. CASE ReceiveError(t)
  <2>1. threads' \in [Threads -> ThreadState] /\ BusyHasNonce'
    BY <1>9, EndKeepsThreads DEF ReceiveError
  <2> QED BY <1>0, <1>9, <2>1 DEF ReceiveError, trackerVars, gatewayVars
<1>10. CASE Retry(t)
  <2>1. threads' \in [Threads -> ThreadState] /\ BusyHasNonce'
    <3>1. CASE EndCall(t)
      BY <3>1, EndKeepsThreads
    <3>2. CASE ~EndCall(t)
      <4> DEFINE new == [threads[t] EXCEPT !.at = "post", !.attempt = threads[t].attempt + 1]
      <4>1. /\ threads' = [threads EXCEPT ![t] = new]
            /\ threads[t].attempt < max_retries /\ threads[t].at = "wait"
        BY <1>10, <3>2 DEF Retry, TryAgain
      <4>2. threads[t].attempt + 1 \in Attempts
        BY <1>0, <4>1 DEF ThreadState, Attempts, ClientAssumption
      <4>3. new \in ThreadState /\ new.nonce = threads[t].nonce /\ threads[t].nonce \in Orders
        BY <1>0, <4>1, <4>2 DEF ThreadState
      <4> HIDE DEF new
      <4> QED BY <4>1, <4>3, ThreadMoves
    <3> QED BY <3>1, <3>2
  <2> QED BY <1>0, <1>10, <2>1 DEF Retry, trackerVars, gatewayVars
<1> QED BY <1>1, <1>2, <1>3, <1>4, <1>5, <1>6, <1>7, <1>8, <1>9, <1>10 DEF ClientStep

LEMMA ServiceKeepsTypes ==
    ASSUME ClientTypeInv, NEW r \in Orders \X Attempts, Serve(r)
    PROVE  ClientTypeInv'
<1>0. /\ requests \in [Orders \X Attempts -> RequestState]
      /\ rows \in [Orders -> {"NONE", "PENDING", "ONCHAIN_FAILED"}]
      /\ user_nonces \subseteq Orders /\ commits \in [Orders -> Nat] /\ r[1] \in Orders
  BY DEF ClientTypeInv, ClientTypeOK, RequestState
<1>1. UNCHANGED <<nonces, file, returned, process, threads, accepted, crashes>>
  BY DEF Serve, Store, Reject, Commit, CommitRejected, RecordCommit, UndoSubmit, Lose, Elsewhere,
         trackerVars
<1>2. requests' \in [Orders \X Attempts -> RequestState]
  <2>1. PICK answer \in RequestState : requests' = [requests EXCEPT ![r] = answer]
    BY DEF Serve, Store, Reject, Commit, CommitRejected, RecordCommit, UndoSubmit, Lose, Answer,
           RequestState, InService, Answers
  <2> QED BY <2>1, AnswersAreTyped
<1>3. /\ rows' \in [Orders -> {"NONE", "PENDING", "ONCHAIN_FAILED"}]
      /\ user_nonces' \subseteq Orders /\ commits' \in [Orders -> Nat]
  BY <1>0 DEF Serve, Store, Reject, Commit, CommitRejected, RecordCommit, UndoSubmit, Lose,
              gatewayVars
<1>4. ClientTypeOK'
  BY <1>1, <1>2, <1>3 DEF ClientTypeInv, ClientTypeOK, RequestState
<1> QED BY <1>1, <1>4 DEF ClientTypeInv, BusyHasNonce

LEMMA ClientStepKeepsTypes == ClientTypeInv /\ [ClientNext]_sdkVars => ClientTypeInv'
<1> SUFFICES ASSUME ClientTypeInv, [ClientNext]_sdkVars PROVE ClientTypeInv'
  OBVIOUS
<1>1. CASE UNCHANGED sdkVars
  BY <1>1 DEF ClientTypeInv, ClientTypeOK, BusyHasNonce, sdkVars, trackerVars, gatewayVars
<1>2. CASE Crash
  <2>1. threads' \in [Threads -> ThreadState] /\ BusyHasNonce'
    BY <1>2, IdleIsAState DEF Crash, BusyHasNonce
  <2> QED BY <1>2, <2>1, ClientAssumption DEF Crash, ClientTypeInv, ClientTypeOK, ThreadState, gatewayVars
<1>3. CASE with_persistence
  <2>1. nonces' \in 0..MaxNonce
    BY <1>3, ClientAssumption DEF with_persistence, Loaded, ClientTypeInv, ClientTypeOK
  <2> QED BY <1>3, <2>1 DEF with_persistence, ClientTypeInv, ClientTypeOK, BusyHasNonce, gatewayVars
<1> QED BY <1>1, <1>2, <1>3, ThreadStepKeepsTypes, ServiceKeepsTypes DEF ClientNext

\* The types of ClientSdk hold in every reachable state.
THEOREM ClientTypeCorrect == ClientSpec => []ClientTypeOK
<1>1. ClientInit => ClientTypeInv
  BY ClientInitTypes
<1>2. ClientTypeInv /\ [ClientNext]_sdkVars => ClientTypeInv'
  BY ClientStepKeepsTypes
<1>3. ClientTypeInv => ClientTypeOK
  BY DEF ClientTypeInv
<1> QED BY <1>1, <1>2, <1>3, PTL DEF ClientSpec

-----------------------------------------------------------------------------
(* Nonces.  A counted nonce is held by its thread until it is returned. *)

DownIsIdle == process = "down" => \A t \in Threads : threads[t].at = "idle"

ReturnedWereCounted ==
    \A k \in DOMAIN returned :
        /\ process = "up" => returned[k] <= nonces
        /\ file # Torn => file \in Nat /\ returned[k] <= file

HeldIsFresh ==
    \A t \in Threads : threads[t].at = "flush" =>
        /\ threads[t].nonce <= nonces
        /\ \A k \in DOMAIN returned : returned[k] # threads[t].nonce

HeldOnce ==
    \A t, u \in Threads :
        (t # u /\ threads[t].at = "flush" /\ threads[u].at = "flush")
            => threads[t].nonce # threads[u].nonce

ReturnedOnce == \A j, k \in DOMAIN returned : j # k => returned[j] # returned[k]

NonceInv ==
    /\ DownIsIdle
    /\ auto_flush => ReturnedWereCounted /\ HeldIsFresh /\ HeldOnce /\ ReturnedOnce

LEMMA OrdersAreNats ==
    ASSUME NEW s \in Seq(Orders), NEW k \in DOMAIN s
    PROVE  s[k] \in Nat
<1>1. s[k] \in Orders
  OBVIOUS
<1> QED BY <1>1 DEF Orders

LEMMA ClientInitNonces == ClientInit => NonceInv
BY DEF ClientInit, NonceInv, DownIsIdle, ReturnedWereCounted, HeldIsFresh, HeldOnce, ReturnedOnce,
       IdleThread

\* A step of one thread that counts and returns nothing, and ends no process.
LEMMA OtherThreadStepsKeepNonces ==
    ASSUME ClientTypeInv, NonceInv, NEW t \in Threads, NEW new \in ThreadState, new.at # "flush",
           process = "up" \/ threads[t].at # "idle",
           threads' = [threads EXCEPT ![t] = new], nonces \in Nat, nonces' \in Nat,
           nonces <= nonces', UNCHANGED <<process, returned>>,
           file' = file \/ file' = Torn \/ file' = nonces'
    PROVE  NonceInv'
<1>1. process = "up" /\ process' = "up"
  BY DEF NonceInv, DownIsIdle, ClientTypeInv, ClientTypeOK
<1>2. \A u \in Threads : threads'[u].at = "flush" => threads'[u] = threads[u]
  BY DEF ClientTypeInv, ClientTypeOK
<1>3. \A k \in DOMAIN returned : returned[k] \in Nat
  BY OrdersAreNats DEF ClientTypeInv, ClientTypeOK
<1>4. \A u \in Threads : threads[u].nonce \in Nat
  BY DEF ClientTypeInv, ClientTypeOK
<1>5. ASSUME auto_flush
      PROVE  (ReturnedWereCounted /\ HeldIsFresh /\ HeldOnce /\ ReturnedOnce)'
  <2>1. ReturnedWereCounted /\ HeldIsFresh /\ HeldOnce /\ ReturnedOnce
    BY <1>5 DEF NonceInv
  <2>2. ReturnedWereCounted'
    BY <1>1, <1>3, <2>1 DEF ReturnedWereCounted
  <2>3. HeldIsFresh'
    BY <1>2, <1>4, <2>1 DEF HeldIsFresh
  <2>4. HeldOnce' /\ ReturnedOnce'
    BY <1>2, <2>1 DEF HeldOnce, ReturnedOnce
  <2> QED BY <2>2, <2>3, <2>4
<1> QED BY <1>1, <1>5 DEF NonceInv, DownIsIdle

LEMMA CountKeepsNonces ==
    ASSUME ClientTypeInv, NonceInv, NEW t \in Threads, get_next_nonce(t)
    PROVE  NonceInv'
<1>1. /\ process' = "up" /\ returned' = returned /\ file' = file /\ nonces' = nonces + 1
      /\ nonces \in Nat /\ process = "up"
  BY DEF get_next_nonce, ClientTypeInv, ClientTypeOK
<1>2. threads'[t].at = "flush" /\ threads'[t].nonce = nonces + 1
  BY DEF get_next_nonce, ClientTypeInv, ClientTypeOK
<1>3. \A u \in Threads \ {t} : threads'[u] = threads[u]
  BY DEF get_next_nonce, ClientTypeInv, ClientTypeOK
<1>4. /\ \A k \in DOMAIN returned : returned[k] \in Nat
      /\ \A u \in Threads : threads[u].nonce \in Nat
  BY OrdersAreNats DEF ClientTypeInv, ClientTypeOK
<1>5. ASSUME auto_flush
      PROVE  (ReturnedWereCounted /\ HeldIsFresh /\ HeldOnce /\ ReturnedOnce)'
  <2>1. ReturnedWereCounted /\ HeldIsFresh /\ HeldOnce /\ ReturnedOnce
    BY <1>5 DEF NonceInv
  <2>2. ReturnedWereCounted'
    BY <1>1, <1>4, <2>1 DEF ReturnedWereCounted
  <2>3. HeldIsFresh'
    BY <1>1, <1>2, <1>3, <1>4, <2>1 DEF HeldIsFresh, ReturnedWereCounted
  <2>4. HeldOnce'
    BY <1>1, <1>2, <1>3, <1>4, <2>1 DEF HeldOnce, HeldIsFresh
  <2> QED BY <1>1, <2>1, <2>2, <2>3, <2>4 DEF ReturnedOnce
<1> QED BY <1>1, <1>5 DEF NonceInv, DownIsIdle

LEMMA FlushKeepsNonces ==
    ASSUME ClientTypeInv, NonceInv, NEW t \in Threads, flush(t)
    PROVE  NonceInv'
<1> DEFINE n == threads[t].nonce
<1>1. /\ process = "up" /\ process' = process /\ nonces' = nonces /\ nonces \in Nat
      /\ threads[t].at = "flush"
  BY DEF flush, NonceInv, DownIsIdle, ClientTypeInv, ClientTypeOK
<1>2. threads'[t].at = "build" /\ \A u \in Threads \ {t} : threads'[u] = threads[u]
  BY DEF flush, ClientTypeInv, ClientTypeOK
<1>3. returned \in Seq(Orders) /\ n \in Orders /\ returned' = Append(returned, n)
  BY <1>1 DEF flush, ClientTypeInv, ClientTypeOK, BusyHasNonce
<1>4. /\ DOMAIN returned = 1..Len(returned) /\ Len(returned) \in Nat
      /\ DOMAIN returned' = 1..Len(returned) + 1
      /\ \A k \in DOMAIN returned : returned'[k] = returned[k]
      /\ returned'[Len(returned) + 1] = n
  BY <1>3
<1>6. n \in Nat /\ \A k \in DOMAIN returned : returned[k] \in Nat
  BY <1>3, OrdersAreNats DEF Orders
<1>5. ASSUME auto_flush
      PROVE  (ReturnedWereCounted /\ HeldIsFresh /\ HeldOnce /\ ReturnedOnce)'
  <2>1. ReturnedWereCounted /\ HeldIsFresh /\ HeldOnce /\ ReturnedOnce
    BY <1>5 DEF NonceInv
  <2>2. n <= nonces /\ \A k \in DOMAIN returned : returned[k] # n
    BY <1>1, <2>1 DEF HeldIsFresh
  <2>3. file' = nonces
    BY <1>5 DEF flush, Save, Flushed
  <2>4. ReturnedWereCounted'
    BY <1>1, <1>4, <1>6, <2>1, <2>2, <2>3 DEF ReturnedWereCounted
  <2>5. HeldIsFresh'
    BY <1>1, <1>2, <1>4, <2>1 DEF HeldIsFresh, HeldOnce
  <2>6. HeldOnce'
    BY <1>2, <2>1 DEF HeldOnce
  <2>7. ReturnedOnce'
    BY <1>4, <2>1, <2>2 DEF ReturnedOnce
  <2> QED BY <2>4, <2>5, <2>6, <2>7
<1> QED BY <1>1, <1>5 DEF NonceInv, DownIsIdle

LEMMA ClientStepKeepsNonces ==
    ClientTypeInv /\ NonceInv /\ [ClientNext]_sdkVars => NonceInv'
<1> SUFFICES ASSUME ClientTypeInv, NonceInv, [ClientNext]_sdkVars PROVE NonceInv'
  OBVIOUS
<1>0. nonces \in Nat
  BY DEF ClientTypeInv, ClientTypeOK
<1>1. ASSUME NEW t \in Threads, set_nonce(t) \/ FlushFails(t) \/ ClientStep(t), ~flush(t)
      PROVE  NonceInv'
  <2> DEFINE new == threads'[t]
  <2>1. threads' \in [Threads -> ThreadState]
    <3>1. ClientTypeInv'
      BY <1>1, ThreadStepKeepsTypes
    <3> QED BY <3>1 DEF ClientTypeInv, ClientTypeOK, ThreadState
  <2>2. \A u \in Threads \ {t} : threads'[u] = threads[u]
    BY <1>1 DEF set_nonce, FlushFails, ClientStep, flush_set, build, Send, ReceiveOk, ReceiveError,
                Retry, TryAgain, EndCall, ClientTypeInv, ClientTypeOK
  <2>3. new \in ThreadState /\ threads' = [threads EXCEPT ![t] = new]
    BY <2>1, <2>2 DEF ClientTypeInv, ClientTypeOK
  <2>4. new.at # "flush"
    BY <1>1 DEF set_nonce, FlushFails, ClientStep, flush_set, build, Send, ReceiveOk, ReceiveError,
                Retry, TryAgain, EndCall, IdleThread, ClientTypeInv, ClientTypeOK
  <2>5. process = "up" \/ threads[t].at # "idle"
    BY <1>1 DEF set_nonce, FlushFails, ClientStep, flush_set, build, Send, ReceiveOk, ReceiveError,
                Retry
  <2>6. nonces' \in Nat /\ nonces <= nonces'
    BY <1>0, <1>1, ClientAssumption DEF set_nonce, FlushFails, ClientStep, flush_set, build, Send, ReceiveOk,
                ReceiveError, Retry, trackerVars, ClientAssumption
  <2>7. /\ UNCHANGED <<process, returned>>
        /\ file' = file \/ file' = Torn \/ file' = nonces'
    BY <1>1 DEF set_nonce, FlushFails, ClientStep, flush_set, build, Send, ReceiveOk, ReceiveError,
                Retry, trackerVars, Save, Flushed
  <2> HIDE DEF new
  <2> QED BY <1>0, <2>3, <2>4, <2>5, <2>6, <2>7, OtherThreadStepsKeepNonces
<1>2. CASE Crash
  <2>1. /\ process' = "down" /\ returned' = returned /\ file' \in {file, Torn}
        /\ \A t \in Threads : threads'[t].at = "idle"
    BY <1>2 DEF Crash, IdleThread
  <2> QED BY <2>1 DEF NonceInv, DownIsIdle, ReturnedWereCounted, HeldIsFresh, HeldOnce, ReturnedOnce
<1>3. CASE with_persistence
  <2>1. /\ process = "down" /\ process' = "up" /\ UNCHANGED <<file, returned, threads>>
        /\ nonces' \in Loaded
    BY <1>3 DEF with_persistence
  <2>2. /\ file = NoFile => nonces' = 0
        /\ file # NoFile => file # Torn /\ nonces' = file
    BY <2>1 DEF Loaded
  <2>3. \A t \in Threads : threads'[t].at = "idle"
    BY <2>1 DEF NonceInv, DownIsIdle
  <2>4. auto_flush => ReturnedWereCounted'
    BY <2>1, <2>2, ClientAssumption DEF NonceInv, ReturnedWereCounted, ClientAssumption
  <2> QED BY <2>1, <2>3, <2>4 DEF NonceInv, DownIsIdle, HeldIsFresh, HeldOnce, ReturnedOnce
<1>4. ASSUME UNCHANGED <<nonces, file, process, threads, returned>> PROVE NonceInv'
  BY <1>4 DEF NonceInv, DownIsIdle, ReturnedWereCounted, HeldIsFresh, HeldOnce, ReturnedOnce
<1>5. ASSUME NEW r \in Orders \X Attempts, Serve(r)
      PROVE  UNCHANGED <<nonces, file, process, threads, returned>>
  BY <1>5 DEF Serve, Store, Reject, Commit, CommitRejected, RecordCommit, UndoSubmit, Lose, Elsewhere,
              trackerVars
<1>6. CASE UNCHANGED sdkVars
  BY <1>4, <1>6 DEF sdkVars, trackerVars
<1> QED BY <1>1, <1>2, <1>3, <1>4, <1>5, <1>6, CountKeepsNonces, FlushKeepsNonces DEF ClientNext

\* With auto_flush no nonce is returned twice, across threads, failed writes and crashes.
THEOREM NoncesAreUnique == ClientSpec => []NonceReturnedOnce
<1>1. ClientInit => ClientTypeInv /\ NonceInv
  BY ClientInitTypes, ClientInitNonces
<1>2. ClientTypeInv /\ NonceInv /\ [ClientNext]_sdkVars => (ClientTypeInv /\ NonceInv)'
  BY ClientStepKeepsTypes, ClientStepKeepsNonces
<1>3. NonceInv => NonceReturnedOnce
  BY DEF NonceInv, ReturnedOnce, NonceReturnedOnce
<1> QED BY <1>1, <1>2, <1>3, PTL DEF ClientSpec

-----------------------------------------------------------------------------
(* Commitments. *)

\* An order that was never stored has nothing; one request of an order at most is about to
\* commit it, and then nobody has.
CommitInv ==
    /\ \A n \in Orders : commits[n] \in {0, 1}
    /\ \A n \in Orders, a \in Attempts :
          /\ requests[<<n, a>>] \in {"commit", "record", "undo"} => rows[n] # "NONE"
          /\ requests[<<n, a>>] = "commit" => commits[n] = 0
          /\ requests[<<n, a>>] \in {"record", "ok"} => commits[n] = 1
          /\ \A b \in Attempts : (requests[<<n, a>>] = "commit" /\ requests[<<n, b>>] = "commit") => a = b
    /\ \A n \in Orders : rows[n] = "NONE" => commits[n] = 0
    /\ \A n \in accepted : commits[n] = 1

LEMMA ClientInitCommits == ClientInit => CommitInv
BY DEF ClientInit, CommitInv

\* A request of an order goes on; no commitment is sent.
LEMMA AnswerKeepsCommits ==
    ASSUME ClientTypeInv, CommitInv, NEW r \in Orders \X Attempts, NEW answer,
           requests' = [requests EXCEPT ![r] = answer],
           answer # "commit",
           answer \in {"record", "undo"} => requests[r] \in {"commit", "record", "undo"},
           answer \in {"record", "ok"} => requests[r] \in {"record", "ok"},
           UNCHANGED <<commits, rows, accepted>>
    PROVE  CommitInv'
BY DEF ClientTypeInv, ClientTypeOK, CommitInv

LEMMA ServiceKeepsCommits ==
    ASSUME ClientTypeInv, CommitInv, NEW r \in Orders \X Attempts, Serve(r)
    PROVE  CommitInv'
<1> DEFINE n == r[1]
<1>0. /\ n \in Orders /\ \E a \in Attempts : r = <<n, a>>
      /\ accepted' = accepted
      /\ requests \in [Orders \X Attempts -> RequestState]
      /\ rows \in [Orders -> {"NONE", "PENDING", "ONCHAIN_FAILED"}] /\ commits \in [Orders -> Nat]
      /\ accepted \subseteq Orders
  BY DEF Serve, Store, Reject, Commit, CommitRejected, RecordCommit, UndoSubmit, Lose, Elsewhere,
         ClientTypeInv, ClientTypeOK, RequestState
<1>1. CASE Store(r) /\ IsNew(n)
  <2>1. /\ rows' = [rows EXCEPT ![n] = "PENDING"] /\ commits' = commits
        /\ requests' = [requests EXCEPT ![r] = "commit"]
        /\ rows[n] = "NONE"
    BY <1>1 DEF Store, IsNew, Answer
  <2> QED BY <1>0, <2>1 DEF CommitInv
<1>2. CASE Store(r) /\ ~IsNew(n)
  BY <1>0, <1>2, AnswerKeepsCommits DEF Store, Answer
<1>3. CASE Reject(r)
  BY <1>0, <1>3, AnswerKeepsCommits DEF Reject, Answer, gatewayVars
<1>4. CASE Commit(r)
  <2>1. /\ commits' = [commits EXCEPT ![n] = commits[n] + 1] /\ rows' = rows
        /\ \E answer \in {"record", "undo"} : requests' = [requests EXCEPT ![r] = answer]
        /\ requests[r] = "commit"
    BY <1>4 DEF Commit, Answer
  <2>2. commits[n] = 0 /\ rows[n] # "NONE"
    BY <1>0, <2>1 DEF CommitInv
  <2>3. commits' = [commits EXCEPT ![n] = 1]
    BY <2>1, <2>2
  <2> QED BY <1>0, <2>1, <2>2, <2>3 DEF CommitInv
<1>5. CASE CommitRejected(r)
  BY <1>0, <1>5, AnswerKeepsCommits DEF CommitRejected, Answer, gatewayVars
<1>6. CASE RecordCommit(r)
  BY <1>0, <1>6, AnswerKeepsCommits DEF RecordCommit, Answer, gatewayVars
<1>7. CASE UndoSubmit(r)
  <2>1. /\ requests' = [requests EXCEPT ![r] = "retry"] /\ commits' = commits
        /\ rows' = rows \/ rows' = [rows EXCEPT ![n] = "ONCHAIN_FAILED"]
    BY <1>7 DEF UndoSubmit, Answer
  <2> QED BY <1>0, <2>1 DEF CommitInv
<1>8. CASE Lose(r)
  BY <1>0, <1>8, AnswerKeepsCommits DEF Lose, Answer, gatewayVars
<1> QED BY <1>1, <1>2, <1>3, <1>4, <1>5, <1>6, <1>7, <1>8 DEF Serve

LEMMA ClientStepKeepsCommits ==
    ClientTypeInv /\ CommitInv /\ [ClientNext]_sdkVars => CommitInv'
<1> SUFFICES ASSUME ClientTypeInv, CommitInv, [ClientNext]_sdkVars PROVE CommitInv'
  OBVIOUS
<1>1. ASSUME UNCHANGED <<requests, rows, commits, accepted>> PROVE CommitInv'
  BY <1>1 DEF CommitInv
<1>2. ASSUME NEW t \in Threads, get_next_nonce(t) \/ set_nonce(t) \/ FlushFails(t) \/ ClientStep(t),
             ~Send(t), ~ReceiveOk(t)
      PROVE  UNCHANGED <<requests, rows, commits, accepted>>
  BY <1>2 DEF get_next_nonce, set_nonce, FlushFails, ClientStep, flush, flush_set, build,
              ReceiveError, Retry, gatewayVars
<1>3. ASSUME NEW t \in Threads, Send(t) PROVE CommitInv'
  <2>1. /\ Request(t) \in Orders \X Attempts
        /\ requests' = [requests EXCEPT ![Request(t)] = "sent"]
        /\ UNCHANGED <<commits, rows, accepted>>
    BY <1>3 DEF Send, Request, gatewayVars, ClientTypeInv, ClientTypeOK, BusyHasNonce
  <2> QED BY <2>1, AnswerKeepsCommits
<1>4. ASSUME NEW t \in Threads, ReceiveOk(t) PROVE CommitInv'
  <2>1. /\ threads[t].nonce \in Orders /\ threads[t].attempt \in Attempts
        /\ requests[<<threads[t].nonce, threads[t].attempt>>] = "ok"
        /\ accepted' = accepted \cup {threads[t].nonce}
        /\ UNCHANGED <<requests, rows, commits>>
    BY <1>4 DEF ReceiveOk, Request, gatewayVars, ClientTypeInv, ClientTypeOK, BusyHasNonce
  <2> QED BY <2>1 DEF CommitInv
<1>5. CASE Crash \/ with_persistence
  BY <1>1, <1>5 DEF Crash, with_persistence, gatewayVars
<1>6. CASE UNCHANGED sdkVars
  BY <1>1, <1>6 DEF sdkVars, gatewayVars
<1> QED BY <1>1, <1>2, <1>3, <1>4, <1>5, <1>6, ServiceKeepsCommits DEF ClientNext

\* However often requests are repeated, an order is committed at most once, and Ok means it was.
THEOREM OrdersAreCommittedOnce == ClientSpec => []CommittedOnce
<1>1. ClientInit => ClientTypeInv /\ CommitInv
  BY ClientInitTypes, ClientInitCommits
<1>2. ClientTypeInv /\ CommitInv /\ [ClientNext]_sdkVars => (ClientTypeInv /\ CommitInv)'
  BY ClientStepKeepsTypes, ClientStepKeepsCommits
<1>3. CommitInv => CommittedOnce
  BY DEF CommitInv, CommittedOnce
<1> QED BY <1>1, <1>2, <1>3, PTL DEF ClientSpec
=============================================================================
