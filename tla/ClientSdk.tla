----------------------------- MODULE ClientSdk -----------------------------
(***************************************************************************)
(* client-sdk/src: an application whose threads take nonces from one       *)
(* NonceTracker, which keeps them in a file, build orders from them and    *)
(* submit them with GatewayClient, which repeats a POST that fails; and    *)
(* the gateway's submit_intent as these repeated requests meet it.         *)
(* GatewayLedger has the other handlers of the gateway.  A request may     *)
(* still be served when its client has given it up and sent the next one.  *)
(***************************************************************************)
EXTENDS Naturals, Sequences

CONSTANTS Threads,
          auto_flush,
          max_retries,
          NoFile, Torn,    \* the file does not exist; it was emptied and not yet written
          MaxNonce,        \* bound: the largest nonce
          MaxCrashes       \* bound: crashes of the application

ASSUME ClientAssumption ==
    /\ auto_flush \in BOOLEAN
    /\ {max_retries, MaxNonce, MaxCrashes} \subseteq Nat
    /\ NoFile \notin Nat /\ Torn \notin Nat /\ NoFile # Torn

\* An order is told by its nonce, of which its intent_id is a hash.
Orders == 1..MaxNonce

Attempts == 0..max_retries

VARIABLES
    nonces,       \* the tracker's nonce of the one user
    file,         \* the nonce in the file
    process,      \* the application: "up" or "down"
    threads,      \* where each thread is, with the nonce and the attempt it is at
    requests,     \* how far each request is, by order and attempt
    rows,         \* the gateway's row of each order
    user_nonces,  \* the gateway's used nonces
    returned,     \* history: the nonces get_next_nonce has returned
    commits,      \* history: the commitment transactions the node took, by order
    accepted,     \* history: the orders submit_intent returned Ok for
    crashes       \* history: the number of crashes

trackerVars == <<nonces, file, returned>>
gatewayVars == <<rows, user_nonces, commits>>
sdkVars == <<trackerVars, process, threads, requests, gatewayVars, accepted, crashes>>

IdleThread == [at |-> "idle", nonce |-> 0, attempt |-> 0]

Answers == {"ok", "refused", "retry"}
InService == {"sent", "commit", "record", "undo"}

ClientTypeOK ==
    /\ nonces \in 0..MaxNonce
    /\ file \in (0..MaxNonce) \cup {NoFile, Torn}
    /\ process \in {"up", "down"}
    /\ threads \in [Threads -> [at : {"idle", "flush", "save", "build", "post", "wait"},
                                nonce : 0..MaxNonce, attempt : Attempts]]
    /\ requests \in [Orders \X Attempts -> {"none", "lost"} \cup InService \cup Answers]
    /\ rows \in [Orders -> {"NONE", "PENDING", "ONCHAIN_FAILED"}]
    /\ user_nonces \subseteq Orders
    /\ returned \in Seq(Orders)
    /\ commits \in [Orders -> Nat]
    /\ accepted \subseteq Orders
    /\ crashes \in 0..MaxCrashes

ClientInit ==
    /\ nonces = 0
    /\ file = NoFile
    /\ process = "up"
    /\ threads = [t \in Threads |-> IdleThread]
    /\ requests = [r \in Orders \X Attempts |-> "none"]
    /\ rows = [n \in Orders |-> "NONE"]
    /\ user_nonces = {}
    /\ returned = <<>>
    /\ commits = [n \in Orders |-> 0]
    /\ accepted = {}
    /\ crashes = 0

-----------------------------------------------------------------------------
(* nonce_tracker.rs: the lock is given back between counting and flushing, and held *)
(* while the file is written.                                                       *)

get_next_nonce(t) ==
    /\ process = "up"
    /\ threads[t].at = "idle"
    /\ nonces < MaxNonce                             \* bound
    /\ nonces' = nonces + 1
    /\ threads' = [threads EXCEPT ![t].at = "flush", ![t].nonce = nonces + 1]
    /\ UNCHANGED <<file, returned, process, requests, gatewayVars, accepted, crashes>>

\* The application sets what it never had to go back to.
set_nonce(t) ==
    /\ process = "up"
    /\ threads[t].at = "idle"
    /\ \E n \in nonces + 1..MaxNonce : nonces' = n
    /\ threads' = [threads EXCEPT ![t].at = "save"]
    /\ UNCHANGED <<file, returned, process, requests, gatewayVars, accepted, crashes>>

\* Mutant: a thread writes the nonce it has counted to.
MutantFlushed(t) == threads[t].nonce

\* The whole map, as it is now.
Flushed(t) == nonces

Save(t) == file' = IF auto_flush THEN Flushed(t) ELSE file

\* get_next_nonce returns.
flush(t) ==
    /\ threads[t].at = "flush"
    /\ Save(t)
    /\ threads' = [threads EXCEPT ![t].at = "build"]
    /\ returned' = Append(returned, threads[t].nonce)
    /\ UNCHANGED <<nonces, process, requests, gatewayVars, accepted, crashes>>

\* set_nonce returns.
flush_set(t) ==
    /\ threads[t].at = "save"
    /\ Save(t)
    /\ threads' = [threads EXCEPT ![t] = IdleThread]
    /\ UNCHANGED <<nonces, returned, process, requests, gatewayVars, accepted, crashes>>

\* The nonce is counted, and not returned.
FlushFails(t) ==
    /\ auto_flush
    /\ threads[t].at \in {"flush", "save"}
    /\ file' \in {file, Torn}
    /\ threads' = [threads EXCEPT ![t] = IdleThread]
    /\ UNCHANGED <<nonces, returned, process, requests, gatewayVars, accepted, crashes>>

\* A crash in the middle of fs::write leaves an empty file.
Crash ==
    /\ process = "up"
    /\ crashes < MaxCrashes                          \* bound
    /\ process' = "down"
    /\ crashes' = crashes + 1
    /\ nonces' = 0
    /\ threads' = [t \in Threads |-> IdleThread]
    /\ file' \in IF auto_flush /\ \E t \in Threads : threads[t].at \in {"flush", "save"}
                 THEN {file, Torn} ELSE {file}
    /\ UNCHANGED <<returned, requests, gatewayVars, accepted>>

\* load_nonce_map: a file that cannot be parsed is an error.
Loaded == CASE file = NoFile -> {0} [] file = Torn -> {} [] OTHER -> {file}

with_persistence ==
    /\ process = "down"
    /\ nonces' \in Loaded
    /\ process' = "up"
    /\ UNCHANGED <<file, returned, threads, requests, gatewayVars, accepted, crashes>>

-----------------------------------------------------------------------------
(* intent_builder.rs and gateway_client.rs *)

Request(t) == <<threads[t].nonce, threads[t].attempt>>

EndCall(t) == threads' = [threads EXCEPT ![t] = IdleThread]

\* The builder may refuse the order; its nonce is not used again.
build(t) ==
    /\ threads[t].at = "build"
    /\ threads' = [threads EXCEPT ![t].at = "post"] \/ EndCall(t)
    /\ UNCHANGED <<trackerVars, process, requests, gatewayVars, accepted, crashes>>

Send(t) ==
    /\ threads[t].at = "post"
    /\ threads' = [threads EXCEPT ![t].at = "wait"]
    /\ requests' = [requests EXCEPT ![Request(t)] = "sent"]
    /\ UNCHANGED <<trackerVars, process, gatewayVars, accepted, crashes>>

\* Mutant: attempts are not counted.
MutantTryAgain(t) == threads' = [threads EXCEPT ![t].at = "post"]

\* After a delay, which nothing depends on.
TryAgain(t) ==
    IF threads[t].attempt < max_retries
    THEN threads' = [threads EXCEPT ![t].at = "post", ![t].attempt = @ + 1]
    ELSE EndCall(t)

ReceiveOk(t) ==
    /\ threads[t].at = "wait"
    /\ requests[Request(t)] = "ok"
    /\ EndCall(t)
    /\ accepted' = accepted \cup {threads[t].nonce}
    /\ UNCHANGED <<trackerVars, process, requests, gatewayVars, crashes>>

\* A 4xx other than 429, or a body that cannot be read.
ReceiveError(t) ==
    /\ threads[t].at = "wait"
    /\ requests[Request(t)] \in {"ok", "refused"}
    /\ EndCall(t)
    /\ UNCHANGED <<trackerVars, process, requests, gatewayVars, accepted, crashes>>

\* A 429 or 5xx is repeated, and so is a request that fails or takes too long.
Retry(t) ==
    /\ threads[t].at = "wait"
    /\ requests[Request(t)] \notin {"ok", "refused"}
    /\ TryAgain(t)
    /\ UNCHANGED <<trackerVars, process, requests, gatewayVars, accepted, crashes>>

ClientStep(t) ==
    flush(t) \/ flush_set(t) \/ build(t) \/ Send(t) \/ ReceiveOk(t) \/ ReceiveError(t) \/ Retry(t)

-----------------------------------------------------------------------------
(* submit_intent in the gateway *)

Answer(r, answer) == requests' = [requests EXCEPT ![r] = answer]

Elsewhere == UNCHANGED <<trackerVars, process, threads, accepted, crashes>>

\* Mutant: the row of an order is written over.
MutantIsNew(n) == n \notin user_nonces

\* Both insertions ON CONFLICT DO NOTHING must insert.
IsNew(n) == n \notin user_nonces /\ rows[n] = "NONE"

Store(r) ==
    LET n == r[1] IN
    /\ requests[r] = "sent"
    /\ IF IsNew(n)
       THEN /\ user_nonces' = user_nonces \cup {n}
            /\ rows' = [rows EXCEPT ![n] = "PENDING"]
            /\ Answer(r, "commit")
       ELSE Answer(r, "refused") /\ UNCHANGED <<rows, user_nonces>>
    /\ UNCHANGED commits
    /\ Elsewhere

\* Rejected for its deadline or its signature, or by the rate limit or the database.
Reject(r) ==
    /\ requests[r] = "sent"
    /\ \E answer \in {"refused", "retry"} : Answer(r, answer)
    /\ UNCHANGED gatewayVars
    /\ Elsewhere

Commit(r) ==
    /\ requests[r] = "commit"
    /\ commits' = [commits EXCEPT ![r[1]] = @ + 1]
    /\ Answer(r, "record") \/ Answer(r, "undo")      \* the node's answer may be lost
    /\ UNCHANGED <<rows, user_nonces>>
    /\ Elsewhere

CommitRejected(r) ==
    /\ requests[r] = "commit"
    /\ Answer(r, "undo")
    /\ UNCHANGED gatewayVars
    /\ Elsewhere

\* The hash is stored, or the database fails.
RecordCommit(r) ==
    /\ requests[r] = "record"
    /\ Answer(r, "ok") \/ Answer(r, "retry")
    /\ UNCHANGED gatewayVars
    /\ Elsewhere

\* 502; errors of the database are ignored.
UndoSubmit(r) ==
    /\ requests[r] = "undo"
    /\ Answer(r, "retry")
    /\ \/ /\ rows' = [rows EXCEPT ![r[1]] = "ONCHAIN_FAILED"]
          /\ user_nonces' = user_nonces \ {r[1]}
       \/ UNCHANGED <<rows, user_nonces>>
    /\ UNCHANGED commits
    /\ Elsewhere

\* The request or its answer is lost, or its handler ends with the connection.
Lose(r) ==
    /\ requests[r] \in InService \cup {"ok", "refused"}
    /\ Answer(r, "lost")
    /\ UNCHANGED gatewayVars
    /\ Elsewhere

Serve(r) ==
    \/ Store(r) \/ Reject(r) \/ Commit(r) \/ CommitRejected(r)
    \/ RecordCommit(r) \/ UndoSubmit(r) \/ Lose(r)

ClientNext ==
    \/ \E t \in Threads : get_next_nonce(t) \/ set_nonce(t) \/ FlushFails(t) \/ ClientStep(t)
    \/ \E r \in Orders \X Attempts : Serve(r)
    \/ Crash \/ with_persistence

\* Threads run, and reqwest gives a request up after timeout_seconds, which is not 0.
ClientFairness == \A t \in Threads : WF_sdkVars(ClientStep(t))

ClientSpec == ClientInit /\ [][ClientNext]_sdkVars /\ ClientFairness

-----------------------------------------------------------------------------
(* Properties. *)

\* With auto_flush no nonce is returned twice: not to two threads, whatever the order in
\* which they count and flush, and not after a crash or a failed write of the file.
NonceReturnedOnce ==
    auto_flush => \A j, k \in DOMAIN returned : j # k => returned[j] # returned[k]

\* However often its POST is repeated, and although a request that was given up may still
\* be served, at most one commitment is sent for an order, and Ok means one was.
CommittedOnce ==
    /\ \A n \in Orders : commits[n] <= 1
    /\ \A n \in accepted : commits[n] = 1

\* Every call comes back to the application, whatever the gateway does with its requests.
EveryCallReturns == \A t \in Threads : threads[t].at # "idle" ~> threads[t].at = "idle"
=============================================================================
