--------------------------- MODULE IntentRegistry ---------------------------
(***************************************************************************)
(* contracts/src/intent_registry.cairo: committed intents, their status,   *)
(* the nonces they use and the batch each one was put in.                  *)
(*                                                                         *)
(* An intent id is a hash of all the fields of the intent, so an intent is *)
(* a model value with its fields given by functions.  A commitment or a    *)
(* cancellation without the user's authority (the user is the caller, or   *)
(* its account accepts the signature) reverts and is no step.              *)
(***************************************************************************)
EXTENDS Integers, Sequences, Clock, AssetRegistry

CONSTANTS Intents,
          IntentUser,       \* user of an intent
          IntentNonce,      \* its nonce
          AssetIn, AssetOut,
          Deadline,
          Genesis,          \* genesis_timestamp
          BatchWindow,      \* batch_window_seconds
          BatchIds          \* bound: batch ids that occur until MaxTime

ASSUME RegistryAssumption ==
    /\ Genesis \in Nat /\ Genesis <= StartTime
    /\ BatchWindow \in Nat \ {0}
    /\ Deadline \in [Intents -> Nat]
    /\ AssetIn \in [Intents -> Assets] /\ AssetOut \in [Intents -> Assets]
    /\ BatchIds \subseteq Nat
    /\ \A t \in StartTime..MaxTime : (t - Genesis) \div BatchWindow \in BatchIds

VARIABLES
    status,             \* intent_by_id[i].status
    user_nonces,        \* the <<user, nonce>> pairs in use
    batch_intents,      \* the intents of a batch in the order of commitment
    paused,
    settlementSet       \* batch_settlement_contract is no longer zero

registryVars == <<status, user_nonces, batch_intents, paused, settlementSet, whitelisted>>

IntentStatus == {"NONE", "PENDING", "SETTLED", "CANCELED", "EXPIRED"}

NonceKey == [i \in Intents |-> <<IntentUser[i], IntentNonce[i]>>]

RegistryTypeOK ==
    /\ status \in [Intents -> IntentStatus]
    /\ user_nonces \subseteq {NonceKey[i] : i \in Intents}
    /\ batch_intents \in [BatchIds -> Seq(Intents)]
    /\ paused \in BOOLEAN
    /\ settlementSet \in BOOLEAN
    /\ AssetTypeOK

\* Mutant: a window includes its end.
MutantBatchEndIncluded(t) == (t - Genesis - 1) \div BatchWindow

\* _compute_batch_id.
BatchOf(t) == (t - Genesis) \div BatchWindow

\* The first timestamp that no longer belongs to batch b.
WindowEnd(b) == Genesis + (b + 1) * BatchWindow

\* A registry that does, or does not yet, know the settlement contract.
RegistryInitWith(settlement) ==
    /\ status = [i \in Intents |-> "NONE"]
    /\ user_nonces = {}
    /\ batch_intents = [b \in BatchIds |-> <<>>]
    /\ paused = FALSE
    /\ settlementSet = settlement

RegistryInit == RegistryInitWith(FALSE) /\ AssetInit

-----------------------------------------------------------------------------
\* Mutant: the nonce is checked but not stored.
MutantNonceNotStored(i) ==
    /\ ~paused
    /\ Deadline[i] > now
    /\ NonceKey[i] \notin user_nonces
    /\ {AssetIn[i], AssetOut[i]} \subseteq whitelisted
    /\ status[i] = "NONE"
    /\ status' = [status EXCEPT ![i] = "PENDING"]
    /\ batch_intents' = [batch_intents EXCEPT ![BatchOf(now)] = Append(@, i)]
    /\ UNCHANGED <<user_nonces, paused, settlementSet, whitelisted>>

commit_intent(i) ==
    /\ ~paused
    /\ Deadline[i] > now
    /\ NonceKey[i] \notin user_nonces
    /\ {AssetIn[i], AssetOut[i]} \subseteq whitelisted
    /\ status[i] = "NONE"
    /\ user_nonces' = user_nonces \cup {NonceKey[i]}
    /\ status' = [status EXCEPT ![i] = "PENDING"]
    /\ batch_intents' = [batch_intents EXCEPT ![BatchOf(now)] = Append(@, i)]
    /\ UNCHANGED <<paused, settlementSet, whitelisted>>

EndIntent(i, end) ==
    /\ status[i] = "PENDING"
    /\ status' = [status EXCEPT ![i] = end]
    /\ UNCHANGED <<user_nonces, batch_intents, paused, settlementSet, whitelisted>>

\* Mutant: a cancellation deletes the intent's record.
MutantCancelDeletes(i) == now < Deadline[i] /\ EndIntent(i, "NONE")

\* The intent stays in the list of its batch.
cancel_intent(i) == now < Deadline[i] /\ EndIntent(i, "CANCELED")

\* Mutant: an intent of any status can be settled.
MutantSettleAnyStatus(i) ==
    /\ settlementSet
    /\ status[i] # "NONE"
    /\ status' = [status EXCEPT ![i] = "SETTLED"]
    /\ UNCHANGED <<user_nonces, batch_intents, paused, settlementSet, whitelisted>>

\* Called by the settlement contract.
mark_settled(i) == settlementSet /\ EndIntent(i, "SETTLED")

\* Mutant: an intent expires only after its deadline, as the settlement has it.
MutantExpireAfter(i) == now > Deadline[i] /\ EndIntent(i, "EXPIRED")

\* Anyone may call it.
mark_expired(i) == now >= Deadline[i] /\ EndIntent(i, "EXPIRED")

pause ==
    /\ paused' = TRUE
    /\ UNCHANGED <<status, user_nonces, batch_intents, settlementSet, whitelisted>>

unpause ==
    /\ paused' = FALSE
    /\ UNCHANGED <<status, user_nonces, batch_intents, settlementSet, whitelisted>>

set_batch_settlement_contract ==
    /\ ~settlementSet
    /\ settlementSet' = TRUE
    /\ UNCHANGED <<status, user_nonces, batch_intents, paused, whitelisted>>

RegistryAdminStep ==
    \/ pause
    \/ unpause
    \/ set_batch_settlement_contract
    \/ AssetStep /\ UNCHANGED <<status, user_nonces, batch_intents, paused, settlementSet>>

\* What users and bystanders do.
RegistryUserStep ==
    \E i \in Intents : commit_intent(i) \/ cancel_intent(i) \/ mark_expired(i)

RegistryTick == Tick /\ UNCHANGED registryVars

RegistryNext ==
    \/ /\ RegistryUserStep \/ RegistryAdminStep \/ \E i \in Intents : mark_settled(i)
       /\ UNCHANGED now
    \/ RegistryTick

RegistrySpecInit == ClockInit /\ RegistryInit

RegistrySpec == RegistrySpecInit /\ [][RegistryNext]_<<now, registryVars>>

-----------------------------------------------------------------------------
(* Properties. *)

\* A nonce of a user admits one intent, for ever: commit_intent stores it and no
\* end of the intent frees it.
NonceAdmitsOneIntent ==
    \A i, j \in Intents :
        (i # j /\ status[i] # "NONE" /\ status[j] # "NONE") => NonceKey[i] # NonceKey[j]

\* Every committed intent, however it ended, stands in one place of one batch, and
\* a batch lists nothing else.
CommittedIntentsAreListedOnce ==
    /\ \A i \in Intents :
          status[i] # "NONE" <=>
              \E b \in BatchIds : \E k \in DOMAIN batch_intents[b] : batch_intents[b][k] = i
    /\ \A b, c \in BatchIds :
          \A k \in DOMAIN batch_intents[b], l \in DOMAIN batch_intents[c] :
              batch_intents[b][k] = batch_intents[c][l] => b = c /\ k = l

\* When its window is over a batch's list of intents never changes again, which is
\* what lets the coordinator hand the batch to an auction.
ClosedListUnchanged ==
    \A b \in BatchIds : now >= WindowEnd(b) => batch_intents'[b] = batch_intents[b]

ClosedBatchIsFrozen == [][ClosedListUnchanged]_<<now, registryVars>>

\* A pending intent can be ended at any time, paused or not: cancel_intent and
\* mark_expired leave no timestamp uncovered between them.
PendingCanAlwaysEnd ==
    \A i \in Intents : status[i] = "PENDING" => ENABLED (cancel_intent(i) \/ mark_expired(i))

\* The registry implements the life cycle of IntentLifecycle.
Lifecycle == INSTANCE IntentLifecycle WITH fate <- status, NonceOf <- NonceKey

LifecycleSpec == Lifecycle!Spec
=============================================================================
