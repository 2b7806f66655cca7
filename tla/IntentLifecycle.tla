-------------------------- MODULE IntentLifecycle --------------------------
(***************************************************************************)
(* What the intent registry promises about intents, without batches,       *)
(* assets or time: an intent is committed at most once, a nonce of a user  *)
(* admits one intent, and the end an intent reaches is final.              *)
(***************************************************************************)
CONSTANTS Intents,      \* intents that may be committed
          NonceOf       \* NonceOf[i]: the user and nonce that intent i uses

VARIABLE fate           \* fate[i]: "NONE", "PENDING" or one of Ends

Ends == {"SETTLED", "CANCELED", "EXPIRED"}

Init == fate = [i \in Intents |-> "NONE"]

Commit(i) ==
    /\ \A j \in Intents : NonceOf[j] = NonceOf[i] => fate[j] = "NONE"
    /\ fate' = [fate EXCEPT ![i] = "PENDING"]

End(i) ==
    /\ fate[i] = "PENDING"
    /\ \E e \in Ends : fate' = [fate EXCEPT ![i] = e]

\* A settlement ends several pending intents at once.
SettleMany ==
    \E S \in SUBSET {i \in Intents : fate[i] = "PENDING"} :
        fate' = [i \in Intents |-> IF i \in S THEN "SETTLED" ELSE fate[i]]

Next == (\E i \in Intents : Commit(i) \/ End(i)) \/ SettleMany

Spec == Init /\ [][Next]_fate
=============================================================================
