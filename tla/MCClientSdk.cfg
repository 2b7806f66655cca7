\* Two threads and two nonces, one repetition, one crash.  When the nonces are used
\* up, or the file is torn, nothing may be left to do.
SPECIFICATION ClientSpec
CONSTANTS
    Threads = {t1, t2}
    auto_flush = TRUE
    max_retries = 1
    NoFile = none
    Torn = torn
    MaxNonce = 2
    MaxCrashes = 1
INVARIANTS NonceReturnedOnce CommittedOnce
PROPERTIES EveryCallReturns
CHECK_DEADLOCK FALSE
