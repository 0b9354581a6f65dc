CONSTANTS
    Accounts = {a1, a2}
    TimerIds = {t1, t2, t3}
    NoAccount = NoAccount
    NoTimer = NoTimer
    MaxRemovals = 2
SPECIFICATION FairSpec
INVARIANTS TimersTracked RetryArmed CrashOnlyIfRaced
PROPERTIES RetriesUnlessLost StrangersKept
CHECK_DEADLOCK FALSE
