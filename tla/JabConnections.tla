--------------------------- MODULE JabConnections ---------------------------
(***************************************************************************)
(* The accounts and their reconnection (lib/network/jabconnections.cpp and *)
(* the account methods of jabposter.cpp).  libpurple reports every failed  *)
(* connection to DisconnectReason, which sets a glib timer when the reason *)
(* is transient; the timer, or the news that the network is back, signs    *)
(* the account on again.  RmAccount leaves the deletion to the loop thread. *)
(*                                                                         *)
(* An account is the memory its PurpleAccount lives in, so that a deleted  *)
(* one can come back as a new one: timers and queued deletions hold plain  *)
(* pointers.  The calls of the external interface do not overlap with the  *)
(* callbacks of the loop thread here; module LockStep is about that.       *)
(***************************************************************************)
EXTENDS Integers

CONSTANTS Accounts,     \* addresses of PurpleAccounts
          TimerIds,     \* glib source ids
          NoAccount,
          NoTimer,
          MaxRemovals   \* bound: deletions of one account queued at a time

ASSUME ConnectionsAssumption ==
    /\ NoAccount \notin Accounts
    /\ NoTimer \notin TimerIds
    /\ MaxRemovals \in Nat \ {0}

VARIABLES acct,       \* the connection of the account at an address, or "none"
          cause,      \* why the account is not connected, as reported last
          timers,     \* timeout_signons_, and the timeouts glib knows
          idle,       \* how often delacc is queued for an account
          walk,       \* accounts a loop over all accounts still has before it
          walker,     \* what that loop does to them
          lost,       \* history: the last report came from within SignOn
          asked,      \* history: RmAccount was called for this account
          raced,      \* history: an account was deleted with a timer running, or
                      \* removed again before the first deletion had run
          crashed     \* freed memory was used: anything may happen, we stop here

vars == <<acct, cause, timers, idle, walk, walker, lost, asked, raced, crashed>>

Outcomes == {"connecting", "transient", "fatal"}

TimerTables == [signons : [Accounts -> TimerIds \cup {NoTimer}],
                source  : [TimerIds -> Accounts \cup {NoAccount}]]

AccountsOK ==
    /\ acct \in [Accounts -> {"none", "offline", "connecting", "online", "closing"}]
    /\ cause \in [Accounts -> {"none", "transient", "fatal"}]
    /\ timers \in TimerTables
    /\ walk \subseteq {a \in Accounts : acct[a] # "none"}
    /\ walker \in {"status", "network"}

HistoryOK ==
    /\ lost \in [Accounts -> BOOLEAN]
    /\ asked \in [Accounts -> BOOLEAN]
    /\ raced \in BOOLEAN
    /\ crashed \in BOOLEAN

TypeOK == AccountsOK /\ HistoryOK /\ idle \in [Accounts -> 0 .. MaxRemovals]

\* The constructor loads the saved accounts and activates their saved status, which
\* connects them one after the other.
Init ==
    /\ acct \in [Accounts -> {"none", "offline"}]
    /\ cause = [a \in Accounts |-> "none"]
    /\ timers = [signons |-> [a \in Accounts |-> NoTimer],
                 source  |-> [i \in TimerIds |-> NoAccount]]
    /\ idle = [a \in Accounts |-> 0]
    /\ walk = {a \in Accounts : acct[a] = "offline"}
    /\ walker = "status"
    /\ lost = [a \in Accounts |-> FALSE]
    /\ asked = [a \in Accounts |-> FALSE]
    /\ raced = FALSE
    /\ crashed = FALSE

-----------------------------------------------------------------------------
(* Timers *)

\* Mutant: the value is deleted, the timeout goes on.
FreeTimeouts_KeepsSource(tm, a) == tm.source

\* What destroying a's entry of timeout_signons_ leaves of the timeouts.
FreeTimeouts(tm, a) ==
    [i \in TimerIds |-> IF i = tm.signons[a] THEN NoAccount ELSE tm.source[i]]

\* g_timeout_add, and g_hash_table_insert, which destroys the entry it replaces.
SetTimer(tm, a, i) ==
    [signons |-> [tm.signons EXCEPT ![a] = i],
     source  |-> [FreeTimeouts(tm, a) EXCEPT ![i] = a]]

\* g_hash_table_remove
DropTimer(tm, a) ==
    [signons |-> [tm.signons EXCEPT ![a] = NoTimer], source |-> FreeTimeouts(tm, a)]

\* A timeout ends when its callback returns FALSE.
Ended(tm, ids) ==
    [tm EXCEPT !.source = [i \in TimerIds |-> IF i \in ids THEN NoAccount ELSE @[i]]]

NewIds == {i \in TimerIds : timers.source[i] = NoAccount}

\* Mutant: the fatal ones are retried instead.
Reported_Fatal(tm, a, r, i) == IF r = "fatal" THEN SetTimer(tm, a, i) ELSE tm

\* DisconnectReason(a, r): a timer, unless the reason is fatal.
Reported(tm, a, r, i) == IF r = "transient" THEN SetTimer(tm, a, i) ELSE tm

-----------------------------------------------------------------------------
(* libpurple *)

\* purple_account_connect, which does nothing unless the account is disconnected; a
\* connection may fail before the call returns, and is reported at once.
Connect(a, r) ==
    IF acct[a] = "offline"
    THEN /\ acct' = [acct EXCEPT ![a] = IF r = "connecting" THEN r ELSE "closing"]
         /\ cause' = [cause EXCEPT ![a] = IF r = "connecting" THEN "none" ELSE r]
    ELSE UNCHANGED <<acct, cause>>

\* Connect, and the timer its report sets, if any.
ReportOf(tm, a, r, i) == IF acct[a] = "offline" THEN Reported(tm, a, r, i) ELSE tm

\* The loop thread, and the thread in lock-step with it, are between two callbacks.
Free == walk = {} /\ ~crashed

ConnectionConnected(a) ==
    /\ Free
    /\ acct[a] = "connecting"
    /\ acct' = [acct EXCEPT ![a] = "online"]
    /\ UNCHANGED <<cause, timers, idle, walk, walker, lost, asked, raced, crashed>>

DisconnectReason(a) ==
    /\ Free
    /\ acct[a] \in {"connecting", "online"}
    /\ acct' = [acct EXCEPT ![a] = "closing"]
    /\ \E r \in {"transient", "fatal"}, i \in NewIds :
          /\ cause' = [cause EXCEPT ![a] = r]
          /\ timers' = Reported(timers, a, r, i)
    /\ lost' = [lost EXCEPT ![a] = FALSE]
    /\ UNCHANGED <<idle, walk, walker, asked, raced, crashed>>

\* libpurple takes a connection down after it has been reported.
Disconnected(a) ==
    /\ Free
    /\ acct[a] = "closing"
    /\ acct' = [acct EXCEPT ![a] = "offline"]
    /\ UNCHANGED <<cause, timers, idle, walk, walker, lost, asked, raced, crashed>>

-----------------------------------------------------------------------------
(* Signing on *)

\* SignOn connects and then drops the account's timer - the new one, if the connection
\* has failed at once.
SignOnTimers(tm, a, r, i) == DropTimer(ReportOf(tm, a, r, i), a)

\* SignOn; glib forgets the timeouts in ended when it returns.
SignOn(a, ended) ==
    \E r \in Outcomes, i \in NewIds :
        /\ Connect(a, r)
        /\ timers' = Ended(SignOnTimers(timers, a, r, i), ended)
        /\ lost' = [lost EXCEPT ![a] = IF acct[a] = "offline" THEN r = "transient" ELSE @]

\* The timer of w_SignOn fires.  RECON_DELAY_MIN is long enough for libpurple to have
\* taken the old connection down.
TimerFires(i) ==
    /\ Free
    /\ timers.source[i] # NoAccount
    /\ LET a == timers.source[i] IN
          /\ acct[a] # "closing"
          /\ IF acct[a] = "none"
             THEN crashed' = TRUE /\ UNCHANGED <<acct, cause, timers, lost>>
             ELSE SignOn(a, {i}) /\ UNCHANGED crashed
    /\ UNCHANGED <<idle, walk, walker, asked, raced>>

Present == {a \in Accounts : acct[a] # "none"}

\* NetworkConnected goes over all active accounts ...
NetworkConnected ==
    /\ Free
    /\ walk' = Present
    /\ walker' = "network"
    /\ UNCHANGED <<acct, cause, timers, idle, lost, asked, raced, crashed>>

\* ... and signs on those that are disconnected.
NetworkVisit(a) ==
    /\ a \in walk
    /\ walker = "network"
    /\ walk' = walk \ {a}
    /\ IF acct[a] = "offline" THEN SignOn(a, {}) ELSE UNCHANGED <<acct, cause, timers, lost>>
    /\ UNCHANGED <<idle, walker, asked, raced, crashed>>

\* purple_savedstatus_activate connects the accounts that are disconnected.  Failing
\* is reported as always.
StatusVisit(a) ==
    /\ a \in walk
    /\ walker = "status"
    /\ walk' = walk \ {a}
    /\ \E r \in Outcomes, i \in NewIds :
          /\ Connect(a, r)
          /\ timers' = ReportOf(timers, a, r, i)
    /\ lost' = [lost EXCEPT ![a] = IF acct[a] = "offline" THEN FALSE ELSE @]
    /\ UNCHANGED <<idle, walker, asked, raced, crashed>>

-----------------------------------------------------------------------------
(* The external interface *)

\* AddJabber, AddGtalk, AddBonjour: a new PurpleAccount, enabled, and a new status
\* activated for all accounts.
AddAccount(a) ==
    /\ Free
    /\ acct[a] = "none"
    /\ acct' = [acct EXCEPT ![a] = "offline"]
    /\ cause' = [cause EXCEPT ![a] = "none"]
    /\ lost' = [lost EXCEPT ![a] = FALSE]
    /\ asked' = [asked EXCEPT ![a] = FALSE]
    /\ walk' = Present \cup {a}
    /\ walker' = "status"
    /\ UNCHANGED <<timers, idle, raced, crashed>>

\* RmAccount: purple_accounts_find, and g_idle_add(delacc, account)
RmAccount(a) ==
    /\ Free
    /\ acct[a] # "none"
    /\ idle[a] < MaxRemovals
    /\ idle' = [idle EXCEPT ![a] = @ + 1]
    /\ asked' = [asked EXCEPT ![a] = TRUE]
    /\ raced' = (raced \/ idle[a] > 0)
    /\ UNCHANGED <<acct, cause, timers, walk, walker, lost, crashed>>

\* Mutant: delacc returns TRUE.
DelaccQueue_Stays(a) == idle' = idle

\* delacc returns FALSE: glib takes it off the queue.
DelaccQueue(a) == idle' = [idle EXCEPT ![a] = @ - 1]

\* delacc: purple_accounts_delete, timer or not.
Delacc(a) ==
    /\ Free
    /\ idle[a] > 0
    /\ DelaccQueue(a)
    /\ crashed' = (acct[a] = "none")
    /\ acct' = [acct EXCEPT ![a] = "none"]
    /\ raced' = (raced \/ timers.signons[a] # NoTimer)
    /\ UNCHANGED <<cause, timers, walk, walker, lost, asked>>

-----------------------------------------------------------------------------

AccountNext(a) ==
    \/ ConnectionConnected(a) \/ DisconnectReason(a) \/ Disconnected(a)
    \/ NetworkVisit(a) \/ StatusVisit(a)
    \/ AddAccount(a) \/ RmAccount(a) \/ Delacc(a)

Next ==
    \/ \E a \in Accounts : AccountNext(a)
    \/ \E i \in TimerIds : TimerFires(i)
    \/ NetworkConnected

Spec == Init /\ [][Next]_vars

\* A loop over the accounts ends; libpurple takes reported connections down; glib
\* dispatches a timeout that is due however often other sources are ready.
FairSpec ==
    /\ Spec
    /\ \A a \in Accounts : WF_vars(NetworkVisit(a)) /\ WF_vars(StatusVisit(a))
    /\ \A a \in Accounts : SF_vars(Disconnected(a))
    /\ \A i \in TimerIds : SF_vars(TimerFires(i))

-----------------------------------------------------------------------------
(* Properties *)

\* timeout_signons_ and glib agree: every timeout of w_SignOn is the entry of its
\* account, and every entry is a timeout that is still to come.  So an account is
\* never signed on by two timers, and FreeTimeouts never removes a source that is
\* gone (or somebody else's).
TimersTracked ==
    /\ \A i \in TimerIds : timers.source[i] # NoAccount => timers.signons[timers.source[i]] = i
    /\ \A a \in Accounts : timers.signons[a] # NoTimer => timers.source[timers.signons[a]] = a

Unconnected(a) == acct[a] \in {"closing", "offline"}

\* An account that a transient failure has disconnected has a timer to sign it on
\* again, unless the failure was reported from within SignOn, which drops the timer
\* just set (jabconnections.cpp:41).
RetryArmed ==
    \A a \in Accounts :
        Unconnected(a) /\ cause[a] = "transient" /\ ~lost[a] => timers.signons[a] # NoTimer

\* Such an account does not stay disconnected: it is tried again (the attempt may
\* fail, at once even) or removed.
RetriesUnlessLost ==
    \A a \in Accounts :
        (acct[a] = "offline" /\ cause[a] = "transient" /\ ~lost[a])
            ~> (acct[a] # "offline" \/ crashed)

\* Freed memory is used only after one of two races of RmAccount: against a timer
\* still holding the account, or against itself.
CrashOnlyIfRaced == crashed => raced

\* No account is deleted that nobody asked to delete: a queued deletion does not hit
\* the account that got the memory of its own - again but for the races.
StrangersKept ==
    [][\A a \in Accounts :
          acct[a] # "none" /\ acct'[a] = "none" => asked[a] \/ raced]_vars
=============================================================================
