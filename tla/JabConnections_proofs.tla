----------------------- MODULE JabConnections_proofs -----------------------
(***************************************************************************)
(* The safety properties of JabConnections, for any number of accounts,    *)
(* timer ids and queued deletions.                                         *)
(***************************************************************************)
EXTENDS JabConnections, TLAPS

-----------------------------------------------------------------------------
(* The timer operations *)

\* TimersTracked, of any pair of tables.
Tracked(tm) ==
    /\ \A i \in TimerIds : tm.source[i] # NoAccount => tm.signons[tm.source[i]] = i
    /\ \A a \in Accounts : tm.signons[a] # NoTimer => tm.source[tm.signons[a]] = a

\* What a call made for account a does to the tables: they stay tables that agree, and
\* the entries of other accounts stay.
OnlyFor(a, tm, new) ==
    /\ new \in TimerTables
    /\ Tracked(new)
    /\ \A b \in Accounts \ {a} : new.signons[b] = tm.signons[b]

\* A new timer replaces the account's old one and keeps the tables in agreement.
LEMMA SetTimerFacts ==
    ASSUME NEW tm \in TimerTables, Tracked(tm), NEW a \in Accounts,
           NEW i \in TimerIds, tm.source[i] = NoAccount
    PROVE  OnlyFor(a, tm, SetTimer(tm, a, i)) /\ SetTimer(tm, a, i).signons[a] = i
<1> DEFINE new == SetTimer(tm, a, i)
<1>1. new \in TimerTables
      BY DEF TimerTables, SetTimer, FreeTimeouts
<1>2. \A b \in Accounts : new.signons[b] = IF b = a THEN i ELSE tm.signons[b]
      BY DEF TimerTables, SetTimer
<1>3. \A j \in TimerIds : new.source[j] = IF j = i THEN a
                            ELSE IF j = tm.signons[a] THEN NoAccount ELSE tm.source[j]
      BY DEF TimerTables, SetTimer, FreeTimeouts
<1>4. Tracked(new)
      BY <1>1, <1>2, <1>3, ConnectionsAssumption DEF Tracked, TimerTables
<1>5. QED
      BY <1>1, <1>2, <1>4 DEF OnlyFor

\* Removing an entry removes its timeout, and nobody else's.
LEMMA DropTimerFacts ==
    ASSUME NEW tm \in TimerTables, Tracked(tm), NEW a \in Accounts
    PROVE  /\ OnlyFor(a, tm, DropTimer(tm, a))
           /\ DropTimer(tm, a).signons[a] = NoTimer
           /\ \A i \in TimerIds :
                 tm.source[i] \in {a, NoAccount} => DropTimer(tm, a).source[i] = NoAccount
<1> DEFINE new == DropTimer(tm, a)
<1>1. new \in TimerTables
      BY DEF TimerTables, DropTimer, FreeTimeouts
<1>2. \A b \in Accounts : new.signons[b] = IF b = a THEN NoTimer ELSE tm.signons[b]
      BY DEF TimerTables, DropTimer
<1>3. \A j \in TimerIds :
         new.source[j] = IF j = tm.signons[a] THEN NoAccount ELSE tm.source[j]
      BY DEF TimerTables, DropTimer, FreeTimeouts
<1>4. Tracked(new)
      BY <1>1, <1>2, <1>3, ConnectionsAssumption DEF Tracked, TimerTables
<1>5. \A i \in TimerIds : tm.source[i] \in {a, NoAccount} => new.source[i] = NoAccount
      BY <1>3, ConnectionsAssumption DEF Tracked, TimerTables
<1>6. QED
      BY <1>1, <1>2, <1>4, <1>5 DEF OnlyFor

\* A report sets a timer exactly for a transient failure.
LEMMA ReportedFacts ==
    ASSUME NEW tm \in TimerTables, Tracked(tm), NEW a \in Accounts, NEW r,
           NEW i \in TimerIds, tm.source[i] = NoAccount
    PROVE  /\ OnlyFor(a, tm, Reported(tm, a, r, i))
           /\ r = "transient" => Reported(tm, a, r, i).signons[a] = i
<1>1. OnlyFor(a, tm, tm)
      BY DEF OnlyFor
<1>2. QED
      BY <1>1, SetTimerFacts DEF Reported

\* SignOn leaves its account without a timer, also the one it was called from.
LEMMA SignOnFacts ==
    ASSUME NEW tm \in TimerTables, Tracked(tm), NEW a \in Accounts, NEW r,
           NEW i \in TimerIds, tm.source[i] = NoAccount,
           NEW ended, ended \subseteq {j \in TimerIds : tm.source[j] = a},
           NEW new, new = Ended(SignOnTimers(tm, a, r, i), ended)
    PROVE  OnlyFor(a, tm, new) /\ new.signons[a] = NoTimer
<1> DEFINE mid == ReportOf(tm, a, r, i)
           end == DropTimer(mid, a)
<1>1. OnlyFor(a, tm, mid)
  <2>1. OnlyFor(a, tm, tm)
        BY DEF OnlyFor
  <2>2. QED
        BY <2>1, ReportedFacts DEF ReportOf
<1>2. /\ OnlyFor(a, mid, end)
      /\ end.signons[a] = NoTimer
      /\ \A j \in TimerIds : mid.source[j] \in {a, NoAccount} => end.source[j] = NoAccount
      BY <1>1, DropTimerFacts DEF OnlyFor
<1>3. \A j \in ended : mid.source[j] \in {a, NoAccount}
      BY DEF ReportOf, Reported, SetTimer, FreeTimeouts, TimerTables
<1>4. \A j \in ended : end.source[j] = NoAccount
      BY <1>2, <1>3
<1>5. new = end
  <2> HIDE DEF mid, end
  <2>1. end \in TimerTables
        BY <1>2 DEF OnlyFor
  <2>2. [j \in TimerIds |-> IF j \in ended THEN NoAccount ELSE end.source[j]] = end.source
        BY <2>1, <1>4 DEF TimerTables
  <2>3. new = [end EXCEPT !.source =
                   [j \in TimerIds |-> IF j \in ended THEN NoAccount ELSE @[j]]]
        BY DEF Ended, SignOnTimers, mid, end
  <2>4. QED
        BY <2>1, <2>2, <2>3 DEF TimerTables
<1>6. QED
      BY <1>1, <1>2, <1>5 DEF OnlyFor

-----------------------------------------------------------------------------
(* The inductive invariant *)

\* While no deletion has raced, nothing is left of a deleted account: no timer and no
\* further deletion.
DeletedForgotten ==
    /\ crashed => raced
    /\ raced \/ \A a \in Accounts : acct[a] = "none" => timers.signons[a] = NoTimer
    /\ raced \/ \A a \in Accounts : acct[a] = "none" => idle[a] = 0
    /\ raced \/ \A a \in Accounts : idle[a] <= 1

\* A queued deletion was asked for by the owner of the account it will hit.
QueuedAsked ==
    \A a \in Accounts : idle[a] # 0 /\ acct[a] # "none" => asked[a] \/ raced

IndInv == TypeOK /\ TimersTracked /\ RetryArmed /\ DeletedForgotten /\ QueuedAsked

LEMMA InitInv == Init => IndInv
<1> SUFFICES ASSUME Init PROVE IndInv
    OBVIOUS
<1>1. AccountsOK /\ TimersTracked
      BY ConnectionsAssumption DEF Init, AccountsOK, TimerTables, TimersTracked
<1>2. HistoryOK
      BY DEF Init, HistoryOK
<1>3. idle \in [Accounts -> 0 .. MaxRemovals]
      BY ConnectionsAssumption DEF Init
<1>4. RetryArmed
      BY DEF Init, RetryArmed
<1>5. DeletedForgotten /\ QueuedAsked
      BY DEF Init, DeletedForgotten, QueuedAsked
<1>6. QED
      BY <1>1, <1>2, <1>3, <1>4, <1>5 DEF IndInv, TypeOK

\* SignOn of an account that is there, as TimerFires and NetworkVisit call it.
LEMMA SignOnStep ==
    ASSUME AccountsOK, TimersTracked, RetryArmed, NEW a \in Accounts, acct[a] # "none",
           NEW ended, ended \subseteq {i \in TimerIds : timers.source[i] = a},
           acct[a] # "closing", lost \in [Accounts -> BOOLEAN], SignOn(a, ended)
    PROVE  /\ acct' \in [Accounts -> {"none", "offline", "connecting", "online", "closing"}]
           /\ cause' \in [Accounts -> {"none", "transient", "fatal"}]
           /\ \A b \in Accounts : acct'[b] = "none" <=> acct[b] = "none"
           /\ OnlyFor(a, timers, timers')
           /\ timers'.signons[a] = NoTimer
           /\ RetryArmed'
<1>1. PICK r \in Outcomes, i \in NewIds :
         /\ Connect(a, r)
         /\ timers' = Ended(SignOnTimers(timers, a, r, i), ended)
         /\ lost' = [lost EXCEPT ![a] = IF acct[a] = "offline" THEN r = "transient" ELSE @]
      BY DEF SignOn
<1>2. OnlyFor(a, timers, timers') /\ timers'.signons[a] = NoTimer
  <2>1. timers \in TimerTables /\ Tracked(timers)
        BY DEF AccountsOK, TimersTracked, Tracked
  <2>2. i \in TimerIds /\ timers.source[i] = NoAccount
        BY DEF NewIds
  <2>3. QED
        BY <1>1, <2>1, <2>2, SignOnFacts
<1>3. acct' \in [Accounts -> {"none", "offline", "connecting", "online", "closing"}]
      BY <1>1 DEF Connect, AccountsOK
<1>4. cause' \in [Accounts -> {"none", "transient", "fatal"}]
      BY <1>1 DEF Connect, AccountsOK, Outcomes
<1>5. \A b \in Accounts : acct'[b] = "none" <=> acct[b] = "none"
      BY <1>1 DEF Connect, AccountsOK
<1>6. RetryArmed'
  <2> SUFFICES ASSUME NEW b \in Accounts, Unconnected(b)', cause'[b] = "transient", ~lost'[b]
               PROVE  timers'.signons[b] # NoTimer
      BY DEF RetryArmed
  <2>1. CASE b # a
    <3>1. acct'[b] = acct[b] /\ cause'[b] = cause[b]
          BY <1>1, <2>1 DEF Connect, AccountsOK
    <3>2. ~lost[b]
          BY <1>1, <2>1
    <3>3. timers'.signons[b] = timers.signons[b]
          BY <1>2, <2>1 DEF OnlyFor
    <3>4. QED
          BY <3>1, <3>2, <3>3 DEF RetryArmed, Unconnected
  <2>2. CASE b = a /\ acct[a] = "offline"
    <3>1. lost'[a] = (r = "transient")
          BY <1>1, <2>2
    <3>2. r # "transient"
          BY <2>2, <3>1
    <3>3. cause'[a] # "transient"
          BY <1>1, <2>2, <3>2 DEF Connect, AccountsOK
    <3>4. QED
          BY <2>2, <3>3
  <2>3. CASE b = a /\ acct[a] # "offline"
        BY <1>1, <2>3 DEF Connect, Unconnected
  <2>4. QED
        BY <2>1, <2>2, <2>3
<1>7. QED
      BY <1>2, <1>3, <1>4, <1>5, <1>6

\* The steps of libpurple and of glib; the others are the external interface's.
LoopStep ==
    \/ \E a \in Accounts :
          \/ ConnectionConnected(a) \/ DisconnectReason(a) \/ Disconnected(a)
          \/ NetworkVisit(a) \/ StatusVisit(a)
    \/ \E i \in TimerIds : TimerFires(i)
    \/ NetworkConnected

\* What such a step leaves as it was: no account comes or goes, and an address without
\* an account gets no timer; only a timer that holds a deleted account crashes.
Settled ==
    /\ \A b \in Accounts : acct'[b] = "none" <=> acct[b] = "none"
    /\ \A b \in Accounts : acct[b] = "none" => timers'.signons[b] = timers.signons[b]
    /\ crashed' => crashed \/ \E b \in Accounts : acct[b] = "none" /\ timers.signons[b] # NoTimer
    /\ UNCHANGED <<idle, asked, raced>>

\* The steps of the loop keep the tables in agreement and the retries armed.
LEMMA LoopStepInv ==
    ASSUME AccountsOK, TimersTracked, RetryArmed, lost \in [Accounts -> BOOLEAN], LoopStep
    PROVE  AccountsOK' /\ TimersTracked' /\ RetryArmed' /\ Settled
<1> USE DEF Settled
<1>0. timers \in TimerTables /\ Tracked(timers)
      BY DEF AccountsOK, TimersTracked, Tracked
<1>1. ASSUME NEW a \in Accounts, ConnectionConnected(a) \/ Disconnected(a)
      PROVE  AccountsOK' /\ TimersTracked' /\ RetryArmed' /\ Settled
  <2>1. AccountsOK' /\ Settled
        BY <1>1 DEF ConnectionConnected, Disconnected, AccountsOK
  <2>2. TimersTracked'
        BY <1>1 DEF ConnectionConnected, Disconnected, TimersTracked
  <2>3. RetryArmed'
        BY <1>1 DEF ConnectionConnected, Disconnected, AccountsOK, RetryArmed, Unconnected
  <2>4. QED
        BY <2>1, <2>2, <2>3
<1>2. ASSUME NEW a \in Accounts, DisconnectReason(a)
      PROVE  AccountsOK' /\ TimersTracked' /\ RetryArmed' /\ Settled
  <2>1. PICK r \in {"transient", "fatal"}, i \in NewIds :
           cause' = [cause EXCEPT ![a] = r] /\ timers' = Reported(timers, a, r, i)
        BY <1>2 DEF DisconnectReason
  <2>2. OnlyFor(a, timers, timers') /\ (r = "transient" => timers'.signons[a] = i)
        BY <1>0, <2>1, ReportedFacts DEF NewIds
  <2>3. AccountsOK' /\ TimersTracked'
        BY <1>2, <2>1, <2>2 DEF DisconnectReason, AccountsOK, OnlyFor, Tracked, TimersTracked
  <2>4. RetryArmed'
    <3>1. i # NoTimer
          BY ConnectionsAssumption DEF NewIds
    <3>2. \A b \in Accounts \ {a} :
             acct'[b] = acct[b] /\ cause'[b] = cause[b] /\ lost'[b] = lost[b]
          BY <1>2, <2>1 DEF DisconnectReason, AccountsOK
    <3>3. cause'[a] = r
          BY <2>1 DEF AccountsOK
    <3>4. QED
          BY <2>2, <3>1, <3>2, <3>3 DEF RetryArmed, Unconnected, OnlyFor
  <2>5. Settled
        BY <1>2, <2>2 DEF DisconnectReason, AccountsOK, OnlyFor
  <2>6. QED
        BY <2>3, <2>4, <2>5
<1>3. ASSUME NEW a \in Accounts, NetworkVisit(a)
      PROVE  AccountsOK' /\ TimersTracked' /\ RetryArmed' /\ Settled
  <2>1. acct[a] # "none"
        BY <1>3 DEF NetworkVisit, AccountsOK
  <2>2. CASE acct[a] = "offline"
    <3>1. SignOn(a, {})
          BY <1>3, <2>2 DEF NetworkVisit
    <3>2. /\ acct' \in [Accounts -> {"none", "offline", "connecting", "online", "closing"}]
          /\ cause' \in [Accounts -> {"none", "transient", "fatal"}]
          /\ \A b \in Accounts : acct'[b] = "none" <=> acct[b] = "none"
          /\ OnlyFor(a, timers, timers')
          /\ RetryArmed'
          BY <2>1, <2>2, <3>1, SignOnStep
    <3>3. AccountsOK' /\ TimersTracked'
          BY <1>3, <3>2 DEF NetworkVisit, AccountsOK, OnlyFor, Tracked, TimersTracked
    <3>4. Settled
          BY <1>3, <2>1, <3>2 DEF NetworkVisit, OnlyFor
    <3>5. QED
          BY <3>2, <3>3, <3>4
  <2>3. CASE acct[a] # "offline"
    <3>1. UNCHANGED <<acct, cause, timers, lost, idle, walker, asked, raced, crashed>>
          BY <1>3, <2>3 DEF NetworkVisit
    <3>2. walk' \subseteq walk
          BY <1>3 DEF NetworkVisit
    <3>3. QED
          BY <3>1, <3>2 DEF AccountsOK, TimersTracked, RetryArmed, Unconnected
  <2>4. QED
        BY <2>2, <2>3
<1>4. ASSUME NEW a \in Accounts, StatusVisit(a)
      PROVE  AccountsOK' /\ TimersTracked' /\ RetryArmed' /\ Settled
  <2>1. PICK r \in Outcomes, i \in NewIds :
           Connect(a, r) /\ timers' = ReportOf(timers, a, r, i)
        BY <1>4 DEF StatusVisit
  <2>2. acct[a] # "none"
        BY <1>4 DEF StatusVisit, AccountsOK
  <2>3. CASE acct[a] = "offline"
    <3>1. OnlyFor(a, timers, timers') /\ (r = "transient" => timers'.signons[a] = i)
          BY <1>0, <2>1, <2>3, ReportedFacts DEF NewIds, ReportOf
    <3>2. AccountsOK' /\ TimersTracked'
          BY <1>4, <2>1, <2>3, <3>1
          DEF StatusVisit, Connect, Outcomes, AccountsOK, OnlyFor, Tracked, TimersTracked
    <3>3. RetryArmed'
      <4>1. i # NoTimer
            BY ConnectionsAssumption DEF NewIds
      <4>2. \A b \in Accounts \ {a} :
               acct'[b] = acct[b] /\ cause'[b] = cause[b] /\ lost'[b] = lost[b]
            BY <1>4, <2>1, <2>3 DEF StatusVisit, Connect, AccountsOK
      <4>3. cause'[a] = "transient" => r = "transient"
            BY <2>1, <2>3 DEF AccountsOK, Connect
      <4>4. QED
            BY <3>1, <4>1, <4>2, <4>3 DEF RetryArmed, Unconnected, OnlyFor
    <3>4. Settled
          BY <1>4, <2>1, <2>2, <2>3, <3>1 DEF StatusVisit, Connect, AccountsOK, OnlyFor
    <3>5. QED
          BY <3>2, <3>3, <3>4
  <2>4. CASE acct[a] # "offline"
    <3>1. UNCHANGED <<acct, cause, timers, idle, walker, asked, raced, crashed>>
          BY <1>4, <2>1, <2>4 DEF StatusVisit, Connect, ReportOf
    <3>2. walk' \subseteq walk /\ lost' = lost
          BY <1>4, <2>4 DEF StatusVisit
    <3>3. QED
          BY <3>1, <3>2 DEF AccountsOK, TimersTracked, RetryArmed, Unconnected
  <2>5. QED
        BY <2>3, <2>4
<1>5. ASSUME NEW i \in TimerIds, TimerFires(i)
      PROVE  AccountsOK' /\ TimersTracked' /\ RetryArmed' /\ Settled
  <2> DEFINE a == timers.source[i]
  <2>1. a \in Accounts /\ acct[a] # "closing" /\ timers.signons[a] = i
        BY <1>0, <1>5 DEF TimerFires, TimerTables, Tracked
  <2>2. UNCHANGED <<idle, walk, walker, asked, raced>> /\ walk = {}
        BY <1>5 DEF TimerFires, Free
  <2>3. CASE acct[a] = "none"
    <3>1. UNCHANGED <<acct, cause, timers, lost>>
          BY <1>5, <2>3 DEF TimerFires
    <3>2. timers.signons[a] # NoTimer
          BY <2>1, ConnectionsAssumption
    <3>3. QED
          BY <2>1, <2>2, <2>3, <3>1, <3>2
          DEF AccountsOK, TimersTracked, RetryArmed, Unconnected
  <2>4. CASE acct[a] # "none"
    <3>1. SignOn(a, {i}) /\ crashed' = crashed
          BY <1>5, <2>4 DEF TimerFires
    <3>2. /\ acct' \in [Accounts -> {"none", "offline", "connecting", "online", "closing"}]
          /\ cause' \in [Accounts -> {"none", "transient", "fatal"}]
          /\ \A b \in Accounts : acct'[b] = "none" <=> acct[b] = "none"
          /\ OnlyFor(a, timers, timers')
          /\ RetryArmed'
          BY <2>1, <2>4, <3>1, SignOnStep
    <3>3. AccountsOK' /\ TimersTracked'
          BY <2>2, <3>2 DEF AccountsOK, OnlyFor, Tracked, TimersTracked
    <3>4. Settled
          BY <2>2, <2>4, <3>1, <3>2 DEF OnlyFor
    <3>5. QED
          BY <3>2, <3>3, <3>4
  <2>5. QED
        BY <2>3, <2>4
<1>6. CASE NetworkConnected
      BY <1>6 DEF NetworkConnected, Present, AccountsOK, TimersTracked, RetryArmed, Unconnected
<1>7. QED
      BY <1>1, <1>2, <1>3, <1>4, <1>5, <1>6 DEF LoopStep

\* The steps of the external interface: an account comes, is to go, goes.
LEMMA InterfaceStepInv ==
    ASSUME AccountsOK, TimersTracked, RetryArmed, NEW a \in Accounts,
           AddAccount(a) \/ RmAccount(a) \/ Delacc(a)
    PROVE  AccountsOK' /\ TimersTracked' /\ RetryArmed'
<1>1. UNCHANGED timers
      BY DEF AddAccount, RmAccount, Delacc
<1>2. TimersTracked'
      BY <1>1 DEF TimersTracked
<1>3. CASE AddAccount(a)
  <2>1. AccountsOK'
        BY <1>3 DEF AddAccount, Present, AccountsOK
  <2>2. \A b \in Accounts \ {a} : acct'[b] = acct[b] /\ cause'[b] = cause[b] /\ lost'[b] = lost[b]
        BY <1>3 DEF AddAccount, AccountsOK
  <2>3. cause'[a] = "none"
        BY <1>3 DEF AddAccount, AccountsOK
  <2>4. QED
        BY <1>1, <1>2, <2>1, <2>2, <2>3 DEF RetryArmed, Unconnected
<1>4. CASE RmAccount(a)
      BY <1>1, <1>2, <1>4 DEF RmAccount, AccountsOK, RetryArmed, Unconnected
<1>5. CASE Delacc(a)
      BY <1>1, <1>2, <1>5 DEF Delacc, Free, AccountsOK, RetryArmed, Unconnected
<1>6. QED
      BY <1>3, <1>4, <1>5

\* The flags stay flags.
LEMMA HistoryStep == HistoryOK /\ [Next]_vars => HistoryOK'
<1> SUFFICES ASSUME HistoryOK, [Next]_vars PROVE HistoryOK'
    OBVIOUS
<1>1. lost' \in [Accounts -> BOOLEAN]
      BY DEF HistoryOK, Next, AccountNext, ConnectionConnected, DisconnectReason, Disconnected,
             NetworkVisit, StatusVisit, AddAccount, RmAccount, Delacc, TimerFires,
             NetworkConnected, SignOn, vars
<1>2. asked' \in [Accounts -> BOOLEAN]
      BY DEF HistoryOK, Next, AccountNext, ConnectionConnected, DisconnectReason, Disconnected,
             NetworkVisit, StatusVisit, AddAccount, RmAccount, Delacc, TimerFires,
             NetworkConnected, SignOn, vars
<1>3. raced' \in BOOLEAN /\ crashed' \in BOOLEAN
      BY DEF HistoryOK, Next, AccountNext, ConnectionConnected, DisconnectReason, Disconnected,
             NetworkVisit, StatusVisit, AddAccount, RmAccount, Delacc, TimerFires,
             NetworkConnected, SignOn, vars
<1>4. QED
      BY <1>1, <1>2, <1>3 DEF HistoryOK

\* What RmAccount and delacc do to the queue, in numbers.
LEMMA QueueStep ==
    ASSUME idle \in [Accounts -> 0 .. MaxRemovals], NEW a \in Accounts,
           RmAccount(a) \/ Delacc(a)
    PROVE  /\ idle' \in [Accounts -> 0 .. MaxRemovals]
           /\ \A b \in Accounts \ {a} : idle'[b] = idle[b]
           /\ RmAccount(a) => idle[a] > 0 \/ idle'[a] <= 1
           /\ Delacc(a) => idle[a] # 0 /\ (idle[a] <= 1 => idle'[a] = 0)
BY ConnectionsAssumption DEF RmAccount, Delacc, DelaccQueue

\* Races and requests, over the three kinds of step.
LEMMA RaceStep ==
    ASSUME IndInv, [Next]_vars, AccountsOK'
    PROVE  idle' \in [Accounts -> 0 .. MaxRemovals] /\ DeletedForgotten' /\ QueuedAsked'
<1>0. /\ idle \in [Accounts -> 0 .. MaxRemovals]
      /\ acct \in [Accounts -> {"none", "offline", "connecting", "online", "closing"}]
      /\ asked \in [Accounts -> BOOLEAN]
      BY DEF IndInv, TypeOK, AccountsOK, HistoryOK
<1> USE DEF DeletedForgotten, QueuedAsked
<1>1. CASE LoopStep
  <2>1. Settled
        BY <1>1, LoopStepInv DEF IndInv, TypeOK, HistoryOK
  <2>2. QED
        BY <1>0, <2>1 DEF IndInv, Settled
<1>2. ASSUME NEW a \in Accounts, AddAccount(a)
      PROVE  idle' \in [Accounts -> 0 .. MaxRemovals] /\ DeletedForgotten' /\ QueuedAsked'
  <2>1. /\ acct[a] = "none"
        /\ acct'[a] # "none"
        /\ \A b \in Accounts \ {a} : acct'[b] = acct[b] /\ asked'[b] = asked[b]
        /\ UNCHANGED <<timers, idle, raced, crashed>>
        BY <1>0, <1>2 DEF AddAccount
  <2>2. QED
        BY <1>0, <2>1 DEF IndInv
<1>3. ASSUME NEW a \in Accounts, RmAccount(a)
      PROVE  idle' \in [Accounts -> 0 .. MaxRemovals] /\ DeletedForgotten' /\ QueuedAsked'
  <2>1. /\ acct[a] # "none"
        /\ asked'[a]
        /\ \A b \in Accounts \ {a} : asked'[b] = asked[b] /\ idle'[b] = idle[b]
        /\ UNCHANGED <<acct, timers, crashed>>
        BY <1>0, <1>3, QueueStep DEF RmAccount
  <2>2. raced => raced'
        BY <1>3 DEF RmAccount
  <2>3. ~raced' => idle'[a] <= 1
        BY <1>0, <1>3, QueueStep DEF RmAccount
  <2>4. idle' \in [Accounts -> 0 .. MaxRemovals]
        BY <1>0, <1>3, QueueStep
  <2>5. QED
        BY <1>0, <2>1, <2>2, <2>3, <2>4 DEF IndInv
<1>4. ASSUME NEW a \in Accounts, Delacc(a)
      PROVE  idle' \in [Accounts -> 0 .. MaxRemovals] /\ DeletedForgotten' /\ QueuedAsked'
  <2>1. /\ acct'[a] = "none"
        /\ \A b \in Accounts \ {a} : acct'[b] = acct[b] /\ idle'[b] = idle[b]
        /\ UNCHANGED <<timers, asked>>
        BY <1>0, <1>4, QueueStep DEF Delacc
  <2>2. raced => raced'
        BY <1>4 DEF Delacc
  <2>3. ~raced' => timers.signons[a] = NoTimer
        BY <1>4 DEF Delacc
  <2>4. idle' \in [Accounts -> 0 .. MaxRemovals]
        BY <1>0, <1>4, QueueStep
  <2>5. ~raced => idle'[a] = 0 /\ idle'[a] <= 1
        BY <1>0, <1>4, <2>4, QueueStep DEF IndInv
  <2>6. crashed' => raced'
        BY <1>0, <1>4, <2>2, QueueStep DEF Delacc, IndInv
  <2>7. QED
        BY <1>0, <2>1, <2>2, <2>3, <2>4, <2>5, <2>6 DEF IndInv
<1>5. CASE UNCHANGED vars
      BY <1>0, <1>5 DEF vars, IndInv
<1>6. QED
      BY <1>1, <1>2, <1>3, <1>4, <1>5 DEF Next, AccountNext, LoopStep

LEMMA Inductive == Spec => []IndInv
<1>1. ASSUME IndInv, [Next]_vars
      PROVE  IndInv'
  <2>1. AccountsOK' /\ TimersTracked' /\ RetryArmed'
    <3>1. CASE LoopStep
          BY <1>1, <3>1, LoopStepInv DEF IndInv, TypeOK, HistoryOK
    <3>2. CASE \E a \in Accounts : AddAccount(a) \/ RmAccount(a) \/ Delacc(a)
          BY <1>1, <3>2, InterfaceStepInv DEF IndInv, TypeOK
    <3>3. CASE UNCHANGED vars
          BY <1>1, <3>3 DEF vars, IndInv, TypeOK, AccountsOK, TimersTracked, RetryArmed,
                            Unconnected
    <3>4. QED
          BY <1>1, <3>1, <3>2, <3>3 DEF Next, AccountNext, LoopStep
  <2>2. HistoryOK'
        BY <1>1, HistoryStep DEF IndInv, TypeOK
  <2>3. QED
        BY <1>1, <2>1, <2>2, RaceStep DEF IndInv, TypeOK
<1>2. QED
      BY InitInv, <1>1, PTL DEF Spec

-----------------------------------------------------------------------------

\* Every variable keeps its type, for any number of accounts and timers.
THEOREM TypeCorrect == Spec => []TypeOK
<1>1. IndInv => TypeOK
      BY DEF IndInv
<1>2. QED
      BY Inductive, <1>1, PTL

\* timeout_signons_ and the timeouts glib has are each other's inverse.
THEOREM TimersAgree == Spec => []TimersTracked
<1>1. IndInv => TimersTracked
      BY DEF IndInv
<1>2. QED
      BY Inductive, <1>1, PTL

\* DisconnectReason leaves every account that failed transiently with a timer, unless
\* SignOn takes it away.
THEOREM Armed == Spec => []RetryArmed
<1>1. IndInv => RetryArmed
      BY DEF IndInv
<1>2. QED
      BY Inductive, <1>1, PTL

\* Timers and delacc use no deleted account but after one of RmAccount's two races.
THEOREM NoStrayUse == Spec => []CrashOnlyIfRaced
<1>1. IndInv => CrashOnlyIfRaced
      BY DEF IndInv, DeletedForgotten, CrashOnlyIfRaced
<1>2. QED
      BY Inductive, <1>1, PTL

\* delacc deletes only what RmAccount was asked to remove - but for the same races.
THEOREM NoStrayDeletion == Spec => StrangersKept
<1>1. ASSUME IndInv, Next
      PROVE  \A a \in Accounts :
                acct[a] # "none" /\ acct'[a] = "none" => asked[a] \/ raced
  <2> SUFFICES ASSUME NEW b \in Accounts, acct[b] # "none", acct'[b] = "none"
               PROVE  asked[b] \/ raced
      OBVIOUS
  <2>0. acct \in [Accounts -> {"none", "offline", "connecting", "online", "closing"}]
        BY <1>1 DEF IndInv, TypeOK, AccountsOK
  <2>1. ~LoopStep
        BY <1>1, LoopStepInv DEF IndInv, TypeOK, HistoryOK, Settled
  <2>2. PICK a \in Accounts : AddAccount(a) \/ RmAccount(a) \/ Delacc(a)
        BY <1>1, <2>1 DEF Next, AccountNext, LoopStep
  <2>3. Delacc(a) /\ a = b
        BY <2>0, <2>2 DEF AddAccount, RmAccount, Delacc
  <2>4. idle[b] # 0
        BY <1>1, <2>3, QueueStep DEF IndInv, TypeOK
  <2>5. QED
        BY <1>1, <2>4 DEF IndInv, QueuedAsked
<1>2. IndInv /\ [Next]_vars =>
         [\A a \in Accounts : acct[a] # "none" /\ acct'[a] = "none" => asked[a] \/ raced]_vars
      BY <1>1
<1>3. QED
      BY Inductive, <1>2, PTL DEF Spec, StrangersKept
=============================================================================
