-------------------------- MODULE LockStep_proofs --------------------------
(***************************************************************************)
(* The safety properties of LockStep, for any number of calling threads.   *)
(***************************************************************************)
EXTENDS LockStep, FiniteSetTheorems, TLAPS

\* The one permit there is before any trywait has failed: lying there, with the boss
\* that took it, or with the loop thread.
OnePermit ==
    intact =>
        \/ spinner = 1 /\ InFlight = {} /\ loop \notin {"repost", "self"}
        \/ spinner = 0 /\ (\E b \in Bosses : InFlight = {b}) /\ loop \notin {"repost", "self"}
        \/ spinner = 0 /\ InFlight = {} /\ loop \in {"repost", "self"}

\* A boss that came while the loop could be approached will find a permit, or has it.
CleanWaits ==
    \A b \in Bosses : intact /\ clean[b] =>
        /\ pc[b] = "checkboss" => loop \in {"idle", "callback"} \/ (loop = "wait" /\ boss > 0)
        /\ pc[b] = "inside" => loop = "wait"

PermitsOut == spinner + Cardinality(InFlight) + (IF loop = "repost" THEN 1 ELSE 0)

Bounded == PermitsOut <= Cardinality(Bosses) + 1

IndInv ==
    TypeOK /\ PermitOnlyWhilePolled /\ OnePermit /\ CleanWaits /\ Bounded

-----------------------------------------------------------------------------
(* Types *)

SemaphoresOK ==
    /\ boss \in 0 .. 1
    /\ spinner \in Nat
    /\ loop \in LoopPC
    /\ pc \in [Bosses -> BossPC]

HistoryOK == took \in [Bosses -> BOOLEAN] /\ clean \in [Bosses -> BOOLEAN] /\ intact \in BOOLEAN

\* The steps of the loop thread, which leave the bosses where they are.
LEMMA LoopLeaves == LoopNext => UNCHANGED <<pc, took, clean>>
BY DEF LoopNext, Poll, Callback, CallbackDone, RequestAuthorize, PostBoss, WaitSpinner,
       PostSpinner, TryBoss, LoopGo

\* The permit for bosses is never there twice, as the loop takes it back in time.
LEMMA SemaphoresStep ==
    ASSUME SemaphoresOK, PermitOnlyWhilePolled, [Next]_vars
    PROVE  SemaphoresOK' /\ PermitOnlyWhilePolled'
<1> USE DEF SemaphoresOK, PermitOnlyWhilePolled, LoopPC, BossPC, LoopGo
<1>1. CASE Callback \/ CallbackDone \/ RequestAuthorize
      BY <1>1 DEF Callback, CallbackDone, RequestAuthorize
<1>2. CASE PostBoss \/ TryBoss
      BY <1>2 DEF PostBoss, TryBoss
<1>3. CASE WaitSpinner \/ PostSpinner
      BY <1>3 DEF WaitSpinner, PostSpinner
<1>4. ASSUME NEW b \in Bosses, LockSpinner(b)
      PROVE  SemaphoresOK' /\ PermitOnlyWhilePolled'
      BY <1>4 DEF LockSpinner
<1>5. ASSUME NEW b \in Bosses, CheckBoss(b)
      PROVE  SemaphoresOK' /\ PermitOnlyWhilePolled'
      BY <1>5 DEF CheckBoss
<1>6. ASSUME NEW b \in Bosses, UnlockSpinner(b)
      PROVE  SemaphoresOK' /\ PermitOnlyWhilePolled'
      BY <1>6 DEF UnlockSpinner
<1>7. CASE UNCHANGED vars
      BY <1>7 DEF vars
<1>8. QED
      BY <1>1, <1>2, <1>3, <1>4, <1>5, <1>6, <1>7 DEF Next, LoopNext, Poll, BossNext

LEMMA HistoryStep == HistoryOK /\ [Next]_vars => HistoryOK'
<1> SUFFICES ASSUME HistoryOK, [Next]_vars PROVE HistoryOK'
    OBVIOUS
<1> USE DEF HistoryOK
<1>1. CASE LoopNext
  <2>1. intact' \in BOOLEAN
        BY <1>1 DEF LoopNext, Poll, Callback, CallbackDone, RequestAuthorize, PostBoss,
                    WaitSpinner, PostSpinner, TryBoss
  <2>2. QED
        BY <1>1, <2>1, LoopLeaves
<1>2. ASSUME NEW b \in Bosses, BossNext(b)
      PROVE  HistoryOK'
  <2>1. took' \in [Bosses -> BOOLEAN]
    <3>1. CASE took' = [took EXCEPT ![b] = spinner > 0]
      <4>1. (spinner > 0) \in BOOLEAN
            OBVIOUS
      <4>2. QED
            BY <3>1, <4>1, Zenon
    <3>2. CASE took' = [took EXCEPT ![b] = FALSE] \/ took' = took
          BY <3>2
    <3>3. QED
          BY <1>2, <3>1, <3>2 DEF BossNext, LockSpinner, CheckBoss, UnlockSpinner
  <2>2. clean' \in [Bosses -> BOOLEAN]
        BY <1>2, Zenon DEF BossNext, LockSpinner, CheckBoss, UnlockSpinner, Approachable
  <2>3. intact' \in BOOLEAN
        BY <1>2, Zenon DEF BossNext, LockSpinner, CheckBoss, UnlockSpinner
  <2>4. QED
        BY <2>1, <2>2, <2>3
<1>3. CASE UNCHANGED vars
      BY <1>3 DEF vars
<1>4. QED
      BY <1>1, <1>2, <1>3 DEF Next

-----------------------------------------------------------------------------
(* Who is in flight *)

\* A boss enters the interface, goes on inside it, and leaves it.
LEMMA FlightStep ==
    ASSUME SemaphoresOK, NEW b \in Bosses
    PROVE  /\ LockSpinner(b) => b \notin InFlight /\ InFlight' = InFlight \cup {b}
           /\ CheckBoss(b) => InFlight' = InFlight
           /\ UnlockSpinner(b) => b \in InFlight /\ InFlight' = InFlight \ {b}
BY DEF SemaphoresOK, InFlight, LockSpinner, CheckBoss, UnlockSpinner, BossPC

LEMMA FlightCount ==
    /\ IsFiniteSet(InFlight)
    /\ Cardinality(InFlight) \in Nat
    /\ Cardinality(Bosses) \in Nat
    /\ Cardinality(InFlight) <= Cardinality(Bosses)
BY LockStepAssumption, FS_Subset, FS_CardinalityType DEF InFlight

\* Of the bosses in flight, some took a permit and the others missed it.
LEMMA TookOrMissed == Cardinality(InFlight) = Cardinality(Took) + Cardinality(Missed)
<1>1. Took \subseteq InFlight /\ Missed \subseteq InFlight
      BY DEF Took, Missed
<1>2. IsFiniteSet(Took) /\ IsFiniteSet(Missed)
      BY <1>1, FlightCount, FS_Subset
<1>3. InFlight = Took \cup Missed /\ Took \cap Missed = {}
      BY DEF Took, Missed
<1>4. Cardinality(InFlight) = Cardinality(Took) + Cardinality(Missed) - Cardinality({})
      BY <1>2, <1>3, FS_Union
<1>5. QED
      BY <1>2, <1>4, FS_EmptySet, FS_CardinalityType

-----------------------------------------------------------------------------
(* The permits of the spinner *)

LEMMA BoundedStep ==
    ASSUME SemaphoresOK, Bounded, [Next]_vars
    PROVE  Bounded'
<1> USE FlightCount DEF SemaphoresOK, Bounded, PermitsOut, LoopGo
<1>1. CASE LoopNext
  <2>1. InFlight' = InFlight
        BY <1>1, LoopLeaves DEF InFlight
  <2>2. CASE Callback \/ CallbackDone \/ PostBoss \/ TryBoss
        BY <2>1, <2>2 DEF Callback, CallbackDone, PostBoss, TryBoss
  <2>3. CASE RequestAuthorize
        BY <2>1, <2>3 DEF RequestAuthorize
  <2>4. CASE WaitSpinner \/ PostSpinner
        BY <2>1, <2>4 DEF WaitSpinner, PostSpinner
  <2>5. QED
        BY <1>1, <2>2, <2>3, <2>4 DEF LoopNext, Poll
<1>2. ASSUME NEW b \in Bosses, LockSpinner(b)
      PROVE  Bounded'
  <2>1. /\ Cardinality(InFlight') = Cardinality(InFlight) + 1
        /\ Cardinality(InFlight') <= Cardinality(Bosses)
    <3>1. b \notin InFlight /\ InFlight' = InFlight \cup {b}
          BY <1>2, FlightStep
    <3>2. InFlight' \subseteq Bosses
          BY DEF InFlight
    <3>3. QED
          BY <3>1, <3>2, FS_AddElement, FS_Subset, LockStepAssumption
  <2>2. QED
        BY <1>2, <2>1 DEF LockSpinner
<1>3. ASSUME NEW b \in Bosses, CheckBoss(b)
      PROVE  Bounded'
      BY <1>3, FlightStep DEF CheckBoss
<1>4. ASSUME NEW b \in Bosses, UnlockSpinner(b)
      PROVE  Bounded'
  <2>1. Cardinality(InFlight') = Cardinality(InFlight) - 1
        BY <1>4, FlightStep, FS_RemoveElement
  <2>2. QED
        BY <1>4, <2>1 DEF UnlockSpinner
<1>5. CASE UNCHANGED vars
      BY <1>5 DEF vars, InFlight
<1>6. QED
      BY <1>1, <1>2, <1>3, <1>4, <1>5 DEF Next, BossNext

\* While no trywait has failed the one permit is handed round.
LEMMA OnePermitStep ==
    ASSUME SemaphoresOK, OnePermit, [Next]_vars
    PROVE  OnePermit'
<1> SUFFICES ASSUME intact'
             PROVE  \/ spinner' = 1 /\ InFlight' = {} /\ loop' \notin {"repost", "self"}
                    \/ spinner' = 0 /\ (\E b \in Bosses : InFlight' = {b})
                                   /\ loop' \notin {"repost", "self"}
                    \/ spinner' = 0 /\ InFlight' = {} /\ loop' \in {"repost", "self"}
    BY DEF OnePermit
<1>1. CASE LoopNext
  <2>1. InFlight' = InFlight
        BY <1>1, LoopLeaves DEF InFlight
  <2>2. CASE Callback \/ CallbackDone \/ PostBoss \/ TryBoss
        BY <2>1, <2>2 DEF OnePermit, Callback, CallbackDone, PostBoss, TryBoss, LoopGo
  <2>3. CASE RequestAuthorize
    <3>1. intact /\ spinner > 0
          BY <2>3 DEF RequestAuthorize
    <3>2. QED
          BY <2>1, <2>3, <3>1 DEF OnePermit, RequestAuthorize, LoopGo
  <2>4. CASE WaitSpinner
    <3>1. spinner = 1 /\ InFlight = {}
          BY <2>4 DEF OnePermit, WaitSpinner
    <3>2. spinner' = 0 /\ loop' = "repost"
          BY <2>4, <3>1 DEF WaitSpinner, LoopGo
    <3>3. QED
          BY <2>1, <3>1, <3>2
  <2>5. CASE PostSpinner
    <3>1. spinner = 0 /\ InFlight = {}
          BY <2>5 DEF OnePermit, PostSpinner, LoopGo
    <3>2. spinner' = 1 /\ loop' = "tryboss"
          BY <2>5, <3>1 DEF PostSpinner, LoopGo
    <3>3. QED
          BY <2>1, <3>1, <3>2
  <2>6. QED
        BY <1>1, <2>2, <2>3, <2>4, <2>5 DEF LoopNext, Poll
<1>2. ASSUME NEW b \in Bosses, LockSpinner(b)
      PROVE  OnePermit'
  <2>1. intact /\ spinner > 0
        BY <1>2 DEF LockSpinner
  <2>2. spinner = 1 /\ InFlight = {} /\ loop \notin {"repost", "self"}
        BY <2>1 DEF OnePermit
  <2>3. spinner' = 0 /\ loop' = loop
        BY <1>2, <2>2 DEF LockSpinner
  <2>4. InFlight' = {b}
        BY <1>2, <2>2, FlightStep
  <2>5. QED
        BY <2>2, <2>3, <2>4 DEF OnePermit
<1>3. ASSUME NEW b \in Bosses, CheckBoss(b)
      PROVE  OnePermit'
      BY <1>3, FlightStep DEF OnePermit, CheckBoss
<1>4. ASSUME NEW b \in Bosses, UnlockSpinner(b)
      PROVE  OnePermit'
  <2>1. intact /\ b \in InFlight
        BY <1>4, FlightStep DEF UnlockSpinner
  <2>2. spinner = 0 /\ InFlight = {b} /\ loop \notin {"repost", "self"}
        BY <2>1 DEF OnePermit
  <2>3. spinner' = 1 /\ loop' = loop
        BY <1>4, <2>2 DEF UnlockSpinner
  <2>4. InFlight' = {}
        BY <1>4, <2>2, FlightStep
  <2>5. QED
        BY <2>2, <2>3, <2>4 DEF OnePermit
<1>5. CASE UNCHANGED vars
      BY <1>5 DEF vars, InFlight, OnePermit
<1>6. QED
      BY <1>1, <1>2, <1>3, <1>4, <1>5 DEF Next, BossNext, OnePermit

\* The offer made to a clean boss stays open, as the permit the loop would need to go
\* on is the one this boss has.
LEMMA CleanStep ==
    ASSUME IndInv, [Next]_vars
    PROVE  CleanWaits'
<1> SUFFICES ASSUME NEW c \in Bosses, intact', clean'[c]
             PROVE  /\ pc'[c] = "checkboss" =>
                          loop' \in {"idle", "callback"} \/ (loop' = "wait" /\ boss' > 0)
                    /\ pc'[c] = "inside" => loop' = "wait"
    BY DEF CleanWaits
<1> DEFINE Kept == /\ pc'[c] = "checkboss" =>
                          loop' \in {"idle", "callback"} \/ (loop' = "wait" /\ boss' > 0)
                   /\ pc'[c] = "inside" => loop' = "wait"
<1>0. /\ boss \in 0 .. 1
      /\ spinner \in Nat
      /\ loop \in LoopPC
      /\ pc \in [Bosses -> BossPC]
      BY DEF IndInv, TypeOK
<1>1. ASSUME intact, clean[c], pc[c] # "out"
      PROVE  /\ spinner = 0 /\ InFlight = {c}
             /\ pc[c] = "checkboss" => loop \in {"idle", "callback"} \/ (loop = "wait" /\ boss > 0)
             /\ pc[c] = "inside" => loop = "wait"
  <2>1. c \in InFlight
        BY <1>1 DEF InFlight
  <2>2. QED
        BY <1>0, <1>1, <2>1 DEF IndInv, OnePermit, CleanWaits, BossPC
<1>2. CASE LoopNext
  <2>1. intact /\ (RequestAuthorize => spinner > 0)
        BY <1>2 DEF LoopNext, Poll, Callback, CallbackDone, RequestAuthorize, PostBoss,
                    WaitSpinner, PostSpinner, TryBoss
  <2>2. UNCHANGED <<pc, clean>>
        BY <1>2, LoopLeaves
  <2>3. CASE pc[c] = "out"
        BY <2>2, <2>3
  <2>4. CASE pc[c] # "out"
    <3>1. spinner = 0 /\ loop \in {"idle", "callback", "wait"}
          BY <1>0, <1>1, <2>1, <2>2, <2>4 DEF BossPC
    <3>2. ~WaitSpinner
          BY <3>1 DEF WaitSpinner
    <3>3. ~PostSpinner /\ ~TryBoss
          BY <3>1 DEF PostSpinner, TryBoss, LoopGo
    <3>4. ~RequestAuthorize
          BY <2>1, <3>1
    <3>5. CASE Callback \/ CallbackDone
          BY <1>0, <1>1, <2>1, <2>2, <2>4, <3>5 DEF Callback, CallbackDone, LoopGo
    <3>6. CASE PostBoss
          BY <1>0, <1>1, <2>1, <2>2, <2>4, <3>6 DEF PostBoss, LoopGo
    <3>7. QED
          BY <1>2, <3>2, <3>3, <3>4, <3>5, <3>6 DEF LoopNext, Poll
  <2>5. QED
        BY <2>3, <2>4
<1>3. ASSUME NEW b \in Bosses, LockSpinner(b)
      PROVE  Kept
  <2>1. intact /\ spinner > 0
        BY <1>3 DEF LockSpinner
  <2>2. CASE c = b
    <3>1. pc'[c] = "checkboss" /\ Approachable
          BY <1>0, <1>3, <2>2 DEF LockSpinner, IndInv, TypeOK
    <3>2. loop' = loop /\ boss' = boss
          BY <1>3 DEF LockSpinner
    <3>3. QED
          BY <3>1, <3>2 DEF Approachable
  <2>3. CASE c # b
    <3>1. pc[c] = "out"
          BY <2>1 DEF IndInv, OnePermit, InFlight
    <3>2. QED
          BY <1>0, <1>3, <2>3, <3>1 DEF LockSpinner
  <2>4. QED
        BY <2>2, <2>3
<1>4. ASSUME NEW b \in Bosses, CheckBoss(b)
      PROVE  Kept
  <2>1. intact /\ clean[c] /\ loop' = loop /\ boss > 0
        BY <1>4 DEF CheckBoss
  <2>2. b \in InFlight
        BY <1>4 DEF CheckBoss, InFlight
  <2>3. CASE pc[c] = "out"
        BY <1>0, <1>4, <2>3 DEF CheckBoss
  <2>4. CASE pc[c] # "out"
    <3>1. b = c
          BY <1>1, <2>1, <2>2, <2>4
    <3>2. loop = "wait"
          BY <1>1, <1>4, <2>1, <2>4, <3>1 DEF CheckBoss, IndInv, PermitOnlyWhilePolled
    <3>3. pc'[c] = "inside"
          BY <1>0, <1>4, <3>1 DEF CheckBoss
    <3>4. QED
          BY <2>1, <3>2, <3>3
  <2>5. QED
        BY <2>3, <2>4
<1>5. ASSUME NEW b \in Bosses, UnlockSpinner(b)
      PROVE  Kept
  <2>1. intact /\ b \in InFlight
        BY <1>5 DEF UnlockSpinner, InFlight
  <2>2. CASE c = b
        BY <1>0, <1>5, <2>2 DEF UnlockSpinner
  <2>3. CASE c # b
    <3>1. pc[c] = "out"
          BY <2>1, <2>3 DEF IndInv, OnePermit, InFlight
    <3>2. QED
          BY <1>0, <1>5, <2>3, <3>1 DEF UnlockSpinner
  <2>4. QED
        BY <2>2, <2>3
<1>6. CASE UNCHANGED vars
      BY <1>6 DEF vars, IndInv, CleanWaits
<1>7. QED
      BY <1>2, <1>3, <1>4, <1>5, <1>6 DEF Next, BossNext

-----------------------------------------------------------------------------

LEMMA InitInv == Init => IndInv
<1> SUFFICES ASSUME Init PROVE IndInv
    OBVIOUS
<1>1. SemaphoresOK
      BY DEF Init, SemaphoresOK, LoopPC, BossPC
<1>2. HistoryOK
      BY DEF Init, HistoryOK
<1>3. InFlight = {}
      BY DEF Init, InFlight
<1>4. PermitOnlyWhilePolled /\ OnePermit /\ CleanWaits
      BY <1>3 DEF Init, PermitOnlyWhilePolled, OnePermit, CleanWaits
<1>5. Bounded
      BY <1>3, FlightCount, FS_EmptySet DEF Init, Bounded, PermitsOut
<1>6. QED
      BY <1>1, <1>2, <1>4, <1>5 DEF IndInv, TypeOK, SemaphoresOK, HistoryOK

LEMMA Inductive == Spec => []IndInv
<1>1. ASSUME IndInv, [Next]_vars
      PROVE  IndInv'
  <2>1. SemaphoresOK /\ HistoryOK
        BY <1>1 DEF IndInv, TypeOK, SemaphoresOK, HistoryOK
  <2>2. SemaphoresOK' /\ PermitOnlyWhilePolled' /\ OnePermit' /\ Bounded'
        BY <1>1, <2>1, SemaphoresStep, OnePermitStep, BoundedStep DEF IndInv
  <2>3. HistoryOK' /\ CleanWaits'
        BY <1>1, <2>1, HistoryStep, CleanStep
  <2>4. QED
        BY <2>2, <2>3 DEF IndInv, TypeOK, SemaphoresOK, HistoryOK
<1>2. QED
      BY InitInv, <1>1, PTL DEF Spec

-----------------------------------------------------------------------------

\* The semaphores stay what they are meant to be: boss is binary.
THEOREM TypeCorrect == Spec => []TypeOK
<1>1. IndInv => TypeOK
      BY DEF IndInv
<1>2. QED
      BY Inductive, <1>1, PTL

\* CheckSpinner takes back every permit it has posted and nobody has used, before the
\* loop goes on.
THEOREM OnlyPolled == Spec => []PermitOnlyWhilePolled
<1>1. IndInv => PermitOnlyWhilePolled
      BY DEF IndInv
<1>2. QED
      BY Inductive, <1>1, PTL

\* LockSpinner's ignored failures add no more permits than there are threads.
THEOREM StrayPermitsBounded == Spec => []PermitsBounded
<1>1. IndInv => PermitsBounded
  <2> SUFFICES ASSUME IndInv PROVE PermitsBounded
      OBVIOUS
  <2>1. IsFiniteSet(Took) /\ IsFiniteSet(Missed)
    <3>1. Took \subseteq InFlight /\ Missed \subseteq InFlight
          BY DEF Took, Missed
    <3>2. QED
          BY <3>1, FlightCount, FS_Subset
  <2>2. Cardinality(Took) \in Nat /\ Cardinality(Missed) \in Nat
        BY <2>1, FS_CardinalityType
  <2>3. spinner \in Nat
        BY DEF IndInv, TypeOK
  <2>4. QED
        BY <2>2, <2>3, TookOrMissed, FlightCount
        DEF IndInv, Bounded, PermitsOut, PermitsBounded, Permits
<1>2. QED
      BY Inductive, <1>1, PTL

\* A caller that comes at the right time, while no LockSpinner has failed, has the loop
\* thread standing still - for any number of other callers.
THEOREM CleanEntry == Spec => []CleanEntryExcludes
<1>1. IndInv => CleanEntryExcludes
  <2> SUFFICES ASSUME IndInv, NEW b \in Bosses, intact, clean[b], pc[b] = "inside"
               PROVE  loop = "wait" /\ spinner = 0
      BY DEF CleanEntryExcludes
  <2>1. b \in InFlight
        BY DEF InFlight
  <2>2. QED
        BY <2>1 DEF IndInv, CleanWaits, OnePermit
<1>2. QED
      BY Inductive, <1>1, PTL
=============================================================================
