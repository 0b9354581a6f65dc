------------------------------ MODULE LockStep ------------------------------
(***************************************************************************)
(* LockStep (lib/network/lockstep.cpp) as JabPoster uses it when built     *)
(* with RPTHREAD_SAFE: every method of the external interface brackets its *)
(* use of libpurple with LockSpinner/CheckBoss and UnlockSpinner, and the  *)
(* libpurple loop thread (the spinner) offers itself for it in CheckSpinner, *)
(* which an idle source calls whenever the loop has nothing better to do.  *)
(* The semaphores are their counts; every sem_ call is a step.             *)
(***************************************************************************)
EXTENDS Integers, FiniteSets

CONSTANT Bosses        \* the threads that call the external interface

ASSUME LockStepAssumption == IsFiniteSet(Bosses)

VARIABLES boss,        \* semaphore: the loop lets somebody in
          spinner,     \* semaphore: the loop may go on
          loop,        \* what the loop thread does next
          pc,          \* per boss: what it does next
          took,        \* history, per boss: its trywait got a spinner permit
          clean,       \* history, per boss: it came outside CheckSpinner, or while a
                       \* boss permit was there for it
          intact       \* history: no trywait on the spinner has failed yet

vars == <<boss, spinner, loop, pc, took, clean, intact>>

LoopPC == {"idle", "callback", "self", "wait", "repost", "tryboss"}
BossPC == {"out", "checkboss", "inside"}

TypeOK ==
    /\ boss \in 0 .. 1
    /\ spinner \in Nat
    /\ loop \in LoopPC
    /\ pc \in [Bosses -> BossPC]
    /\ took \in [Bosses -> BOOLEAN]
    /\ clean \in [Bosses -> BOOLEAN]
    /\ intact \in BOOLEAN

Init ==
    /\ boss = 0
    /\ spinner = 1
    /\ loop = "idle"
    /\ pc = [b \in Bosses |-> "out"]
    /\ took = [b \in Bosses |-> FALSE]
    /\ clean = [b \in Bosses |-> FALSE]
    /\ intact = TRUE

LoopGo(from, to) ==
    /\ loop = from
    /\ loop' = to
    /\ UNCHANGED <<pc, took, clean>>

-----------------------------------------------------------------------------
(* The loop thread *)

\* A libpurple source is dispatched: a timer, a socket, a status change ...
Callback == LoopGo("idle", "callback") /\ UNCHANGED <<boss, spinner, intact>>

CallbackDone == LoopGo("callback", "idle") /\ UNCHANGED <<boss, spinner, intact>>

\* RequestAuthorize calls AddLink, whose LockSpinner runs on the loop thread itself.
\* The CheckBoss that follows waits for a permit that only this thread posts.
RequestAuthorize ==
    /\ LoopGo("callback", "self")
    /\ spinner' = IF spinner > 0 THEN spinner - 1 ELSE spinner
    /\ intact' = (intact /\ spinner > 0)
    /\ UNCHANGED boss

\* Mutant: the post is missing.
PostBoss_Missing == LoopGo("idle", "wait") /\ UNCHANGED <<boss, spinner, intact>>

\* CheckSpinner: sem_post(boss)
PostBoss == LoopGo("idle", "wait") /\ boss' = boss + 1 /\ UNCHANGED <<spinner, intact>>

\* Mutant: trywait instead of wait.
WaitSpinner_Try ==
    /\ LoopGo("wait", "repost")
    /\ spinner' = IF spinner > 0 THEN spinner - 1 ELSE spinner
    /\ UNCHANGED <<boss, intact>>

\* sem_wait(spinner)
WaitSpinner ==
    /\ LoopGo("wait", "repost")
    /\ spinner > 0
    /\ spinner' = spinner - 1
    /\ UNCHANGED <<boss, intact>>

\* sem_post(spinner)
PostSpinner == LoopGo("repost", "tryboss") /\ spinner' = spinner + 1 /\ UNCHANGED <<boss, intact>>

\* Mutant: the offer is not taken back.
TryBoss_Missing == LoopGo("tryboss", "idle") /\ UNCHANGED <<boss, spinner, intact>>

\* sem_trywait(boss)
TryBoss ==
    /\ LoopGo("tryboss", "idle")
    /\ boss' = IF boss > 0 THEN boss - 1 ELSE boss
    /\ UNCHANGED <<spinner, intact>>

-----------------------------------------------------------------------------
(* The bosses *)

\* The loop is outside CheckSpinner, or at its sem_wait with its offer still open.
Approachable ==
    \/ loop \in {"idle", "callback"}
    \/ loop = "wait" /\ boss > 0

\* LockSpinner: sem_trywait(spinner), whose result nobody looks at.
LockSpinner(b) ==
    /\ pc[b] = "out"
    /\ pc' = [pc EXCEPT ![b] = "checkboss"]
    /\ spinner' = IF spinner > 0 THEN spinner - 1 ELSE spinner
    /\ took' = [took EXCEPT ![b] = spinner > 0]
    /\ clean' = [clean EXCEPT ![b] = Approachable]
    /\ intact' = (intact /\ spinner > 0)
    /\ UNCHANGED <<boss, loop>>

\* CheckBoss: sem_wait(boss)
CheckBoss(b) ==
    /\ pc[b] = "checkboss"
    /\ boss > 0
    /\ pc' = [pc EXCEPT ![b] = "inside"]
    /\ boss' = boss - 1
    /\ UNCHANGED <<spinner, loop, took, clean, intact>>

\* UnlockSpinner: sem_post(spinner)
UnlockSpinner(b) ==
    /\ pc[b] = "inside"
    /\ pc' = [pc EXCEPT ![b] = "out"]
    /\ spinner' = spinner + 1
    /\ took' = [took EXCEPT ![b] = FALSE]
    /\ clean' = [clean EXCEPT ![b] = FALSE]
    /\ UNCHANGED <<boss, loop, intact>>

-----------------------------------------------------------------------------

Poll == PostBoss \/ WaitSpinner \/ PostSpinner \/ TryBoss

LoopNext == Callback \/ CallbackDone \/ RequestAuthorize \/ Poll

BossNext(b) == LockSpinner(b) \/ CheckBoss(b) \/ UnlockSpinner(b)

Next == LoopNext \/ \E b \in Bosses : BossNext(b)

Spec == Init /\ [][Next]_vars

\* Threads that can run do; a callback returns; the idle source is dispatched again
\* and again, in the pauses libpurple's own sources leave (strong fairness, because a
\* callback may come first any number of times).
FairSpec ==
    /\ Spec
    /\ WF_vars(CallbackDone) /\ SF_vars(PostBoss)
    /\ WF_vars(WaitSpinner \/ PostSpinner \/ TryBoss)
    /\ \A b \in Bosses : WF_vars(CheckBoss(b) \/ UnlockSpinner(b))

-----------------------------------------------------------------------------
(* Properties *)

\* A boss permit exists only while the loop is inside CheckSpinner: none leaks into
\* a callback.  So bosses get in only when polled - and the CheckBoss of a
\* RequestAuthorize, which runs inside a callback, can never succeed.
PermitOnlyWhilePolled == boss > 0 => loop \in {"wait", "repost", "tryboss"}

InFlight == {b \in Bosses : pc[b] # "out"}
Took     == {b \in InFlight : took[b]}
Missed   == {b \in InFlight : ~took[b]}

\* Permits of the spinner, those in use included.
Permits == spinner + Cardinality(Took) + (IF loop = "repost" THEN 1 ELSE 0)

\* A failed trywait is followed by an unconditional sem_post: each adds a permit that
\* never goes away.  But no more than one per thread of the external interface.
PermitsBounded == Permits + Cardinality(Missed) <= Cardinality(Bosses) + 1

\* The lock excludes as meant for a boss that approached the loop outside CheckSpinner
\* or while its offer was open, as long as no trywait has ever failed: while that boss
\* is inside, the loop stands still in sem_wait(spinner).
CleanEntryExcludes ==
    \A b \in Bosses : intact /\ clean[b] /\ pc[b] = "inside" => loop = "wait" /\ spinner = 0

\* Such a boss gets in, too.
CleanBossEnters ==
    \A b \in Bosses :
        (pc[b] = "checkboss" /\ clean[b]) ~> (pc[b] = "inside" \/ ~intact)
=============================================================================
