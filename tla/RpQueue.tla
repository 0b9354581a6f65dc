------------------------------ MODULE RpQueue -------------------------------
(***************************************************************************)
(* rpqueue<obj>, the bounded buffer between the libpurple loop thread and  *)
(* the consumer thread (lib/common/rpqueue.cpp, lib/include/rpqueue.h),    *)
(* statement by statement: two counting semaphores, a lock, a position and *)
(* an array.  A semaphore is its count; Wait is enabled when the count is  *)
(* positive.                                                               *)
(***************************************************************************)
EXTENDS Naturals, Sequences, FiniteSets

CONSTANTS Threads,      \* threads that call add and get
          Objects,      \* the posts that travel through the queue
          NULL,         \* the null pointer, which doubles as poison pill
          QUEUE_SIZE    \* rpqueue.h:6, 64 in the code

ASSUME RpQueueAssumption ==
    /\ IsFiniteSet(Threads)
    /\ QUEUE_SIZE \in Nat \ {0}
    /\ NULL \notin Objects

VARIABLES empty_,       \* semaphore: free slots nobody has claimed
          lock_,        \* semaphore: 1 when nobody is inside
          usd_,         \* semaphore: filled slots nobody has claimed
          pos_,         \* index of the next free slot
          rpq,          \* the slots
          pc,           \* per thread: the statement it executes next
          arg,          \* per thread: newobj of the add it is in
          ret           \* per thread: ret of the get it is in

vars == <<empty_, lock_, usd_, pos_, rpq, pc, arg, ret>>

Values == Objects \cup {NULL}
Slots  == 0 .. (QUEUE_SIZE - 1)

AddPC == {"addWaitEmpty", "addLock", "addStore", "addBump", "addPost", "addUnlock"}
GetPC == {"getWaitUsd", "getLock", "getDrop", "getTake", "getClear", "getPost", "getUnlock"}
PC    == {"idle"} \cup AddPC \cup GetPC

\* Calls that hold a token no semaphore counts any more, or not yet.
ClaimedFree == {"addLock", "addStore", "addBump"}     \* past empty_->Wait
Bumped      == {"addPost"}                            \* past pos_ += 1
ClaimedUsed == {"getLock", "getDrop"}                 \* past usd_->Wait
Dropped     == {"getTake", "getClear", "getPost"}     \* past pos_ -= 1

\* The statements between lock_->Wait and lock_->Post.
Critical == {"addStore", "addBump", "addPost", "addUnlock",
             "getDrop", "getTake", "getClear", "getPost", "getUnlock"}

TypeOK ==
    /\ empty_ \in 0 .. QUEUE_SIZE
    /\ lock_ \in 0 .. 1
    /\ usd_ \in 0 .. QUEUE_SIZE
    /\ pos_ \in 0 .. QUEUE_SIZE
    /\ rpq \in [Slots -> Values]
    /\ pc \in [Threads -> PC]
    /\ arg \in [Threads -> Values]
    /\ ret \in [Threads -> Values]

\* The constructor leaves the array as it finds it: any contents are possible.
Init ==
    /\ empty_ = QUEUE_SIZE
    /\ lock_ = 1
    /\ usd_ = 0
    /\ pos_ = 0
    /\ rpq \in [Slots -> Values]
    /\ pc = [t \in Threads |-> "idle"]
    /\ arg = [t \in Threads |-> NULL]
    /\ ret = [t \in Threads |-> NULL]

Goto(t, from, to) ==
    /\ pc[t] = from
    /\ pc' = [pc EXCEPT ![t] = to]

-----------------------------------------------------------------------------
(* add(newobj) *)

CallAdd(t, v) ==
    /\ Goto(t, "idle", "addWaitEmpty")
    /\ arg' = [arg EXCEPT ![t] = v]
    /\ UNCHANGED <<empty_, lock_, usd_, pos_, rpq, ret>>

AddWaitEmpty(t) ==
    /\ Goto(t, "addWaitEmpty", "addLock")
    /\ empty_ > 0
    /\ empty_' = empty_ - 1
    /\ UNCHANGED <<lock_, usd_, pos_, rpq, arg, ret>>

AddLock(t) ==
    /\ Goto(t, "addLock", "addStore")
    /\ lock_ > 0
    /\ lock_' = lock_ - 1
    /\ UNCHANGED <<empty_, usd_, pos_, rpq, arg, ret>>

\* Mutant: the slot after pos_, as if pos_ were the last filled one.
AddStore_NextSlot(t) ==
    /\ Goto(t, "addStore", "addBump")
    /\ rpq' = [rpq EXCEPT ![(pos_ + 1) % QUEUE_SIZE] = arg[t]]
    /\ UNCHANGED <<empty_, lock_, usd_, pos_, arg, ret>>

AddStore(t) ==
    /\ Goto(t, "addStore", "addBump")
    /\ rpq' = [rpq EXCEPT ![pos_] = arg[t]]
    /\ UNCHANGED <<empty_, lock_, usd_, pos_, arg, ret>>

AddBump(t) ==
    /\ Goto(t, "addBump", "addPost")
    /\ pos_' = pos_ + 1
    /\ UNCHANGED <<empty_, lock_, usd_, rpq, arg, ret>>

\* Mutant: usd_->Post is missing.
AddPost_Missing(t) ==
    /\ Goto(t, "addPost", "addUnlock")
    /\ UNCHANGED <<empty_, lock_, usd_, pos_, rpq, arg, ret>>

AddPost(t) ==
    /\ Goto(t, "addPost", "addUnlock")
    /\ usd_' = usd_ + 1
    /\ UNCHANGED <<empty_, lock_, pos_, rpq, arg, ret>>

AddUnlock(t) ==
    /\ Goto(t, "addUnlock", "idle")
    /\ lock_' = lock_ + 1
    /\ arg' = [arg EXCEPT ![t] = NULL]
    /\ UNCHANGED <<empty_, usd_, pos_, rpq, ret>>

-----------------------------------------------------------------------------
(* get() *)

CallGet(t) ==
    /\ Goto(t, "idle", "getWaitUsd")
    /\ UNCHANGED <<empty_, lock_, usd_, pos_, rpq, arg, ret>>

GetWaitUsd(t) ==
    /\ Goto(t, "getWaitUsd", "getLock")
    /\ usd_ > 0
    /\ usd_' = usd_ - 1
    /\ UNCHANGED <<empty_, lock_, pos_, rpq, arg, ret>>

GetLock(t) ==
    /\ Goto(t, "getLock", "getDrop")
    /\ lock_ > 0
    /\ lock_' = lock_ - 1
    /\ UNCHANGED <<empty_, usd_, pos_, rpq, arg, ret>>

GetDrop(t) ==
    /\ Goto(t, "getDrop", "getTake")
    /\ pos_' = pos_ - 1
    /\ UNCHANGED <<empty_, lock_, usd_, rpq, arg, ret>>

GetTake(t) ==
    /\ Goto(t, "getTake", "getClear")
    /\ ret' = [ret EXCEPT ![t] = rpq[pos_]]
    /\ UNCHANGED <<empty_, lock_, usd_, pos_, rpq, arg>>

GetClear(t) ==
    /\ Goto(t, "getClear", "getPost")
    /\ rpq' = [rpq EXCEPT ![pos_] = NULL]
    /\ UNCHANGED <<empty_, lock_, usd_, pos_, arg, ret>>

\* Mutant: empty_->Post is missing.
GetPost_Missing(t) ==
    /\ Goto(t, "getPost", "getUnlock")
    /\ UNCHANGED <<empty_, lock_, usd_, pos_, rpq, arg, ret>>

GetPost(t) ==
    /\ Goto(t, "getPost", "getUnlock")
    /\ empty_' = empty_ + 1
    /\ UNCHANGED <<lock_, usd_, pos_, rpq, arg, ret>>

GetUnlock(t) ==
    /\ Goto(t, "getUnlock", "idle")
    /\ lock_' = lock_ + 1
    /\ ret' = [ret EXCEPT ![t] = NULL]
    /\ UNCHANGED <<empty_, usd_, pos_, rpq, arg>>

-----------------------------------------------------------------------------

\* A step of a call in progress.  Whether a thread calls at all is its own choice.
Continue(t) ==
    \/ AddWaitEmpty(t) \/ AddLock(t) \/ AddStore(t) \/ AddBump(t)
    \/ AddPost(t) \/ AddUnlock(t)
    \/ GetWaitUsd(t) \/ GetLock(t) \/ GetDrop(t) \/ GetTake(t)
    \/ GetClear(t) \/ GetPost(t) \/ GetUnlock(t)

Next ==
    \E t \in Threads :
        \/ \E v \in Values : CallAdd(t, v)
        \/ CallGet(t)
        \/ Continue(t)

Spec == Init /\ [][Next]_vars

\* The scheduler runs every thread that can run; semaphores promise no order
\* among their waiters, so nothing stronger than weak fairness is assumed.
FairSpec == Spec /\ \A t \in Threads : WF_vars(Continue(t))

-----------------------------------------------------------------------------
(* Properties *)

At(labels) == {t \in Threads : pc[t] \in labels}

\* At most one thread executes between lock_->Wait and lock_->Post, and the
\* lock is free exactly when none does.
MutualExclusion ==
    /\ \A t, u \in At(Critical) : t = u
    /\ lock_ = 0 <=> At(Critical) # {}

\* Between the semaphore operations of add and get, pos_ runs ahead of usd_ and
\* behind QUEUE_SIZE - empty_ by exactly the calls in flight: no token is lost
\* or counted twice, whatever the interleaving.
TokensAccounted ==
    /\ pos_ = usd_ + Cardinality(At(Bumped)) + Cardinality(At(ClaimedUsed))
    /\ QUEUE_SIZE = pos_ + empty_ + Cardinality(At(ClaimedFree))
                         + Cardinality(At(Dropped))

\* rpq[pos_] is only written below QUEUE_SIZE and pos_ never drops below zero:
\* the array has no bounds check of its own.
SlotsInBounds ==
    /\ \A t \in At({"addStore", "addBump"}) : pos_ < QUEUE_SIZE
    /\ \A t \in At({"getDrop"}) : pos_ > 0
    /\ \A t \in At({"getTake", "getClear"}) : pos_ < QUEUE_SIZE

\* The value add stored is still in its slot when pos_ moves over it.
StoredIntact == \A t \in At({"addBump"}) : rpq[pos_] = arg[t]

\* What callers see of the calls and of the array: the abstract stack.
stackBar == [i \in 1 .. pos_ |-> rpq[i - 1]]

reqBar ==
    [t \in Threads |->
        CASE pc[t] \in {"addWaitEmpty", "addLock", "addStore", "addBump"} ->
                [op |-> "add", val |-> arg[t]]
          [] pc[t] \in {"addPost", "addUnlock"} -> [op |-> "added", val |-> NULL]
          [] pc[t] \in {"getWaitUsd", "getLock", "getDrop"} ->
                [op |-> "get", val |-> NULL]
          [] pc[t] = "getTake" -> [op |-> "got", val |-> rpq[pos_]]
          [] pc[t] \in {"getClear", "getPost", "getUnlock"} ->
                [op |-> "got", val |-> ret[t]]
          [] OTHER -> [op |-> "idle", val |-> NULL]]

Stack == INSTANCE BoundedStack
            WITH Capacity <- QUEUE_SIZE, stack <- stackBar, req <- reqBar

\* Every interleaving of add and get looks to its callers like an atomic,
\* bounded, last-in-first-out stack.
ImplementsStack == Stack!Spec

\* No lost wakeup: a getter that waits while the array holds a value nobody has
\* claimed does not wait for ever together with that value - some getter gets
\* past usd_->Wait.
GetterWokenUp ==
    (pos_ > 0 /\ At({"getWaitUsd"}) # {}) ~>
        (\/ At(ClaimedUsed) # {}
         \/ At({"getWaitUsd"}) = {})

\* The mirror image: an adder that waits while the array has room does not wait
\* for ever - some adder gets past empty_->Wait.
AdderWokenUp ==
    (pos_ < QUEUE_SIZE /\ At({"addWaitEmpty"}) # {}) ~>
        (\/ At(ClaimedFree) # {}
         \/ At({"addWaitEmpty"}) = {})

\* Nobody sleeps through the wake-up that was meant for him, on either side.
WaitersWokenUp == GetterWokenUp /\ AdderWokenUp
=============================================================================
