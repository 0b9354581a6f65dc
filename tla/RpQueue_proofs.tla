--------------------------- MODULE RpQueue_proofs ---------------------------
(***************************************************************************)
(* Proofs about rpqueue for every number of threads, every kind of object  *)
(* and every QUEUE_SIZE.  The inductive invariant is IndInv: the typing,   *)
(* the lock, the token accounting that keeps pos_ inside the array, and    *)
(* the fact that nobody overwrites a slot between its store and its bump.  *)
(***************************************************************************)
EXTENDS RpQueue, FiniteSetTheorems, TLAPS

IndInv == TypeOK /\ MutualExclusion /\ TokensAccounted /\ StoredIntact

\* By how much the number of threads inside labels grows on a jump.
Delta(from, to, labels) ==
    (IF to \in labels THEN 1 ELSE 0) - (IF from \in labels THEN 1 ELSE 0)

-----------------------------------------------------------------------------
(* One jump of one thread, and how many threads are where. *)

\* The number of threads inside a set of labels is a natural number.
LEMMA AtCount ==
    ASSUME NEW labels
    PROVE  /\ IsFiniteSet(At(labels))
           /\ Cardinality(At(labels)) \in Nat
           /\ At(labels) # {} => Cardinality(At(labels)) > 0
           /\ Cardinality(At(labels)') \in Nat
<1>1. At(labels) \subseteq Threads /\ At(labels)' \subseteq Threads  BY DEF At
<1>2. IsFiniteSet(At(labels)) /\ IsFiniteSet(At(labels)')
  BY <1>1, FS_Subset, RpQueueAssumption DEF RpQueueAssumption
<1>3. QED  BY <1>2, FS_CardinalityType, FS_EmptySet

\* A jump changes the count of a set of labels by its Delta, for any set of labels.
LEMMA GotoCount ==
    ASSUME NEW labels, NEW t \in Threads, NEW from, NEW to,
           pc \in [Threads -> PC], Goto(t, from, to)
    PROVE  /\ Cardinality(At(labels)') \in Nat
           /\ Cardinality(At(labels)') = Cardinality(At(labels)) + Delta(from, to, labels)
<1> DEFINE S == At(labels)
           T == {u \in Threads : pc'[u] \in labels}
<1>1. At(labels)' = T  BY DEF At
<1>2. /\ pc[t] = from
      /\ pc'[t] = to
      /\ \A u \in Threads : u # t => pc'[u] = pc[u]
  BY DEF Goto
<1>3. /\ IsFiniteSet(S)
      /\ Cardinality(S) \in Nat
  BY AtCount
<1>4. CASE from \in labels /\ to \notin labels
  <2>1. T = S \ {t}  BY <1>2, <1>4 DEF At
  <2>2. t \in S  BY <1>2, <1>4 DEF At
  <2>3. Cardinality(T) = Cardinality(S) - 1  BY <2>1, <2>2, <1>3, FS_RemoveElement
  <2>4. Cardinality(S) > 0  BY <2>2, <1>3, FS_EmptySet
  <2>5. QED  BY <1>1, <1>3, <1>4, <2>3, <2>4 DEF Delta
<1>5. CASE from \notin labels /\ to \in labels
  <2>1. T = S \cup {t}  BY <1>2, <1>5 DEF At
  <2>2. t \notin S  BY <1>2, <1>5 DEF At
  <2>3. Cardinality(T) = Cardinality(S) + 1  BY <2>1, <2>2, <1>3, FS_AddElement
  <2>4. QED  BY <1>1, <1>3, <1>5, <2>3 DEF Delta
<1>6. CASE from \in labels <=> to \in labels
  <2>1. T = S  BY <1>2, <1>6 DEF At
  <2>2. Cardinality(T) = Cardinality(S)  BY <2>1
  <2>3. Delta(from, to, labels) = 0  BY <1>6 DEF Delta
  <2>4. QED  BY <1>1, <1>3, <2>2, <2>3
<1>7. QED  BY <1>4, <1>5, <1>6

\* Every action is a jump of one thread between two labels.
LEMMA GotoTokens ==
    ASSUME NEW t \in Threads, NEW from, NEW to,
           pc \in [Threads -> PC], Goto(t, from, to)
    PROVE  /\ Cardinality(At(ClaimedFree)') = Cardinality(At(ClaimedFree)) + Delta(from, to, ClaimedFree)
           /\ Cardinality(At(Bumped)') = Cardinality(At(Bumped)) + Delta(from, to, Bumped)
           /\ Cardinality(At(ClaimedUsed)') = Cardinality(At(ClaimedUsed)) + Delta(from, to, ClaimedUsed)
           /\ Cardinality(At(Dropped)') = Cardinality(At(Dropped)) + Delta(from, to, Dropped)
           /\ {Cardinality(At(ClaimedFree)), Cardinality(At(Bumped)),
               Cardinality(At(ClaimedUsed)), Cardinality(At(Dropped)),
               Cardinality(At(ClaimedFree)'), Cardinality(At(Bumped)'),
               Cardinality(At(ClaimedUsed)'), Cardinality(At(Dropped)')} \subseteq Nat
<1>1. Cardinality(At(ClaimedFree)') = Cardinality(At(ClaimedFree)) + Delta(from, to, ClaimedFree)
  BY GotoCount
<1>2. Cardinality(At(Bumped)') = Cardinality(At(Bumped)) + Delta(from, to, Bumped)
  BY GotoCount
<1>3. Cardinality(At(ClaimedUsed)') = Cardinality(At(ClaimedUsed)) + Delta(from, to, ClaimedUsed)
  BY GotoCount
<1>4. Cardinality(At(Dropped)') = Cardinality(At(Dropped)) + Delta(from, to, Dropped)
  BY GotoCount
<1>5. /\ Cardinality(At(ClaimedFree)') \in Nat
      /\ Cardinality(At(Bumped)') \in Nat
      /\ Cardinality(At(ClaimedUsed)') \in Nat
      /\ Cardinality(At(Dropped)') \in Nat
  BY GotoCount
<1>6. /\ Cardinality(At(ClaimedFree)) \in Nat
      /\ Cardinality(At(Bumped)) \in Nat
      /\ Cardinality(At(ClaimedUsed)) \in Nat
      /\ Cardinality(At(Dropped)) \in Nat
  BY AtCount
<1>7. QED  BY <1>1, <1>2, <1>3, <1>4, <1>5, <1>6

-----------------------------------------------------------------------------
(* The invariant *)

LEMMA InitInd == Init => IndInv
<1> SUFFICES ASSUME Init PROVE IndInv
  OBVIOUS
<1>1. \A labels : "idle" \notin labels => At(labels) = {}
  BY DEF Init, At
<1>2. /\ Cardinality(At(ClaimedFree)) = 0
      /\ Cardinality(At(Bumped)) = 0
      /\ Cardinality(At(ClaimedUsed)) = 0
      /\ Cardinality(At(Dropped)) = 0
      /\ At(Critical) = {}
      /\ At({"addBump"}) = {}
  BY <1>1, FS_EmptySet DEF ClaimedFree, Bumped, ClaimedUsed, Dropped, Critical
<1>3. TypeOK
  BY RpQueueAssumption DEF Init, TypeOK, RpQueueAssumption, PC, Values
<1>4. MutualExclusion
  BY <1>2 DEF MutualExclusion, Init
<1>5. TokensAccounted
  BY <1>2, RpQueueAssumption DEF TokensAccounted, Init, RpQueueAssumption
<1>6. StoredIntact
  BY <1>2 DEF StoredIntact
<1>7. QED  BY <1>3, <1>4, <1>5, <1>6 DEF IndInv

\* Conservation of tokens bounds every counter, so that TypeOK needs no bounds of
\* its own to be preserved, and keeps the array index inside the array.
LEMMA TokenBounds ==
    ASSUME TokensAccounted, empty_ \in Nat, usd_ \in Nat, pos_ \in Nat
    PROVE  /\ empty_ <= QUEUE_SIZE /\ usd_ <= QUEUE_SIZE /\ pos_ <= QUEUE_SIZE
           /\ SlotsInBounds
<1>1. /\ Cardinality(At(ClaimedFree)) \in Nat
      /\ Cardinality(At(Bumped)) \in Nat
      /\ Cardinality(At(ClaimedUsed)) \in Nat
      /\ Cardinality(At(Dropped)) \in Nat
      /\ QUEUE_SIZE \in Nat
  BY AtCount, RpQueueAssumption DEF RpQueueAssumption
<1>2. /\ empty_ <= QUEUE_SIZE /\ usd_ <= QUEUE_SIZE /\ pos_ <= QUEUE_SIZE
  BY <1>1 DEF TokensAccounted
<1>3. ASSUME NEW t \in At({"addStore", "addBump"})  PROVE pos_ < QUEUE_SIZE
  <2>1. At(ClaimedFree) # {}  BY <1>3 DEF At, ClaimedFree
  <2>2. Cardinality(At(ClaimedFree)) > 0  BY <2>1, AtCount
  <2>3. QED  BY <1>1, <2>2 DEF TokensAccounted
<1>4. ASSUME NEW t \in At({"getDrop"})  PROVE pos_ > 0
  <2>1. At(ClaimedUsed) # {}  BY <1>4 DEF At, ClaimedUsed
  <2>2. Cardinality(At(ClaimedUsed)) > 0  BY <2>1, AtCount
  <2>3. QED  BY <1>1, <2>2 DEF TokensAccounted
<1>5. ASSUME NEW t \in At({"getTake", "getClear"})  PROVE pos_ < QUEUE_SIZE
  <2>1. At(Dropped) # {}  BY <1>5 DEF At, Dropped
  <2>2. Cardinality(At(Dropped)) > 0  BY <2>1, AtCount
  <2>3. QED  BY <1>1, <2>2 DEF TokensAccounted
<1>6. QED  BY <1>2, <1>3, <1>4, <1>5 DEF SlotsInBounds

\* What each action does to the counters and to the place of its thread.
LEMMA MutexStep ==
    ASSUME IndInv, [Next]_vars
    PROVE  MutualExclusion'
<1> USE DEF IndInv, TypeOK, MutualExclusion, At
<1>1. CASE UNCHANGED vars
  BY <1>1 DEF vars
<1>2. ASSUME NEW t \in Threads,
             \/ \E v \in Values : CallAdd(t, v)
             \/ CallGet(t) \/ AddWaitEmpty(t) \/ GetWaitUsd(t)
      PROVE  MutualExclusion'
  BY <1>2 DEF CallAdd, CallGet, AddWaitEmpty, GetWaitUsd, Goto, Critical
<1>3. ASSUME NEW t \in Threads, AddLock(t) \/ GetLock(t)
      PROVE  MutualExclusion'
  BY <1>3 DEF AddLock, GetLock, Goto, Critical
<1>4. ASSUME NEW t \in Threads,
             \/ AddStore(t) \/ AddBump(t) \/ AddPost(t)
             \/ GetDrop(t) \/ GetTake(t) \/ GetClear(t) \/ GetPost(t)
      PROVE  MutualExclusion'
  BY <1>4 DEF AddStore, AddBump, AddPost, GetDrop, GetTake, GetClear, GetPost, Goto, Critical
<1>5. ASSUME NEW t \in Threads, AddUnlock(t) \/ GetUnlock(t)
      PROVE  MutualExclusion'
  BY <1>5 DEF AddUnlock, GetUnlock, Goto, Critical
<1>6. QED  BY <1>1, <1>2, <1>3, <1>4, <1>5 DEF Next, Continue

\* No action creates or loses a token: what leaves a counter is in flight.
LEMMA TokensStep ==
    ASSUME IndInv, [Next]_vars
    PROVE  TokensAccounted' /\ empty_' \in Nat /\ usd_' \in Nat /\ pos_' \in Nat
<1> DEFINE Goal == /\ TokensAccounted'
                   /\ empty_' \in Nat /\ usd_' \in Nat /\ pos_' \in Nat
<1>p. /\ pc \in [Threads -> PC]
      /\ TokensAccounted
      /\ empty_ \in Nat /\ usd_ \in Nat /\ pos_ \in Nat /\ QUEUE_SIZE \in Nat
  BY RpQueueAssumption DEF IndInv, TypeOK, RpQueueAssumption
<1>q. SlotsInBounds
  BY <1>p, TokenBounds
<1>r. /\ Cardinality(At(ClaimedFree)) \in Nat
      /\ Cardinality(At(Bumped)) \in Nat
      /\ Cardinality(At(ClaimedUsed)) \in Nat
      /\ Cardinality(At(Dropped)) \in Nat
  BY AtCount
<1>1. ASSUME NEW t \in Threads, \E v \in Values : CallAdd(t, v)  PROVE Goal
  <2>1. Goto(t, "idle", "addWaitEmpty")  BY <1>1 DEF CallAdd
  <2>2. /\ Cardinality(At(ClaimedFree)') = Cardinality(At(ClaimedFree))
        /\ Cardinality(At(Bumped)') = Cardinality(At(Bumped))
        /\ Cardinality(At(ClaimedUsed)') = Cardinality(At(ClaimedUsed))
        /\ Cardinality(At(Dropped)') = Cardinality(At(Dropped))
    BY <1>p, <2>1, GotoTokens DEF Delta, ClaimedFree, Bumped, ClaimedUsed, Dropped
  <2>3. QED  BY <1>1, <1>p, <1>r, <2>2 DEF CallAdd, TokensAccounted
<1>2. ASSUME NEW t \in Threads, AddWaitEmpty(t)  PROVE Goal
  <2>1. Goto(t, "addWaitEmpty", "addLock")  BY <1>2 DEF AddWaitEmpty
  <2>2. /\ Cardinality(At(ClaimedFree)') = Cardinality(At(ClaimedFree)) + 1
        /\ Cardinality(At(Bumped)') = Cardinality(At(Bumped))
        /\ Cardinality(At(ClaimedUsed)') = Cardinality(At(ClaimedUsed))
        /\ Cardinality(At(Dropped)') = Cardinality(At(Dropped))
    BY <1>p, <2>1, GotoTokens DEF Delta, ClaimedFree, Bumped, ClaimedUsed, Dropped
  <2>3. QED  BY <1>2, <1>p, <1>r, <2>2 DEF AddWaitEmpty, TokensAccounted
<1>3. ASSUME NEW t \in Threads, AddLock(t)  PROVE Goal
  <2>1. Goto(t, "addLock", "addStore")  BY <1>3 DEF AddLock
  <2>2. /\ Cardinality(At(ClaimedFree)') = Cardinality(At(ClaimedFree))
        /\ Cardinality(At(Bumped)') = Cardinality(At(Bumped))
        /\ Cardinality(At(ClaimedUsed)') = Cardinality(At(ClaimedUsed))
        /\ Cardinality(At(Dropped)') = Cardinality(At(Dropped))
    BY <1>p, <2>1, GotoTokens DEF Delta, ClaimedFree, Bumped, ClaimedUsed, Dropped
  <2>3. QED  BY <1>3, <1>p, <1>r, <2>2 DEF AddLock, TokensAccounted
<1>4. ASSUME NEW t \in Threads, AddStore(t)  PROVE Goal
  <2>1. Goto(t, "addStore", "addBump")  BY <1>4 DEF AddStore
  <2>2. /\ Cardinality(At(ClaimedFree)') = Cardinality(At(ClaimedFree))
        /\ Cardinality(At(Bumped)') = Cardinality(At(Bumped))
        /\ Cardinality(At(ClaimedUsed)') = Cardinality(At(ClaimedUsed))
        /\ Cardinality(At(Dropped)') = Cardinality(At(Dropped))
    BY <1>p, <2>1, GotoTokens DEF Delta, ClaimedFree, Bumped, ClaimedUsed, Dropped
  <2>3. QED  BY <1>4, <1>p, <1>r, <2>2 DEF AddStore, TokensAccounted
<1>5. ASSUME NEW t \in Threads, AddBump(t)  PROVE Goal
  <2>1. Goto(t, "addBump", "addPost")  BY <1>5 DEF AddBump
  <2>2. /\ Cardinality(At(ClaimedFree)') = Cardinality(At(ClaimedFree)) - 1
        /\ Cardinality(At(Bumped)') = Cardinality(At(Bumped)) + 1
        /\ Cardinality(At(ClaimedUsed)') = Cardinality(At(ClaimedUsed))
        /\ Cardinality(At(Dropped)') = Cardinality(At(Dropped))
    BY <1>p, <2>1, GotoTokens DEF Delta, ClaimedFree, Bumped, ClaimedUsed, Dropped
  <2>3. QED  BY <1>5, <1>p, <1>r, <2>2 DEF AddBump, TokensAccounted
<1>6. ASSUME NEW t \in Threads, AddPost(t)  PROVE Goal
  <2>1. Goto(t, "addPost", "addUnlock")  BY <1>6 DEF AddPost
  <2>2. /\ Cardinality(At(ClaimedFree)') = Cardinality(At(ClaimedFree))
        /\ Cardinality(At(Bumped)') = Cardinality(At(Bumped)) - 1
        /\ Cardinality(At(ClaimedUsed)') = Cardinality(At(ClaimedUsed))
        /\ Cardinality(At(Dropped)') = Cardinality(At(Dropped))
    BY <1>p, <2>1, GotoTokens DEF Delta, ClaimedFree, Bumped, ClaimedUsed, Dropped
  <2>3. QED  BY <1>6, <1>p, <1>r, <2>2 DEF AddPost, TokensAccounted
<1>7. ASSUME NEW t \in Threads, AddUnlock(t)  PROVE Goal
  <2>1. Goto(t, "addUnlock", "idle")  BY <1>7 DEF AddUnlock
  <2>2. /\ Cardinality(At(ClaimedFree)') = Cardinality(At(ClaimedFree))
        /\ Cardinality(At(Bumped)') = Cardinality(At(Bumped))
        /\ Cardinality(At(ClaimedUsed)') = Cardinality(At(ClaimedUsed))
        /\ Cardinality(At(Dropped)') = Cardinality(At(Dropped))
    BY <1>p, <2>1, GotoTokens DEF Delta, ClaimedFree, Bumped, ClaimedUsed, Dropped
  <2>3. QED  BY <1>7, <1>p, <1>r, <2>2 DEF AddUnlock, TokensAccounted
<1>8. ASSUME NEW t \in Threads, CallGet(t)  PROVE Goal
  <2>1. Goto(t, "idle", "getWaitUsd")  BY <1>8 DEF CallGet
  <2>2. /\ Cardinality(At(ClaimedFree)') = Cardinality(At(ClaimedFree))
        /\ Cardinality(At(Bumped)') = Cardinality(At(Bumped))
        /\ Cardinality(At(ClaimedUsed)') = Cardinality(At(ClaimedUsed))
        /\ Cardinality(At(Dropped)') = Cardinality(At(Dropped))
    BY <1>p, <2>1, GotoTokens DEF Delta, ClaimedFree, Bumped, ClaimedUsed, Dropped
  <2>3. QED  BY <1>8, <1>p, <1>r, <2>2 DEF CallGet, TokensAccounted
<1>9. ASSUME NEW t \in Threads, GetWaitUsd(t)  PROVE Goal
  <2>1. Goto(t, "getWaitUsd", "getLock")  BY <1>9 DEF GetWaitUsd
  <2>2. /\ Cardinality(At(ClaimedFree)') = Cardinality(At(ClaimedFree))
        /\ Cardinality(At(Bumped)') = Cardinality(At(Bumped))
        /\ Cardinality(At(ClaimedUsed)') = Cardinality(At(ClaimedUsed)) + 1
        /\ Cardinality(At(Dropped)') = Cardinality(At(Dropped))
    BY <1>p, <2>1, GotoTokens DEF Delta, ClaimedFree, Bumped, ClaimedUsed, Dropped
  <2>3. QED  BY <1>9, <1>p, <1>r, <2>2 DEF GetWaitUsd, TokensAccounted
<1>10. ASSUME NEW t \in Threads, GetLock(t)  PROVE Goal
  <2>1. Goto(t, "getLock", "getDrop")  BY <1>10 DEF GetLock
  <2>2. /\ Cardinality(At(ClaimedFree)') = Cardinality(At(ClaimedFree))
        /\ Cardinality(At(Bumped)') = Cardinality(At(Bumped))
        /\ Cardinality(At(ClaimedUsed)') = Cardinality(At(ClaimedUsed))
        /\ Cardinality(At(Dropped)') = Cardinality(At(Dropped))
    BY <1>p, <2>1, GotoTokens DEF Delta, ClaimedFree, Bumped, ClaimedUsed, Dropped
  <2>3. QED  BY <1>10, <1>p, <1>r, <2>2 DEF GetLock, TokensAccounted
<1>11. ASSUME NEW t \in Threads, GetDrop(t)  PROVE Goal
  <2>1. Goto(t, "getDrop", "getTake")  BY <1>11 DEF GetDrop
  <2>2. /\ Cardinality(At(ClaimedFree)') = Cardinality(At(ClaimedFree))
        /\ Cardinality(At(Bumped)') = Cardinality(At(Bumped))
        /\ Cardinality(At(ClaimedUsed)') = Cardinality(At(ClaimedUsed)) - 1
        /\ Cardinality(At(Dropped)') = Cardinality(At(Dropped)) + 1
    BY <1>p, <2>1, GotoTokens DEF Delta, ClaimedFree, Bumped, ClaimedUsed, Dropped
  <2>3. pos_ > 0  BY <1>q, <2>1 DEF SlotsInBounds, At, Goto
  <2>4. QED  BY <1>11, <1>p, <1>r, <2>2, <2>3 DEF GetDrop, TokensAccounted
<1>12. ASSUME NEW t \in Threads, GetTake(t)  PROVE Goal
  <2>1. Goto(t, "getTake", "getClear")  BY <1>12 DEF GetTake
  <2>2. /\ Cardinality(At(ClaimedFree)') = Cardinality(At(ClaimedFree))
        /\ Cardinality(At(Bumped)') = Cardinality(At(Bumped))
        /\ Cardinality(At(ClaimedUsed)') = Cardinality(At(ClaimedUsed))
        /\ Cardinality(At(Dropped)') = Cardinality(At(Dropped))
    BY <1>p, <2>1, GotoTokens DEF Delta, ClaimedFree, Bumped, ClaimedUsed, Dropped
  <2>3. QED  BY <1>12, <1>p, <1>r, <2>2 DEF GetTake, TokensAccounted
<1>13. ASSUME NEW t \in Threads, GetClear(t)  PROVE Goal
  <2>1. Goto(t, "getClear", "getPost")  BY <1>13 DEF GetClear
  <2>2. /\ Cardinality(At(ClaimedFree)') = Cardinality(At(ClaimedFree))
        /\ Cardinality(At(Bumped)') = Cardinality(At(Bumped))
        /\ Cardinality(At(ClaimedUsed)') = Cardinality(At(ClaimedUsed))
        /\ Cardinality(At(Dropped)') = Cardinality(At(Dropped))
    BY <1>p, <2>1, GotoTokens DEF Delta, ClaimedFree, Bumped, ClaimedUsed, Dropped
  <2>3. QED  BY <1>13, <1>p, <1>r, <2>2 DEF GetClear, TokensAccounted
<1>14. ASSUME NEW t \in Threads, GetPost(t)  PROVE Goal
  <2>1. Goto(t, "getPost", "getUnlock")  BY <1>14 DEF GetPost
  <2>2. /\ Cardinality(At(ClaimedFree)') = Cardinality(At(ClaimedFree))
        /\ Cardinality(At(Bumped)') = Cardinality(At(Bumped))
        /\ Cardinality(At(ClaimedUsed)') = Cardinality(At(ClaimedUsed))
        /\ Cardinality(At(Dropped)') = Cardinality(At(Dropped)) - 1
    BY <1>p, <2>1, GotoTokens DEF Delta, ClaimedFree, Bumped, ClaimedUsed, Dropped
  <2>3. QED  BY <1>14, <1>p, <1>r, <2>2 DEF GetPost, TokensAccounted
<1>15. ASSUME NEW t \in Threads, GetUnlock(t)  PROVE Goal
  <2>1. Goto(t, "getUnlock", "idle")  BY <1>15 DEF GetUnlock
  <2>2. /\ Cardinality(At(ClaimedFree)') = Cardinality(At(ClaimedFree))
        /\ Cardinality(At(Bumped)') = Cardinality(At(Bumped))
        /\ Cardinality(At(ClaimedUsed)') = Cardinality(At(ClaimedUsed))
        /\ Cardinality(At(Dropped)') = Cardinality(At(Dropped))
    BY <1>p, <2>1, GotoTokens DEF Delta, ClaimedFree, Bumped, ClaimedUsed, Dropped
  <2>3. QED  BY <1>15, <1>p, <1>r, <2>2 DEF GetUnlock, TokensAccounted
<1>16. CASE UNCHANGED vars
  BY <1>16, <1>p DEF vars, At, TokensAccounted
<1>17. QED
  BY <1>1, <1>2, <1>3, <1>4, <1>5, <1>6, <1>7, <1>8, <1>9, <1>10, <1>11, <1>12, <1>13, <1>14, <1>15, <1>16 DEF Next, Continue

LEMMA TypeStep ==
    ASSUME IndInv, [Next]_vars
    PROVE  TypeOK'
<1>1. /\ empty_' \in 0 .. QUEUE_SIZE
      /\ usd_' \in 0 .. QUEUE_SIZE
      /\ pos_' \in 0 .. QUEUE_SIZE
  <2>1. /\ QUEUE_SIZE \in Nat
        /\ empty_' \in Nat /\ usd_' \in Nat /\ pos_' \in Nat
    BY TokensStep, RpQueueAssumption DEF RpQueueAssumption
  <2>2. /\ Cardinality(At(ClaimedFree)') \in Nat
        /\ Cardinality(At(Bumped)') \in Nat
        /\ Cardinality(At(ClaimedUsed)') \in Nat
        /\ Cardinality(At(Dropped)') \in Nat
    BY AtCount
  <2>3. TokensAccounted'  BY TokensStep
  <2>4. QED  BY <2>1, <2>2, <2>3 DEF TokensAccounted
<1>2. pc' \in [Threads -> PC]
  BY DEF IndInv, TypeOK, Next, Continue, vars, Goto, PC, AddPC, GetPC,
         CallAdd, AddWaitEmpty, AddLock, AddStore, AddBump, AddPost, AddUnlock,
         CallGet, GetWaitUsd, GetLock, GetDrop, GetTake, GetClear, GetPost, GetUnlock
<1>3. lock_' \in 0 .. 1
  BY DEF IndInv, TypeOK, MutualExclusion, At, Critical, Next, Continue, vars, Goto,
         CallAdd, AddWaitEmpty, AddLock, AddStore, AddBump, AddPost, AddUnlock,
         CallGet, GetWaitUsd, GetLock, GetDrop, GetTake, GetClear, GetPost, GetUnlock
<1>4. /\ arg' \in [Threads -> Values]
      /\ rpq' \in [Slots -> Values]
  BY DEF IndInv, TypeOK, Values, Next, Continue, vars,
         CallAdd, AddWaitEmpty, AddLock, AddStore, AddBump, AddPost, AddUnlock,
         CallGet, GetWaitUsd, GetLock, GetDrop, GetTake, GetClear, GetPost, GetUnlock
<1>5. ret' \in [Threads -> Values]
  <2>1. ASSUME NEW t \in Threads, GetTake(t)  PROVE pos_ \in Slots
    <3>1. pos_ < QUEUE_SIZE
      BY <2>1, TokenBounds DEF IndInv, TypeOK, SlotsInBounds, At, GetTake, Goto
    <3>2. QED  BY <3>1, RpQueueAssumption DEF Slots, IndInv, TypeOK, RpQueueAssumption
  <2>2. QED
    BY <2>1 DEF IndInv, TypeOK, Values, Next, Continue, vars,
         CallAdd, AddWaitEmpty, AddLock, AddStore, AddBump, AddPost, AddUnlock,
         CallGet, GetWaitUsd, GetLock, GetDrop, GetTake, GetClear, GetPost, GetUnlock
<1>6. QED  BY <1>1, <1>2, <1>3, <1>4, <1>5 DEF TypeOK

\* Between storing and moving pos_ up a thread is alone in the critical section,
\* so nobody else writes its slot or moves pos_.
LEMMA StoredStep ==
    ASSUME IndInv, [Next]_vars
    PROVE  StoredIntact'
<1> USE DEF IndInv, TypeOK, StoredIntact, At
<1>1. CASE UNCHANGED vars
  BY <1>1 DEF vars
<1>2. ASSUME NEW t \in Threads, AddStore(t)  PROVE StoredIntact'
  <2>1. pos_ \in Slots
    BY <1>2, TokenBounds, RpQueueAssumption
       DEF SlotsInBounds, AddStore, Goto, Slots, RpQueueAssumption
  <2>2. \A u \in Threads : pc'[u] = "addBump" => u = t
    BY <1>2 DEF MutualExclusion, Critical, AddStore, Goto
  <2>3. QED  BY <1>2, <2>1, <2>2 DEF AddStore, Goto
<1>3. ASSUME NEW t \in Threads,
             AddBump(t) \/ GetDrop(t) \/ GetClear(t)
      PROVE  StoredIntact'
  <2>1. \A u \in Threads : pc'[u] # "addBump"
    BY <1>3 DEF MutualExclusion, Critical, AddBump, GetDrop, GetClear, Goto
  <2>2. QED  BY <2>1
<1>4. ASSUME NEW t \in Threads,
             \/ \E v \in Values : CallAdd(t, v)
             \/ AddWaitEmpty(t) \/ AddLock(t) \/ AddPost(t) \/ AddUnlock(t)
      PROVE  StoredIntact'
  BY <1>4 DEF CallAdd, AddWaitEmpty, AddLock, AddPost, AddUnlock, Goto
<1>5. ASSUME NEW t \in Threads,
             \/ CallGet(t) \/ GetWaitUsd(t) \/ GetLock(t)
             \/ GetTake(t) \/ GetPost(t) \/ GetUnlock(t)
      PROVE  StoredIntact'
  BY <1>5 DEF CallGet, GetWaitUsd, GetLock, GetTake, GetPost, GetUnlock, Goto
<1>6. QED  BY <1>1, <1>2, <1>3, <1>4, <1>5 DEF Next, Continue

LEMMA StepInd == IndInv /\ [Next]_vars => IndInv'
BY TypeStep, MutexStep, TokensStep, StoredStep DEF IndInv

-----------------------------------------------------------------------------
(* Theorems *)

LEMMA Inductive == Spec => []IndInv
BY InitInd, StepInd, PTL DEF Spec

\* Every variable keeps its type; the three counters stay within 0 .. QUEUE_SIZE
\* although the code never compares them with QUEUE_SIZE.
THEOREM TypeCorrect == Spec => []TypeOK
<1>1. IndInv => TypeOK  BY DEF IndInv
<1>2. QED  BY <1>1, Inductive, PTL

\* lock_ does its job in add and get: one thread inside at a time.
THEOREM Exclusion == Spec => []MutualExclusion
<1>1. IndInv => MutualExclusion  BY DEF IndInv
<1>2. QED  BY <1>1, Inductive, PTL

\* No semaphore token is lost or duplicated by add and get.
THEOREM Conservation == Spec => []TokensAccounted
<1>1. IndInv => TokensAccounted  BY DEF IndInv
<1>2. QED  BY <1>1, Inductive, PTL

\* add and get index rpq only inside the array, for every QUEUE_SIZE.
THEOREM InBounds == Spec => []SlotsInBounds
<1>1. IndInv => SlotsInBounds  BY TokenBounds DEF IndInv, TypeOK
<1>2. QED  BY <1>1, Inductive, PTL

-----------------------------------------------------------------------------
(* Every behaviour of the queue is one of the abstract stack. *)

\* While no thread but t is inside, a jump of t changes only its own request, as
\* long as nothing below pos_ is written.
LEMMA OthersKeepTheirRequest ==
    ASSUME IndInv, [Next]_vars, NEW t \in Threads, NEW u \in Threads, t # u,
           NEW from \in PC, NEW to, Goto(t, from, to),
           (pos_' = pos_ /\ rpq' = rpq) \/ from \in Critical,
           \A w \in Threads : w # t => arg'[w] = arg[w] /\ ret'[w] = ret[w]
    PROVE  reqBar'[u] = reqBar[u]
<1>1. pc'[u] = pc[u] /\ arg'[u] = arg[u] /\ ret'[u] = ret[u]
  BY DEF IndInv, TypeOK, Goto
<1>2. CASE pos_' = pos_ /\ rpq' = rpq
  BY <1>1, <1>2 DEF reqBar
<1>3. CASE from \in Critical
  <2>1. pc[u] \notin Critical
    BY <1>3 DEF IndInv, MutualExclusion, At, Goto
  <2>2. pc[u] # "getTake"  BY <2>1 DEF Critical
  <2>3. QED  BY <1>1, <2>2 DEF reqBar
<1>4. QED  BY <1>2, <1>3

LEMMA InitRefines == Init => Stack!Init
<1> SUFFICES ASSUME Init PROVE Stack!Init
  OBVIOUS
<1>1. stackBar = <<>>
  BY DEF Init, stackBar
<1>2. reqBar = [t \in Threads |-> Stack!Request("idle", NULL)]
  BY DEF Init, reqBar, Stack!Request
<1>3. QED  BY <1>1, <1>2 DEF Stack!Init

LEMMA OneRequestChanges ==
    ASSUME IndInv, [Next]_vars, NEW t \in Threads,
           NEW from \in PC, NEW to, Goto(t, from, to),
           (pos_' = pos_ /\ rpq' = rpq) \/ from \in Critical,
           \A w \in Threads : w # t => arg'[w] = arg[w] /\ ret'[w] = ret[w]
    PROVE  /\ reqBar' = [reqBar EXCEPT ![t] = reqBar'[t]]
           /\ reqBar'[t] = reqBar[t] => reqBar' = reqBar
<1>1. \A u \in Threads : u # t => reqBar'[u] = reqBar[u]
  BY OthersKeepTheirRequest
<1>2. /\ reqBar = [u \in Threads |-> reqBar[u]]
      /\ reqBar' = [u \in Threads |-> reqBar'[u]]
  BY DEF reqBar
<1> HIDE DEF reqBar
<1>3. QED  BY <1>1, <1>2

\* Calls and returns change requests only; the array's occupied part stays.
LEMMA CallsRefine ==
    ASSUME IndInv, [Next]_vars, NEW t \in Threads,
           (\E v \in Values : CallAdd(t, v)) \/ CallGet(t) \/ AddUnlock(t) \/ GetUnlock(t)
    PROVE  Stack!Next
<1>1. stackBar' = stackBar
  BY DEF stackBar, CallAdd, CallGet, AddUnlock, GetUnlock
<1>2. ASSUME NEW v \in Values, CallAdd(t, v)  PROVE Stack!CallAdd(t, v)
  <2>1. Goto(t, "idle", "addWaitEmpty")  BY <1>2 DEF CallAdd
  <2>2. reqBar' = [reqBar EXCEPT ![t] = reqBar'[t]]
    BY <1>2, <2>1, OneRequestChanges DEF CallAdd, IndInv, TypeOK, PC
  <2>3. reqBar[t].op = "idle"  BY <2>1 DEF reqBar, Goto
  <2>4. reqBar'[t] = Stack!Request("add", v)
    BY <1>2, <2>1 DEF reqBar, Goto, CallAdd, Stack!Request, IndInv, TypeOK
  <2>5. QED  BY <1>1, <2>2, <2>3, <2>4 DEF Stack!CallAdd
<1>3. ASSUME CallGet(t)  PROVE Stack!CallGet(t)
  <2>1. Goto(t, "idle", "getWaitUsd")  BY <1>3 DEF CallGet
  <2>2. reqBar' = [reqBar EXCEPT ![t] = reqBar'[t]]
    BY <1>3, <2>1, OneRequestChanges DEF CallGet, PC
  <2>3. reqBar[t].op = "idle"  BY <2>1 DEF reqBar, Goto
  <2>4. reqBar'[t] = Stack!Request("get", NULL)
    BY <2>1 DEF reqBar, Goto, Stack!Request, IndInv, TypeOK
  <2>5. QED  BY <1>1, <2>2, <2>3, <2>4 DEF Stack!CallGet
<1>4. ASSUME AddUnlock(t) \/ GetUnlock(t)  PROVE Stack!Return(t)
  <2>1. PICK from \in {"addUnlock", "getUnlock"} : Goto(t, from, "idle")
    BY <1>4 DEF AddUnlock, GetUnlock
  <2>2. reqBar' = [reqBar EXCEPT ![t] = reqBar'[t]]
    BY <1>4, <2>1, OneRequestChanges
       DEF AddUnlock, GetUnlock, IndInv, TypeOK, PC, AddPC, GetPC
  <2>3. reqBar[t].op \in {"added", "got"}  BY <2>1 DEF reqBar, Goto
  <2>4. reqBar'[t] = Stack!Request("idle", NULL)
    BY <2>1 DEF reqBar, Goto, Stack!Request, IndInv, TypeOK
  <2>5. QED  BY <1>1, <2>2, <2>3, <2>4 DEF Stack!Return
<1>5. QED  BY <1>2, <1>3, <1>4 DEF Stack!Next, Stack!Step

\* The steps no caller can see.
LEMMA SilentRefine ==
    ASSUME IndInv, [Next]_vars, NEW t \in Threads,
           \/ AddWaitEmpty(t) \/ AddLock(t) \/ AddStore(t) \/ AddPost(t)
           \/ GetWaitUsd(t) \/ GetLock(t) \/ GetTake(t) \/ GetClear(t) \/ GetPost(t)
    PROVE  stackBar' = stackBar /\ reqBar' = reqBar
<1>1. stackBar' = stackBar
  <2>1. CASE AddStore(t) \/ GetClear(t)
    <3>1. \A i \in 1 .. pos_ : rpq'[i - 1] = rpq[i - 1]
      BY <2>1, RpQueueAssumption
         DEF AddStore, GetClear, IndInv, TypeOK, Slots, RpQueueAssumption
    <3>2. pos_' = pos_  BY <2>1 DEF AddStore, GetClear
    <3>3. QED  BY <3>1, <3>2 DEF stackBar
  <2>2. CASE UNCHANGED <<pos_, rpq>>
    BY <2>2 DEF stackBar
  <2>3. QED
    BY <2>1, <2>2 DEF AddWaitEmpty, AddLock, AddPost, GetWaitUsd, GetLock, GetTake, GetPost
<1>2. ASSUME NEW from \in PC, NEW to \in PC, Goto(t, from, to),
             UNCHANGED <<pos_, rpq, arg, ret>>,
             <<from, to>> \in {<<"addWaitEmpty", "addLock">>, <<"addLock", "addStore">>,
                               <<"addPost", "addUnlock">>, <<"getWaitUsd", "getLock">>,
                               <<"getLock", "getDrop">>, <<"getPost", "getUnlock">>}
      PROVE  reqBar' = reqBar
  <2>1. reqBar'[t] = reqBar[t]  BY <1>2 DEF reqBar, Goto, IndInv, TypeOK
  <2>2. QED  BY <1>2, <2>1, OneRequestChanges
<1>3. ASSUME AddStore(t) \/ GetClear(t)  PROVE reqBar' = reqBar
  <2>1. PICK from \in {"addStore", "getClear"} :
          \E to \in {"addBump", "getPost"} : Goto(t, from, to)
    BY <1>3 DEF AddStore, GetClear
  <2>2. reqBar'[t] = reqBar[t]
    BY <1>3 DEF AddStore, GetClear, reqBar, Goto, IndInv, TypeOK
  <2>3. QED
    BY <1>3, <2>1, <2>2, OneRequestChanges
       DEF AddStore, GetClear, Critical, PC, AddPC, GetPC
<1>4. ASSUME GetTake(t)  PROVE reqBar' = reqBar
  <2>1. Goto(t, "getTake", "getClear")  BY <1>4 DEF GetTake
  <2>2. reqBar'[t] = reqBar[t]
    BY <1>4 DEF GetTake, reqBar, Goto, IndInv, TypeOK
  <2>3. QED
    BY <1>4, <2>1, <2>2, OneRequestChanges DEF GetTake, PC, GetPC, IndInv, TypeOK
<1>5. QED
  BY <1>1, <1>2, <1>3, <1>4
     DEF AddWaitEmpty, AddLock, AddPost, GetWaitUsd, GetLock, GetPost, PC, AddPC, GetPC

\* pos_ += 1 in add is the moment the value is inside.
LEMMA BumpRefines ==
    ASSUME IndInv, [Next]_vars, NEW t \in Threads, AddBump(t)
    PROVE  Stack!Push(t)
<1>1. Goto(t, "addBump", "addPost")  BY DEF AddBump
<1>2. reqBar' = [reqBar EXCEPT ![t] = reqBar'[t]]
  BY <1>1, OneRequestChanges
     DEF AddBump, Critical, PC, AddPC
<1>3. reqBar[t] = [op |-> "add", val |-> arg[t]]
  BY <1>1 DEF reqBar, Goto
<1>4. reqBar'[t] = Stack!Request("added", NULL)
  BY <1>1 DEF reqBar, Goto, Stack!Request, IndInv, TypeOK
<1>5. /\ pos_ \in Nat /\ pos_ < QUEUE_SIZE
      /\ pos_' = pos_ + 1 /\ rpq' = rpq
      /\ rpq[pos_] = arg[t]
  BY <1>1, TokenBounds
     DEF AddBump, Goto, IndInv, TypeOK, SlotsInBounds, StoredIntact, At
<1>6. stackBar' = Append(stackBar, arg[t])
  BY <1>5 DEF stackBar
<1>7. Len(stackBar) = pos_
  BY <1>5 DEF stackBar
<1>8. QED  BY <1>2, <1>3, <1>4, <1>5, <1>6, <1>7 DEF Stack!Push

\* pos_ -= 1 in get is the moment the youngest value is out: nobody can touch its
\* slot before ret is read.
LEMMA DropRefines ==
    ASSUME IndInv, [Next]_vars, NEW t \in Threads, GetDrop(t)
    PROVE  Stack!Pop(t)
<1>1. Goto(t, "getDrop", "getTake")  BY DEF GetDrop
<1>2. reqBar' = [reqBar EXCEPT ![t] = reqBar'[t]]
  BY <1>1, OneRequestChanges
     DEF GetDrop, Critical, PC, GetPC
<1>3. reqBar[t].op = "get"
  BY <1>1 DEF reqBar, Goto
<1>4. /\ pos_ \in Nat /\ pos_ > 0
      /\ pos_' = pos_ - 1 /\ rpq' = rpq
  BY <1>1, TokenBounds
     DEF GetDrop, Goto, IndInv, TypeOK, SlotsInBounds, At
<1>5. /\ Len(stackBar) = pos_
      /\ stackBar[pos_] = rpq[pos_ - 1]
      /\ stackBar' = SubSeq(stackBar, 1, pos_ - 1)
  BY <1>4 DEF stackBar
<1>6. reqBar'[t] = Stack!Request("got", stackBar[pos_])
  BY <1>1, <1>4, <1>5 DEF reqBar, Goto, Stack!Request, IndInv, TypeOK
<1>7. QED  BY <1>2, <1>3, <1>4, <1>5, <1>6 DEF Stack!Pop

LEMMA StepRefines == IndInv /\ [Next]_vars => [Stack!Next]_(Stack!stackVars)
<1> SUFFICES ASSUME IndInv, [Next]_vars PROVE [Stack!Next]_(Stack!stackVars)
  OBVIOUS
<1>1. CASE UNCHANGED vars
  BY <1>1 DEF vars, stackBar, reqBar, Stack!stackVars
<1>2. ASSUME NEW t \in Threads,
             (\E v \in Values : CallAdd(t, v)) \/ CallGet(t) \/ AddUnlock(t) \/ GetUnlock(t)
      PROVE  Stack!Next
  BY <1>2, CallsRefine
<1>3. ASSUME NEW t \in Threads,
             \/ AddWaitEmpty(t) \/ AddLock(t) \/ AddStore(t) \/ AddPost(t)
             \/ GetWaitUsd(t) \/ GetLock(t) \/ GetTake(t) \/ GetClear(t) \/ GetPost(t)
      PROVE  UNCHANGED Stack!stackVars
  BY <1>3, SilentRefine DEF Stack!stackVars
<1>4. ASSUME NEW t \in Threads, AddBump(t) \/ GetDrop(t)
      PROVE  Stack!Next
  BY <1>4, BumpRefines, DropRefines DEF Stack!Next, Stack!Step
<1>5. QED  BY <1>1, <1>2, <1>3, <1>4 DEF Next, Continue

\* For every number of threads and every QUEUE_SIZE, add and get together are a
\* linearizable bounded stack: each call takes effect once, between its call and
\* its return, and a get returns the youngest value inside.
THEOREM Linearizable == Spec => ImplementsStack
<1>1. Init => Stack!Init  BY InitRefines
<1>2. IndInv /\ [Next]_vars => [Stack!Next]_(Stack!stackVars)  BY StepRefines
<1>3. QED  BY <1>1, <1>2, Inductive, PTL DEF Spec, ImplementsStack, Stack!Spec
=============================================================================
