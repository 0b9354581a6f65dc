-------------------------- MODULE Reposter_proofs ---------------------------
(***************************************************************************)
(* The safety properties of Reposter, for any posts, QUEUE_SIZE and bound  *)
(* on metrics.                                                             *)
(***************************************************************************)
EXTENDS Reposter, SequenceTheorems, TLAPS

Working == {"add_post", "NewPost", "update_metric", "get_post", "PostMetric"}
Before  == {"init", "started_net"}
Ending  == {"add_null", "quit_loop", "join_loop", "join_con", "uninit", "stopped"}

\* The steps of the loop thread.
LoopNext == LoopStep \/ LoopDispatched \/ \E u \in Uuids : ReceivedIm(u)

BossNext == BossStep \/ BossCall

-----------------------------------------------------------------------------
(* Types *)

FlagsOK == running \in BOOLEAN /\ quit \in BOOLEAN /\ running_ \in BOOLEAN

PlacesOK ==
    /\ loop \in LoopPlaces
    /\ con \in ConPlaces
    /\ boss \in BossPlaces
    /\ curr \in Values /\ (con \in Working => curr \in Uuids)
    /\ bosspost \in Values /\ (boss = "add_post" => bosspost \in Uuids)

TablesOK ==
    /\ updated_p \in Metrics
    /\ list \in [Uuids -> Metrics \cup {Absent}]
    /\ posts \in [Uuids -> Metrics \cup {Absent}]
    /\ ui \in [Uuids -> Metrics \cup {Absent}]
    /\ removed \subseteq Uuids

-----------------------------------------------------------------------------
(* What is invariant *)

\* Where the browser thread is tells whether the network runs, the consumer exists and
\* the storage object lives; the consumer is joined before the object goes.
Phases ==
    /\ running <=> boss \in {"started_net", "idle", "add_post", "NewPost"}
    /\ con = "unborn" <=> boss \in Before
    /\ store = IF boss \in Before THEN "none" ELSE IF boss = "stopped" THEN "deleted" ELSE "live"
    /\ boss \in {"uninit", "stopped"} => con = "exited"
    /\ running_ \/ con = "unborn" \/ boss \in {"join_con", "uninit", "stopped"}
    /\ con = "exited" => boss \in Ending

\* Nobody holds the poison pill before stopRepost.
NoPill ==
    /\ \A i \in 1 .. Len(in_queue) : in_queue[i] # NULL
    /\ \A t \in Threads : call[t].op \in {"add", "got"} => call[t].val # NULL

PillLate == NoPill \/ boss \in Ending

Row(u)     == IF posts[u] = Absent THEN 0 ELSE 1
Pending(u) == IF con = "NewPost" /\ curr = u THEN 1 ELSE 0

\* Births are rows, less the one the consumer has inserted and not yet announced.
BirthsAreRows == born \in [Uuids -> Int] /\ \A u \in Uuids : born[u] = Row(u) - Pending(u)

\* Whatever a thread is about to show is not ahead of the table either.
NobodyAhead ==
    \A u \in Uuids \ removed :
        /\ ui[u] <= posts[u]
        /\ list[u] <= posts[u]
        /\ con = "PostMetric" /\ curr = u => updated_p <= posts[u]
        /\ con = "NewPost" /\ curr = u => 0 <= posts[u]

IndInv ==
    /\ Queue!StackTypeOK /\ FlagsOK /\ PlacesOK /\ TablesOK
    /\ Phases /\ PillLate /\ BirthsAreRows /\ NobodyAhead

-----------------------------------------------------------------------------
(* The queue *)

\* What Pop leaves.
LEMMA FrontFacts ==
    ASSUME NEW S, NEW s \in Seq(S), Len(s) > 0
    PROVE  /\ SubSeq(s, 1, Len(s) - 1) \in Seq(S)
           /\ Len(SubSeq(s, 1, Len(s) - 1)) = Len(s) - 1
           /\ \A i \in 1 .. Len(s) - 1 : SubSeq(s, 1, Len(s) - 1)[i] = s[i]
<1> DEFINE n == Len(s) - 1
<1>1. n \in Int /\ 0 <= n /\ 1 \in Int /\ n < Len(s)
      OBVIOUS
<1>2. \A i \in 1 .. n : s[i] \in S
      OBVIOUS
<1> HIDE DEF n
<1>3. /\ SubSeq(s, 1, n) \in Seq(S)
      /\ Len(SubSeq(s, 1, n)) = IF 1 <= n THEN n - 1 + 1 ELSE 0
      /\ \A i \in 1 .. n - 1 + 1 : SubSeq(s, 1, n)[i] = s[1 + i - 1]
      BY <1>1, <1>2, SubSeqProperties
<1>4. Len(SubSeq(s, 1, n)) = n
      BY <1>1, <1>3
<1>5. \A i \in 1 .. n : SubSeq(s, 1, n)[i] = s[i]
  <2>1. SUFFICES ASSUME NEW i \in 1 .. n PROVE SubSeq(s, 1, n)[i] = s[i]
        OBVIOUS
  <2>2. i \in 1 .. n - 1 + 1 /\ 1 + i - 1 = i
        BY <1>1
  <2>3. QED
        BY <1>3, <2>2
<1>6. QED
      BY <1>3, <1>4, <1>5, Zenon DEF n

LEMMA AddFacts ==
    ASSUME Queue!StackTypeOK, NEW t \in Threads, NEW v \in Values
    PROVE  /\ Queue!CallAdd(t, v) => Queue!StackTypeOK'
           /\ Queue!Push(t) => Queue!StackTypeOK'
           /\ Queue!CallAdd(t, v) /\ v # NULL /\ NoPill => NoPill'
           /\ Queue!Push(t) /\ NoPill => NoPill'
<1> USE DEF Queue!StackTypeOK, Queue!Ops, Queue!Request
<1>1. Queue!CallAdd(t, v) => Queue!StackTypeOK'
      BY DEF Queue!CallAdd
<1>2. Queue!CallAdd(t, v) /\ v # NULL /\ NoPill => NoPill'
      BY DEF Queue!CallAdd, NoPill
<1>3. ASSUME Queue!Push(t)
      PROVE  /\ in_queue' \in Seq(Values)
             /\ Len(in_queue') = Len(in_queue) + 1
             /\ \A i \in 1 .. Len(in_queue) : in_queue'[i] = in_queue[i]
             /\ in_queue'[Len(in_queue) + 1] = call[t].val
      BY <1>3 DEF Queue!Push
<1>4. Queue!Push(t) => Queue!StackTypeOK'
  <2>1. SUFFICES ASSUME Queue!Push(t) PROVE Queue!StackTypeOK'
        OBVIOUS
  <2>2. NULL \in Values
        BY DEF Values
  <2>3. call' \in [Threads -> [op : Queue!Ops, val : Values]]
        BY <2>1, <2>2 DEF Queue!Push
  <2>4. Len(in_queue') <= QUEUE_SIZE
        BY <1>3, <2>1, ReposterAssumption DEF Queue!Push
  <2>5. QED
        BY <1>3, <2>1, <2>3, <2>4
<1>5. Queue!Push(t) /\ NoPill => NoPill'
  <2>1. SUFFICES ASSUME Queue!Push(t), NoPill PROVE NoPill'
        OBVIOUS
  <2>2. call[t].val # NULL
        BY <2>1 DEF NoPill, Queue!Push
  <2>3. \A i \in 1 .. Len(in_queue') : in_queue'[i] # NULL
        BY <1>3, <2>1, <2>2 DEF NoPill
  <2>4. \A s \in Threads : call'[s].op \in {"add", "got"} => call'[s].val # NULL
        BY <2>1 DEF NoPill, Queue!Push
  <2>5. QED
        BY <2>3, <2>4 DEF NoPill
<1>6. QED
      BY <1>1, <1>2, <1>4, <1>5

LEMMA GetFacts ==
    ASSUME Queue!StackTypeOK, NEW t \in Threads
    PROVE  /\ Queue!CallGet(t) \/ Queue!Pop(t) \/ Queue!Return(t) => Queue!StackTypeOK'
           /\ (Queue!CallGet(t) \/ Queue!Pop(t) \/ Queue!Return(t)) /\ NoPill => NoPill'
<1> USE DEF Queue!StackTypeOK, Queue!Ops, Queue!Request
<1>0. NULL \in Values
      BY DEF Values
<1>1. Queue!CallGet(t) \/ Queue!Return(t) => Queue!StackTypeOK' /\ (NoPill => NoPill')
      BY <1>0 DEF Queue!CallGet, Queue!Return, NoPill
<1>2. ASSUME Queue!Pop(t)
      PROVE  Queue!StackTypeOK' /\ (NoPill => NoPill')
  <2>1. /\ Len(in_queue) \in Nat \ {0}
        /\ in_queue[Len(in_queue)] \in Values
        BY <1>2 DEF Queue!Pop
  <2>2. /\ in_queue' \in Seq(Values)
        /\ Len(in_queue') = Len(in_queue) - 1
        /\ \A i \in 1 .. Len(in_queue') : in_queue'[i] = in_queue[i]
        BY <1>2, <2>1, FrontFacts DEF Queue!Pop
  <2>3. call' \in [Threads -> [op : Queue!Ops, val : Values]]
        BY <1>2, <2>1 DEF Queue!Pop
  <2>4. Len(in_queue') <= QUEUE_SIZE
        BY <2>1, <2>2, ReposterAssumption
  <2>5. ASSUME NoPill PROVE NoPill'
    <3>1. in_queue[Len(in_queue)] # NULL
          BY <2>1, <2>5 DEF NoPill
    <3>2. \A i \in 1 .. Len(in_queue') : in_queue'[i] # NULL
          BY <2>1, <2>2, <2>5 DEF NoPill
    <3>3. \A s \in Threads : call'[s].op \in {"add", "got"} => call'[s].val # NULL
          BY <1>2, <2>5, <3>1 DEF NoPill, Queue!Pop
    <3>4. QED
          BY <3>2, <3>3 DEF NoPill
  <2>6. QED
        BY <2>2, <2>3, <2>4, <2>5
<1>3. QED
      BY <1>1, <1>2

-----------------------------------------------------------------------------
(* The three threads *)

\* The loop thread does nothing but move on and add what it received.
LEMMA LoopFrame ==
    ASSUME LoopNext
    PROVE  /\ UNCHANGED <<running, conVars, bossVars, dataVars>>
           /\ loop' \in {"created", "check", "dispatch", "done"}
           /\ quit' \in {quit, FALSE}
           /\ \/ UNCHANGED queueVars
              \/ \E u \in Uuids : Queue!CallAdd("loop", u)
              \/ Queue!Push("loop")
              \/ Queue!Return("loop")
BY DEF LoopNext, LoopStep, LoopNew, LoopRun, LoopIterate, LoopDone, LoopDispatched, ReceivedIm,
       ReceivedImAdd, LoopGo

LEMMA ConFrame ==
    ASSUME ConStep
    PROVE  /\ UNCHANGED <<running_, netVars, bossVars, store, removed>>
           /\ \/ UNCHANGED queueVars
              \/ Queue!CallGet("consumer")
              \/ Queue!Pop("consumer")
              \/ Queue!Return("consumer")
BY DEF ConStep, ConWhile, ConGet, ConGot, ConAddPost, ConNewPost, ConUpdateMetric, ConGetPost,
       ConPostMetric, ConGo

LEMMA BossFrame ==
    ASSUME BossNext
    PROVE  /\ UNCHANGED <<curr, updated_p>>
           /\ con' = con \/ StartConsumer
           /\ \/ UNCHANGED queueVars
              \/ Queue!CallAdd("boss", NULL) /\ boss' = "add_null"
              \/ Queue!Push("boss")
              \/ Queue!Return("boss")
BY DEF BossNext, BossStep, BossCall, BossGo, StartNetwork, StartConsumer, SendPost, SendPostAdd,
       Upboat, Downboat, GetInitialPosts, InitialNewPost, InitialDone, StopNetwork, StopAddNull,
       StopQuitLoop, StopJoinLoop, StopJoinConsumer, StopUninit, conVars

LEMMA Cases == Next => LoopNext \/ ConStep \/ BossNext
BY DEF Next, LoopNext, BossNext

-----------------------------------------------------------------------------
(* One lemma per part of the invariant *)

LEMMA QueueStep ==
    ASSUME Queue!StackTypeOK, Next
    PROVE  Queue!StackTypeOK'
<1>1. UNCHANGED queueVars => Queue!StackTypeOK'
      BY DEF queueVars, Queue!StackTypeOK
<1>2. NULL \in Values /\ Uuids \subseteq Values
      BY DEF Values
<1>3. "loop" \in Threads /\ "consumer" \in Threads /\ "boss" \in Threads
      BY DEF Threads
<1>4. CASE LoopNext
      BY <1>1, <1>2, <1>3, <1>4, LoopFrame, AddFacts, GetFacts
<1>5. CASE ConStep
      BY <1>1, <1>2, <1>3, <1>5, ConFrame, GetFacts
<1>6. CASE BossNext
      BY <1>1, <1>2, <1>3, <1>6, BossFrame, AddFacts, GetFacts
<1>7. QED
      BY <1>4, <1>5, <1>6, Cases

\* Only the pill of stopRepost is a null pointer, and with it boss is Ending.
LEMMA PillStep ==
    ASSUME Queue!StackTypeOK, PillLate, BossNext => (boss \in Ending => boss' \in Ending), Next
    PROVE  PillLate'
<1>1. UNCHANGED queueVars /\ NoPill => NoPill'
      BY DEF queueVars, NoPill
<1>2. NULL \in Values /\ Uuids \subseteq Values /\ \A u \in Uuids : u # NULL
      BY ReposterAssumption DEF Values
<1>3. "loop" \in Threads /\ "consumer" \in Threads /\ "boss" \in Threads
      BY DEF Threads
<1>4. CASE LoopNext
  <2>1. NoPill => NoPill'
        BY <1>1, <1>2, <1>3, <1>4, LoopFrame, AddFacts, GetFacts
  <2>2. boss' = boss
        BY <1>4, LoopFrame DEF bossVars
  <2>3. QED
        BY <2>1, <2>2 DEF PillLate
<1>5. CASE ConStep
  <2>1. NoPill => NoPill'
        BY <1>1, <1>3, <1>5, ConFrame, GetFacts
  <2>2. boss' = boss
        BY <1>5, ConFrame DEF bossVars
  <2>3. QED
        BY <2>1, <2>2 DEF PillLate
<1>6. CASE BossNext
  <2>1. NoPill => NoPill' \/ boss' = "add_null"
        BY <1>1, <1>2, <1>3, <1>6, BossFrame, AddFacts, GetFacts
  <2>2. QED
        BY <1>6, <2>1 DEF PillLate, Ending
<1>7. QED
      BY <1>4, <1>5, <1>6, Cases

LEMMA FlagsStep ==
    ASSUME FlagsOK, Next
    PROVE  FlagsOK'
<1>1. running' \in BOOLEAN
  <2>1. running' = running \/ running' = TRUE \/ running' = FALSE
        BY DEF Next, LoopStep, LoopNew, LoopRun, LoopIterate, LoopDone, LoopDispatched, ReceivedIm,
               ReceivedImAdd, LoopGo, ConStep, ConWhile, ConGet, ConGot, ConAddPost, ConNewPost,
               ConUpdateMetric, ConGetPost, ConPostMetric, ConGo, BossStep, BossCall, StartNetwork,
               StartConsumer, SendPost, SendPostAdd, Upboat, Downboat, GetInitialPosts,
               InitialNewPost, InitialDone, StopNetwork, StopAddNull, StopQuitLoop, StopJoinLoop,
               StopJoinConsumer, StopUninit, netVars
  <2>2. QED
        BY <2>1 DEF FlagsOK
<1>2. running_' \in BOOLEAN
  <2>1. running_' = running_ \/ running_' = TRUE \/ running_' = FALSE
        BY DEF Next, LoopStep, LoopNew, LoopRun, LoopIterate, LoopDone, LoopDispatched, ReceivedIm,
               ReceivedImAdd, LoopGo, ConStep, ConWhile, ConGet, ConGot, ConAddPost, ConNewPost,
               ConUpdateMetric, ConGetPost, ConPostMetric, ConGo, BossStep, BossCall, StartNetwork,
               StartConsumer, SendPost, SendPostAdd, Upboat, Downboat, GetInitialPosts,
               InitialNewPost, InitialDone, StopNetwork, StopAddNull, StopQuitLoop, StopJoinLoop,
               StopJoinConsumer, StopUninit, conVars
  <2>2. QED
        BY <2>1 DEF FlagsOK
<1>3. quit' \in BOOLEAN
  <2>1. quit' = quit \/ quit' = FALSE \/ quit' = (loop # "starting")
        BY DEF Next, LoopStep, LoopNew, LoopRun, LoopIterate, LoopDone, LoopDispatched, ReceivedIm,
               ReceivedImAdd, LoopGo, ConStep, ConWhile, ConGet, ConGot, ConAddPost, ConNewPost,
               ConUpdateMetric, ConGetPost, ConPostMetric, ConGo, BossStep, BossCall, StartNetwork,
               StartConsumer, SendPost, SendPostAdd, Upboat, Downboat, GetInitialPosts,
               InitialNewPost, InitialDone, StopNetwork, StopAddNull, StopQuitLoop, StopJoinLoop,
               StopJoinConsumer, StopUninit, netVars
  <2>2. (loop # "starting") \in BOOLEAN
        OBVIOUS
  <2>3. QED
        BY <2>1, <2>2, Zenon DEF FlagsOK
<1>4. QED
      BY <1>1, <1>2, <1>3 DEF FlagsOK

\* consume() works on a post from getpost() to its announcement, and never on NULL.
LEMMA PlacesStep ==
    ASSUME Queue!StackTypeOK, PlacesOK, Next
    PROVE  PlacesOK'
<1> USE DEF PlacesOK, LoopPlaces, ConPlaces, BossPlaces, Working
<1>1. NULL \in Values /\ Uuids \subseteq Values
      BY DEF Values
<1>2. CASE LoopNext
      BY <1>2, LoopFrame DEF conVars, bossVars
<1>3. CASE ConStep
  <2>1. loop' = loop /\ boss' = boss /\ bosspost' = bosspost
        BY <1>3, ConFrame DEF netVars, bossVars
  <2>2. con' \in ConPlaces /\ curr' \in Values /\ (con' \in Working => curr' \in Uuids)
    <3>1. CASE ConGot
      <4>1. call["consumer"].val \in Values
            BY DEF Queue!StackTypeOK, Threads
      <4>2. QED
            BY <3>1, <4>1 DEF ConGot, ConGo, Values
    <3>2. QED
          BY <1>1, <1>3, <3>1 DEF ConStep, ConWhile, ConGet, ConAddPost, ConNewPost, ConUpdateMetric,
             ConGetPost, ConPostMetric, ConGo
  <2>3. QED
        BY <2>1, <2>2
<1>4. CASE BossNext
  <2>1. curr' = curr /\ (con' = con \/ con' = "while")
        BY <1>4, BossFrame DEF StartConsumer
  <2>2. loop' = loop \/ loop' = "starting"
        BY <1>4 DEF BossNext, BossStep, BossCall, StartNetwork, StartConsumer, SendPost,
           SendPostAdd, Upboat, Downboat, GetInitialPosts, InitialNewPost, InitialDone, StopNetwork,
           StopAddNull, StopQuitLoop, StopJoinLoop, StopJoinConsumer, StopUninit, netVars
  <2>3. boss' \in BossPlaces /\ bosspost' \in Values /\ (boss' = "add_post" => bosspost' \in Uuids)
        BY <1>1, <1>4 DEF BossNext, BossStep, BossCall, BossGo, StartNetwork, StartConsumer,
           SendPost, SendPostAdd, Upboat, Downboat, GetInitialPosts, InitialNewPost, InitialDone,
           StopNetwork, StopAddNull, StopQuitLoop, StopJoinLoop, StopJoinConsumer, StopUninit
  <2>4. QED
        BY <2>1, <2>2, <2>3
<1>5. QED
      BY <1>2, <1>3, <1>4, Cases

\* What a storage call may do to the table.
LEMMA TableFacts ==
    ASSUME posts \in [Uuids -> Metrics \cup {Absent}], NEW u \in Uuids
    PROVE  /\ Inserted(u) \/ NotInserted \/ Incremented(u) =>
                 /\ posts' \in [Uuids -> Metrics \cup {Absent}]
                 /\ \A w \in Uuids : posts[w] <= posts'[w]
           /\ Inserted(u) => /\ posts[u] = Absent /\ posts'[u] = 0
                             /\ \A w \in Uuids \ {u} : posts'[w] = posts[w]
           /\ NotInserted \/ Incremented(u) =>
                 \A w \in Uuids : posts[w] = Absent <=> posts'[w] = Absent
BY ReposterAssumption DEF Inserted, NotInserted, Incremented, Exists, Metrics, Absent

LEMMA TablesStep ==
    ASSUME PlacesOK, TablesOK, Next
    PROVE  TablesOK'
<1>1. CASE LoopNext
      BY <1>1, LoopFrame DEF conVars, bossVars, dataVars, TablesOK
<1>2. CASE ConStep
  <2>1. list' = list /\ removed' = removed
        BY <1>2, ConFrame DEF bossVars
  <2>2. posts' \in [Uuids -> Metrics \cup {Absent}]
    <3>1. posts' = posts \/ (curr \in Uuids /\ (Inserted(curr) \/ Incremented(curr)))
          BY <1>2 DEF ConStep, ConWhile, ConGet, ConGot, ConAddPost, ConNewPost, ConUpdateMetric,
             ConGetPost, ConPostMetric, ConGo, NotInserted, PlacesOK, Working
    <3>2. QED
          BY <3>1, TableFacts DEF TablesOK
  <2>3. updated_p' \in Metrics
    <3>1. updated_p' = updated_p \/ updated_p' = 0
             \/ (curr \in Uuids /\ Exists(curr) /\ updated_p' = posts[curr])
          BY <1>2 DEF ConStep, ConWhile, ConGet, ConGot, ConAddPost, ConNewPost, ConUpdateMetric,
             ConGetPost, ConPostMetric, ConGo, PlacesOK, Working
    <3>2. QED
          BY <3>1, ReposterAssumption DEF TablesOK, Exists, Metrics
  <2>4. ui' \in [Uuids -> Metrics \cup {Absent}]
    <3>1. ui' = ui \/ \E m \in {0, updated_p} : ui' = [ui EXCEPT ![curr] = m]
          BY <1>2 DEF ConStep, ConWhile, ConGet, ConGot, ConAddPost, ConNewPost, ConUpdateMetric,
             ConGetPost, ConPostMetric, ConGo
    <3>2. QED
          BY <3>1, ReposterAssumption DEF TablesOK, Metrics
  <2>5. QED
        BY <2>1, <2>2, <2>3, <2>4 DEF TablesOK
<1>3. CASE BossNext
  <2>1. updated_p' = updated_p
        BY <1>3, BossFrame
  <2>2. posts' \in [Uuids -> Metrics \cup {Absent}]
    <3>1. \/ posts' = posts
          \/ \E u \in Uuids : Inserted(u) \/ Incremented(u) \/ posts' = [posts EXCEPT ![u] = Absent]
          BY <1>3 DEF BossNext, BossStep, BossCall, BossGo, StartNetwork, StartConsumer, SendPost,
             SendPostAdd, Upboat, Downboat, GetInitialPosts, InitialNewPost, InitialDone,
             StopNetwork, StopAddNull, StopQuitLoop, StopJoinLoop, StopJoinConsumer, StopUninit,
             dataVars, NotInserted, PlacesOK
    <3>2. QED
          BY <3>1, TableFacts DEF TablesOK
  <2>3. /\ list' \in [Uuids -> Metrics \cup {Absent}]
        /\ ui' \in [Uuids -> Metrics \cup {Absent}]
        /\ removed' \subseteq Uuids
        BY <1>3 DEF BossNext, BossStep, BossCall, BossGo, StartNetwork, StartConsumer, SendPost,
           SendPostAdd, Upboat, Downboat, GetInitialPosts, InitialNewPost, InitialDone, StopNetwork,
           StopAddNull, StopQuitLoop, StopJoinLoop, StopJoinConsumer, StopUninit, dataVars, TablesOK
  <2>4. QED
        BY <2>1, <2>2, <2>3 DEF TablesOK
<1>4. QED
      BY <1>1, <1>2, <1>3, Cases

\* The consumer leaves because of the pill or of running_, both of which come from
\* stopRepost.
LEMMA PhasesStep ==
    ASSUME FlagsOK, PlacesOK, PillLate, Phases, Next
    PROVE  Phases' /\ (BossNext => (boss \in Ending => boss' \in Ending))
<1> USE DEF Phases, Before, Ending
<1>1. CASE LoopNext
  <2>1. boss' = boss /\ UNCHANGED <<running, running_, con, store>>
        BY <1>1, LoopFrame DEF conVars, bossVars, dataVars
  <2>2. QED
        BY <2>1, <1>1 DEF LoopNext, BossNext
<1>2. CASE ConStep
  <2>1. boss' = boss /\ UNCHANGED <<running, running_, store>>
        BY <1>2, ConFrame DEF netVars, bossVars
  <2>2. con # "unborn" /\ con' # "unborn" /\ con # "exited"
        BY <1>2 DEF ConStep, ConWhile, ConGet, ConGot, ConAddPost, ConNewPost, ConUpdateMetric,
           ConGetPost, ConPostMetric, ConGo
  <2>3. con' = "exited" => boss \in Ending
    <3>1. CASE ConGot
          BY <3>1 DEF ConGot, ConGo, PillLate, NoPill, Threads
    <3>2. CASE ConWhile
          BY <3>2 DEF ConWhile, ConGo
    <3>3. QED
          BY <1>2, <3>1, <3>2 DEF ConStep, ConGet, ConAddPost, ConNewPost, ConUpdateMetric,
             ConGetPost, ConPostMetric, ConGo
  <2>4. QED
        BY <2>1, <2>2, <2>3
<1>3. CASE BossNext
      BY <1>3 DEF BossNext, BossStep, BossCall, BossGo, StartNetwork, StartConsumer, SendPost,
         SendPostAdd, Upboat, Downboat, GetInitialPosts, InitialNewPost, InitialDone, StopNetwork,
         StopAddNull, StopQuitLoop, StopJoinLoop, StopJoinConsumer, StopUninit, dataVars, netVars,
         conVars
<1>4. QED
      BY <1>1, <1>2, <1>3, Cases

\* The insert and the announcement of one row are separate steps of the consumer: between
\* them the row counts as pending, and the browser may remove it again.
LEMMA BirthsStep ==
    ASSUME PlacesOK, TablesOK, Phases, BirthsAreRows, Next
    PROVE  BirthsAreRows'
<1> USE DEF BirthsAreRows
<1>1. CASE UNCHANGED <<posts, born>> /\ (con = "NewPost" <=> con' = "NewPost")
             /\ (con = "NewPost" => curr' = curr)
      BY <1>1 DEF Row, Pending
<1>2. CASE LoopNext
      BY <1>1, <1>2, LoopFrame DEF conVars, dataVars
<1>3. CASE ConStep
  <2>1. CASE ConAddPost
    <3>1. curr \in Uuids /\ con = "add_post" /\ curr' = curr /\ born' = born
          BY <2>1 DEF ConAddPost, ConGo, PlacesOK, Working
    <3>2. CASE con' = "NewPost" /\ Inserted(curr)
      <4>1. /\ posts[curr] = Absent /\ posts'[curr] = 0
            /\ \A w \in Uuids \ {curr} : posts'[w] = posts[w]
            BY <3>1, <3>2, TableFacts DEF TablesOK
      <4>2. QED
            BY <3>1, <3>2, <4>1 DEF Row, Pending, Absent
    <3>3. CASE con' = "update_metric" /\ NotInserted
          BY <3>1, <3>3 DEF Row, Pending, NotInserted
    <3>4. QED
          BY <2>1, <3>2, <3>3 DEF ConAddPost, ConGo
  <2>2. CASE ConNewPost
    <3>1. /\ curr \in Uuids /\ con = "NewPost" /\ con' = "while" /\ posts' = posts
          /\ born' = [born EXCEPT ![curr] = @ + 1]
          BY <2>2 DEF ConNewPost, ConGo, PlacesOK, Working
    <3>2. born' \in [Uuids -> Int] /\ born'[curr] = born[curr] + 1
          BY <3>1
    <3>3. \A w \in Uuids : Row(w)' = Row(w) /\ Pending(w)' = 0
                           /\ Pending(w) = IF w = curr THEN 1 ELSE 0
          BY <3>1 DEF Row, Pending
    <3>4. Row(curr) \in Int
          BY DEF Row
    <3>5. \A w \in Uuids : born'[w] = Row(w)' - Pending(w)'
          BY <3>1, <3>2, <3>3, <3>4 DEF Row
    <3>6. QED
          BY <3>2, <3>5
  <2>3. CASE ConUpdateMetric
    <3>1. /\ curr \in Uuids /\ con = "update_metric" /\ con' = "get_post" /\ born' = born
          /\ Incremented(curr)
          BY <2>3 DEF ConUpdateMetric, ConGo, PlacesOK, Working
    <3>2. \A w \in Uuids : posts[w] = Absent <=> posts'[w] = Absent
          BY <3>1, TableFacts DEF TablesOK
    <3>3. QED
          BY <3>1, <3>2 DEF Row, Pending
  <2>4. CASE ConWhile \/ ConGet \/ ConGot \/ ConGetPost \/ ConPostMetric
        BY <1>1, <2>4 DEF ConWhile, ConGet, ConGot, ConGetPost, ConPostMetric, ConGo
  <2>5. QED
        BY <1>3, <2>1, <2>2, <2>3, <2>4 DEF ConStep
<1>4. CASE BossNext
  <2>1. curr' = curr
        BY <1>4, BossFrame
  <2>2. CASE SendPostAdd
    <3>1. bosspost \in Uuids /\ con' = con
          BY <2>2 DEF SendPostAdd, BossGo, PlacesOK, conVars
    <3>2. CASE Inserted(bosspost) /\ born' = [born EXCEPT ![bosspost] = @ + 1]
      <4>1. /\ posts[bosspost] = Absent /\ posts'[bosspost] = 0
            /\ \A w \in Uuids \ {bosspost} : posts'[w] = posts[w]
            BY <3>1, <3>2, TableFacts DEF TablesOK
      <4>2. \A w \in Uuids : Pending(w)' = Pending(w) /\ Pending(w) \in {0, 1}
            BY <2>1, <3>1 DEF Pending
      <4>3. \A w \in {bosspost} : Row(w) = 0 /\ Row(w)' = 1
            BY <4>1 DEF Row, Absent
      <4>4. /\ born' \in [Uuids -> Int]
            /\ \A w \in {bosspost} : born[w] \in Int /\ born'[w] = born[w] + 1
            BY <3>1, <3>2
      <4>5. \A w \in Uuids \ {bosspost} : Row(w)' = Row(w) /\ born'[w] = born[w]
            BY <3>1, <3>2, <4>1 DEF Row
      <4>6. \A w \in Uuids : born'[w] = Row(w)' - Pending(w)'
            BY <3>1, <4>2, <4>3, <4>4, <4>5
      <4>7. QED
            BY <4>4, <4>6
    <3>3. CASE NotInserted /\ born' = born
          BY <2>1, <3>1, <3>3 DEF Row, Pending, NotInserted
    <3>4. QED
          BY <2>2, <3>2, <3>3 DEF SendPostAdd
  <2>3. CASE \E u \in Uuids : Upboat(u)
    <3>1. PICK u \in Uuids : Upboat(u)
          BY <2>3
    <3>2. con' = con /\ born' = born /\ Incremented(u)
          BY <3>1 DEF Upboat, conVars
    <3>3. \A w \in Uuids : posts[w] = Absent <=> posts'[w] = Absent
          BY <3>2, TableFacts DEF TablesOK
    <3>4. QED
          BY <2>1, <3>2, <3>3 DEF Row, Pending
  <2>4. CASE \E u \in Uuids : Downboat(u)
    <3>1. PICK u \in Uuids : Downboat(u)
          BY <2>4
    <3>2. /\ con' = con /\ posts[u] # Absent /\ posts' = [posts EXCEPT ![u] = Absent]
          /\ born' = [born EXCEPT ![u] = @ - 1]
          BY <3>1 DEF Downboat, Exists, conVars
    <3>3. \A w \in Uuids : Pending(w)' = Pending(w) /\ Pending(w) \in {0, 1}
          BY <2>1, <3>2 DEF Pending
    <3>4. Row(u) = 1 /\ Row(u)' = 0
          BY <3>2 DEF Row, TablesOK
    <3>5. \A w \in Uuids \ {u} : Row(w)' = Row(w) /\ born'[w] = born[w]
          BY <3>2 DEF Row, TablesOK
    <3>6. born' \in [Uuids -> Int] /\ born'[u] = born[u] - 1
          BY <3>2
    <3>7. \A w \in Uuids : born'[w] = Row(w)' - Pending(w)'
          BY <3>3, <3>4, <3>5, <3>6
    <3>8. QED
          BY <3>6, <3>7
  <2>5. CASE StartConsumer
        BY <2>1, <2>5 DEF StartConsumer, BossGo, Phases, Before, Row, Pending
  <2>6. CASE UNCHANGED <<posts, born, con>>
        BY <1>1, <2>1, <2>6
  <2>7. QED
        BY <1>4, <2>2, <2>3, <2>4, <2>5, <2>6 DEF BossNext, BossStep, BossCall, StartNetwork,
           SendPost, GetInitialPosts, InitialNewPost, InitialDone, StopNetwork, StopAddNull,
           StopQuitLoop, StopJoinLoop, StopJoinConsumer, StopUninit, conVars, dataVars
<1>5. QED
      BY <1>2, <1>3, <1>4, Cases

\* The UI is shown a metric read earlier, and rows only grow until somebody removes them.
LEMMA AheadStep ==
    ASSUME PlacesOK, TablesOK, Phases, NobodyAhead, Next
    PROVE  NobodyAhead'
<1> SUFFICES ASSUME NEW u \in Uuids \ removed'
             PROVE  /\ ui'[u] <= posts'[u]
                    /\ list'[u] <= posts'[u]
                    /\ con' = "PostMetric" /\ curr' = u => updated_p' <= posts'[u]
                    /\ con' = "NewPost" /\ curr' = u => 0 <= posts'[u]
    BY DEF NobodyAhead
<1>0. Metrics \cup {Absent} \subseteq Int
      BY ReposterAssumption DEF Metrics, Absent
<1>1. /\ ui[u] \in Int /\ list[u] \in Int /\ posts[u] \in Int /\ posts'[u] \in Int
      /\ updated_p \in Int
      BY <1>0, TablesStep DEF TablesOK
\* A step that shows nothing, reads nothing and takes no row away.
<1>2. ASSUME u \notin removed, posts[u] <= posts'[u], UNCHANGED <<ui, list, updated_p>>,
             con' = "PostMetric" => con = "PostMetric" /\ curr' = curr,
             con' = "NewPost" => con = "NewPost" /\ curr' = curr
      PROVE  /\ ui'[u] <= posts'[u]
             /\ list'[u] <= posts'[u]
             /\ con' = "PostMetric" /\ curr' = u => updated_p' <= posts'[u]
             /\ con' = "NewPost" /\ curr' = u => 0 <= posts'[u]
      BY <1>1, <1>2 DEF NobodyAhead
<1>3. CASE LoopNext
      BY <1>1, <1>2, <1>3, LoopFrame DEF conVars, bossVars, dataVars
<1>4. CASE ConStep
  <2>1. u \notin removed /\ list' = list
        BY <1>4, ConFrame DEF bossVars
  <2>2. CASE ConAddPost
    <3>1. curr \in Uuids /\ curr' = curr /\ UNCHANGED <<ui, updated_p>>
          BY <2>2 DEF ConAddPost, ConGo, PlacesOK, Working
    <3>2. CASE con' = "NewPost" /\ Inserted(curr)
      <4>1. /\ posts'[curr] = 0 /\ posts[u] <= posts'[u]
            BY <3>1, <3>2, TableFacts DEF TablesOK
      <4>2. QED
            BY <1>1, <2>1, <3>1, <3>2, <4>1 DEF NobodyAhead
    <3>3. CASE con' = "update_metric" /\ NotInserted
          BY <1>1, <1>2, <2>1, <3>1, <3>3 DEF NotInserted
    <3>4. QED
          BY <2>2, <3>2, <3>3 DEF ConAddPost, ConGo
  <2>3. CASE ConNewPost
    <3>1. /\ curr \in Uuids /\ con = "NewPost" /\ con' = "while" /\ posts' = posts
          /\ ui' = [ui EXCEPT ![curr] = 0]
          BY <2>3 DEF ConNewPost, ConGo, PlacesOK, Working
    <3>2. ui'[u] <= posts'[u]
          BY <2>1, <3>1 DEF NobodyAhead, TablesOK
    <3>3. QED
          BY <2>1, <3>1, <3>2 DEF NobodyAhead
  <2>4. CASE ConUpdateMetric
    <3>1. /\ curr \in Uuids /\ con' = "get_post" /\ UNCHANGED <<ui, updated_p>>
          /\ Incremented(curr)
          BY <2>4 DEF ConUpdateMetric, ConGo, PlacesOK, Working
    <3>2. posts[u] <= posts'[u]
          BY <3>1, TableFacts DEF TablesOK
    <3>3. QED
          BY <1>2, <2>1, <3>1, <3>2
  <2>5. CASE ConGetPost
    <3>1. posts' = posts /\ ui' = ui /\ con' # "NewPost"
          BY <2>5 DEF ConGetPost, ConGo
    <3>2. con' = "PostMetric" => curr' = curr /\ updated_p' = posts[curr]
          BY <2>5 DEF ConGetPost, ConGo
    <3>3. QED
          BY <1>1, <2>1, <3>1, <3>2 DEF NobodyAhead
  <2>6. CASE ConPostMetric
    <3>1. /\ curr \in Uuids /\ con = "PostMetric" /\ con' = "while" /\ posts' = posts
          /\ ui' = [ui EXCEPT ![curr] = updated_p]
          BY <2>6 DEF ConPostMetric, ConGo, PlacesOK, Working
    <3>2. ui'[u] <= posts'[u]
          BY <2>1, <3>1 DEF NobodyAhead, TablesOK
    <3>3. QED
          BY <2>1, <3>1, <3>2 DEF NobodyAhead
  <2>7. CASE ConWhile \/ ConGet \/ ConGot
    <3>1. /\ UNCHANGED <<ui, posts, updated_p>>
          /\ con' # "PostMetric" /\ con' # "NewPost"
          BY <2>7 DEF ConWhile, ConGet, ConGot, ConGo
    <3>2. QED
          BY <1>1, <1>2, <2>1, <3>1
  <2>8. QED
        BY <1>4, <2>2, <2>3, <2>4, <2>5, <2>6, <2>7 DEF ConStep
<1>5. CASE BossNext
  <2>1. curr' = curr /\ updated_p' = updated_p
        BY <1>5, BossFrame
  <2>2. CASE SendPostAdd
    <3>1. bosspost \in Uuids /\ UNCHANGED <<con, ui, list, removed>>
          BY <2>2 DEF SendPostAdd, BossGo, PlacesOK, conVars
    <3>2. posts[u] <= posts'[u]
          BY <2>2, <3>1, TableFacts DEF SendPostAdd, TablesOK
    <3>3. QED
          BY <1>2, <2>1, <3>1, <3>2
  <2>3. CASE \E w \in Uuids : Upboat(w)
    <3>1. PICK w \in Uuids : Upboat(w)
          BY <2>3
    <3>2. UNCHANGED <<con, ui, list, removed>> /\ Incremented(w)
          BY <3>1 DEF Upboat, conVars
    <3>3. posts[u] <= posts'[u]
          BY <3>2, TableFacts DEF TablesOK
    <3>4. QED
          BY <1>2, <2>1, <3>2, <3>3
  <2>4. CASE \E w \in Uuids : Downboat(w)
    <3>1. PICK w \in Uuids : Downboat(w)
          BY <2>4
    <3>2. /\ UNCHANGED <<con, ui, list>> /\ removed' = removed \cup {w}
          /\ posts' = [posts EXCEPT ![w] = Absent]
          BY <3>1 DEF Downboat, conVars
    <3>3. u \notin removed /\ posts'[u] = posts[u]
          BY <3>2 DEF TablesOK
    <3>4. QED
          BY <1>1, <1>2, <2>1, <3>2, <3>3
  <2>5. CASE GetInitialPosts
    <3>1. list' = posts /\ UNCHANGED <<con, ui, posts, removed>>
          BY <2>5 DEF GetInitialPosts, conVars, dataVars
    <3>2. QED
          BY <1>1, <2>1, <3>1 DEF NobodyAhead
  <2>6. CASE \E w \in Uuids : InitialNewPost(w)
    <3>1. PICK w \in Uuids : InitialNewPost(w)
          BY <2>6
    <3>2. /\ UNCHANGED <<con, posts, removed>>
          /\ list[w] # Absent
          /\ ui' = [ui EXCEPT ![w] = list[w]]
          /\ list' = [list EXCEPT ![w] = Absent]
          BY <3>1 DEF InitialNewPost, conVars
    <3>3. ui'[u] <= posts'[u]
          BY <3>2 DEF NobodyAhead, TablesOK
    <3>4. Absent <= posts[u]
          BY ReposterAssumption DEF TablesOK, Metrics, Absent
    <3>5. list'[u] <= posts'[u]
          BY <3>2, <3>4 DEF NobodyAhead, TablesOK
    <3>6. QED
          BY <2>1, <3>2, <3>3, <3>5 DEF NobodyAhead
  <2>7. CASE StartConsumer
    <3>1. con' = "while" /\ UNCHANGED <<ui, list, posts, removed>>
          BY <2>7 DEF StartConsumer
    <3>2. QED
          BY <1>1, <1>2, <2>1, <3>1
  <2>8. CASE UNCHANGED <<con, ui, list, posts, removed>>
        BY <1>1, <1>2, <2>1, <2>8
  <2>9. QED
        BY <1>5, <2>2, <2>3, <2>4, <2>5, <2>6, <2>7, <2>8 DEF BossNext, BossStep, BossCall,
           StartNetwork, SendPost, InitialDone, StopNetwork, StopAddNull, StopQuitLoop,
           StopJoinLoop, StopJoinConsumer, StopUninit, conVars, dataVars
<1>6. QED
      BY <1>3, <1>4, <1>5, Cases

-----------------------------------------------------------------------------
(* The invariant, and what follows from it *)

LEMMA InitInv == Init => IndInv
<1> SUFFICES ASSUME Init PROVE IndInv
    OBVIOUS
<1> USE DEF Init
<1>1. NULL \in Values /\ Absent = -1 /\ 0 \in Metrics
      BY ReposterAssumption DEF Values, Absent, Metrics
<1>2. Queue!StackTypeOK
      BY <1>1, ReposterAssumption
      DEF Queue!StackTypeOK, Queue!Init, Queue!Request, Queue!Ops
<1>3. FlagsOK /\ PlacesOK
      BY <1>1 DEF FlagsOK, PlacesOK, LoopPlaces, ConPlaces, BossPlaces, Working
<1>4. TablesOK
      BY <1>1 DEF TablesOK, NoRows
<1>5. Phases /\ PillLate
      BY DEF Phases, Before, Ending, PillLate, NoPill, Queue!Init, Queue!Request
<1>6. BirthsAreRows
      BY <1>1 DEF BirthsAreRows, Row, Pending
<1>7. NobodyAhead
      BY <1>1 DEF NobodyAhead, NoRows
<1>8. QED
      BY <1>2, <1>3, <1>4, <1>5, <1>6, <1>7 DEF IndInv

LEMMA Inductive == IndInv /\ [Next]_vars => IndInv'
<1> SUFFICES ASSUME IndInv, [Next]_vars PROVE IndInv'
    OBVIOUS
<1>1. CASE Next
  <2>1. Phases' /\ PillLate'
        BY <1>1, PhasesStep, PillStep DEF IndInv
  <2>2. QED
        BY <1>1, <2>1, QueueStep, FlagsStep, PlacesStep, TablesStep, BirthsStep, AheadStep DEF IndInv
<1>2. CASE UNCHANGED vars
      BY <1>2 DEF vars, queueVars, netVars, conVars, bossVars, dataVars, IndInv,
         Queue!StackTypeOK, FlagsOK, PlacesOK, TablesOK, Phases, PillLate, NoPill, BirthsAreRows,
         Row, Pending, NobodyAhead
<1>3. QED
      BY <1>1, <1>2

LEMMA Invariant == Spec => []IndInv
BY InitInv, Inductive, PTL DEF Spec

\* Every variable keeps its type, the bounds of born included.
THEOREM TypeCorrect == Spec => []TypeOK
<1>1. IndInv => TypeOK
  <2>1. SUFFICES ASSUME IndInv PROVE TypeOK
        OBVIOUS
  <2>2. born \in [Uuids -> -1 .. 2]
        BY <2>1 DEF IndInv, BirthsAreRows, Row, Pending
  <2>3. QED
        BY <2>1, <2>2 DEF IndInv, TypeOK, FlagsOK, PlacesOK, TablesOK, Phases
<1>2. QED
      BY <1>1, Invariant, PTL

\* For any number of posts and any length of the queue: a post is announced as new, or
\* entered by sendPost, at most once for every time it was not in the table.
THEOREM BornOnce == Spec => []BornOncePerRow
<1>1. IndInv => BornOncePerRow
      BY DEF IndInv, BirthsAreRows, Row, Pending, BornOncePerRow
<1>2. QED
      BY <1>1, Invariant, PTL

\* The UI never shows a post without a row, nor a metric its row has not reached, unless
\* the post has been removed by a downboat.
THEOREM UiFollowsTable == Spec => []UiNeverAhead
<1>1. IndInv => UiNeverAhead
      BY DEF IndInv, NobodyAhead, UiNeverAhead
<1>2. QED
      BY <1>1, Invariant, PTL

\* No thread calls the storage object before it exists or after uninit has deleted it.
THEOREM StorageUsedAlive == Spec => []StorageAlive
<1>1. IndInv => StorageAlive
      BY DEF IndInv, Phases, Before, Ending, StorageAlive
<1>2. QED
      BY <1>1, Invariant, PTL

\* The consumer thread ends only once stopRepost has begun.
THEOREM ConsumerStays == Spec => []ConsumerOutlivesNetwork
<1>1. IndInv => ConsumerOutlivesNetwork
      BY DEF IndInv, Phases, Ending, ConsumerOutlivesNetwork
<1>2. QED
      BY <1>1, Invariant, PTL

-----------------------------------------------------------------------------
(* The board *)

\* Where a step leads to and whether it is a step of the board.
BoardStep == Board!Next \/ UNCHANGED Board!boardVars

LEMMA LoopOnBoard == LoopNext => BoardStep
<1>1. LoopNext => UNCHANGED <<conVars, bossVars, dataVars>>
      BY LoopFrame
<1>2. QED
      BY <1>1 DEF conVars, bossVars, dataVars, BoardStep, Board!boardVars

\* update_metric, on whichever thread.
LEMMA VoteOnBoard ==
    ASSUME IndInv, NEW u \in Uuids, Incremented(u), boss # "stopped", boss' # "stopped",
           ui' = ui, removed' = removed, curr' = curr,
           con' = con \/ (con = "update_metric" /\ con' = "get_post")
    PROVE  BoardStep
<1>1. CASE posts' = posts
      BY <1>1 DEF BoardStep, Board!boardVars
<1>2. CASE posts' # posts
  <2>1. /\ posts[u] # Absent /\ posts[u] \in Metrics \cup {Absent}
        /\ posts' = [posts EXCEPT ![u] = IF @ < MaxMetric THEN @ + 1 ELSE @]
        BY <1>2 DEF Incremented, Exists, IndInv, TablesOK
  <2>2. posts[u] < MaxMetric
        BY <1>2, <2>1 DEF IndInv, TablesOK
  <2>3. posts[u] \in 0 .. MaxMetric - 1 /\ posts' = [posts EXCEPT ![u] = @ + 1]
        BY <2>1, <2>2, ReposterAssumption DEF Metrics
  <2>4. Board!Vote(u)
        BY <2>3 DEF Board!Vote
  <2>5. QED
        BY <2>4 DEF BoardStep, Board!Next
<1>3. QED
      BY <1>1, <1>2

LEMMA ConOnBoard == IndInv /\ ConStep => BoardStep
<1> SUFFICES ASSUME IndInv, ConStep PROVE BoardStep
    OBVIOUS
<1> USE DEF ConGo, bossVars, netVars
<1>1. /\ boss' = boss /\ removed' = removed
      /\ con = "exited" \/ boss # "stopped"
      BY DEF ConStep, ConWhile, ConGet, ConGot, ConAddPost, ConNewPost, ConUpdateMetric,
         ConGetPost, ConPostMetric, IndInv, Phases
<1>2. CASE ConWhile \/ ConGet \/ ConGot \/ ConGetPost
      BY <1>1, <1>2 DEF ConWhile, ConGet, ConGot, ConGetPost, BoardStep, Board!boardVars
<1>3. CASE ConAddPost
  <2>1. con = "add_post" /\ ui' = ui /\ curr' = curr /\ curr \in Uuids
        BY <1>3 DEF ConAddPost, IndInv, PlacesOK, Working
  <2>2. CASE con' = "NewPost" /\ Inserted(curr)
    <3>1. Board!Receive(curr)
          BY <1>1, <2>1, <2>2 DEF Inserted, Exists, Absent, Board!Receive, Board!Enter, Board!Absent
    <3>2. QED
          BY <2>1, <3>1 DEF BoardStep, Board!Next
  <2>3. CASE con' = "update_metric" /\ NotInserted
        BY <1>1, <2>1, <2>3 DEF NotInserted, BoardStep, Board!boardVars
  <2>4. QED
        BY <1>3, <2>2, <2>3 DEF ConAddPost
<1>4. CASE ConNewPost
  <2>1. con = "NewPost" /\ con' = "while" /\ posts' = posts /\ ui' = [ui EXCEPT ![curr] = 0]
        BY <1>4 DEF ConNewPost
  <2>2. curr \in Uuids
        BY <2>1 DEF IndInv, PlacesOK, Working
  <2>3. Board!Announce(curr)
        BY <1>1, <2>1 DEF Board!Announce
  <2>4. QED
        BY <2>2, <2>3 DEF BoardStep, Board!Next
<1>5. CASE ConUpdateMetric
  <2>1. /\ con = "update_metric" /\ con' = "get_post" /\ ui' = ui /\ curr' = curr
        /\ Incremented(curr)
        BY <1>5 DEF ConUpdateMetric
  <2>2. curr \in Uuids
        BY <2>1 DEF IndInv, PlacesOK, Working
  <2>3. QED
        BY <1>1, <2>1, <2>2, VoteOnBoard
<1>6. CASE ConPostMetric
  <2>1. /\ con = "PostMetric" /\ con' = "while" /\ posts' = posts
        /\ ui' = [ui EXCEPT ![curr] = updated_p]
        BY <1>6 DEF ConPostMetric
  <2>2. curr \in Uuids /\ updated_p \in Board!Metrics
        BY <2>1 DEF IndInv, PlacesOK, TablesOK, Working, Metrics, Board!Metrics
  <2>3. updated_p <= posts[curr] \/ curr \in removed
        BY <2>1, <2>2 DEF IndInv, NobodyAhead
  <2>4. Board!Show(curr, updated_p)
        BY <1>1, <2>1, <2>3 DEF Board!Show
  <2>5. QED
        BY <2>2, <2>4 DEF BoardStep, Board!Next
<1>7. QED
      BY <1>2, <1>3, <1>4, <1>5, <1>6 DEF ConStep

LEMMA BossOnBoard == IndInv /\ BossNext => BoardStep
<1> SUFFICES ASSUME IndInv, BossNext PROVE BoardStep
    OBVIOUS
<1> USE DEF BossGo
<1>1. CASE UNCHANGED <<con, curr, posts, ui, removed>> /\ boss # "stopped" /\ boss' # "stopped"
      BY <1>1 DEF BoardStep, Board!boardVars
<1>2. CASE SendPostAdd
  <2>1. /\ boss = "add_post" /\ boss' = "idle" /\ con' = con /\ curr' = curr /\ ui' = ui
        /\ removed' = removed
        BY <1>2 DEF SendPostAdd, conVars
  <2>2. bosspost \in Uuids
        BY <2>1 DEF IndInv, PlacesOK
  <2>3. CASE Inserted(bosspost)
    <3>1. Board!Send(bosspost)
          BY <2>1, <2>3 DEF Inserted, Exists, Absent, Board!Send, Board!Enter, Board!Absent
    <3>2. QED
          BY <2>2, <3>1 DEF BoardStep, Board!Next
  <2>4. CASE NotInserted
        BY <2>1, <2>4 DEF NotInserted, BoardStep, Board!boardVars
  <2>5. QED
        BY <1>2, <2>3, <2>4 DEF SendPostAdd
<1>3. CASE \E u \in Uuids : Upboat(u)
  <2>1. PICK u \in Uuids : Upboat(u)
        BY <1>3
  <2>2. /\ boss = "idle" /\ boss' = boss /\ con' = con /\ curr' = curr /\ ui' = ui
        /\ removed' = removed /\ Incremented(u)
        BY <2>1 DEF Upboat, conVars
  <2>3. QED
        BY <2>2, VoteOnBoard
<1>4. CASE \E u \in Uuids : Downboat(u)
  <2>1. PICK u \in Uuids : Downboat(u)
        BY <1>4
  <2>2. Board!Remove(u)
        BY <2>1 DEF Downboat, conVars, Exists, Absent, Board!Remove, Board!Absent
  <2>3. QED
        BY <2>2 DEF BoardStep, Board!Next
<1>5. CASE \E u \in Uuids : InitialNewPost(u)
  <2>1. PICK u \in Uuids : InitialNewPost(u)
        BY <1>5
  <2>2. /\ boss = "NewPost" /\ boss' = boss /\ con' = con /\ curr' = curr /\ posts' = posts
        /\ removed' = removed /\ ui' = [ui EXCEPT ![u] = list[u]] /\ list[u] # Absent
        BY <2>1 DEF InitialNewPost, conVars
  <2>3. list[u] \in Board!Metrics /\ (list[u] <= posts[u] \/ u \in removed)
        BY <2>2 DEF IndInv, TablesOK, NobodyAhead, Metrics, Board!Metrics
  <2>4. Board!Show(u, list[u])
        BY <2>2, <2>3 DEF Board!Show
  <2>5. QED
        BY <2>3, <2>4 DEF BoardStep, Board!Next
<1>6. CASE StopUninit
  <2>1. /\ boss = "uninit" /\ boss' = "stopped"
        /\ UNCHANGED <<con, curr, posts, ui, removed>>
        BY <1>6 DEF StopUninit, conVars
  <2>2. con = "exited"
        BY <2>1 DEF IndInv, Phases
  <2>3. Board!Close
        BY <2>1, <2>2 DEF Board!Close
  <2>4. QED
        BY <2>3 DEF BoardStep, Board!Next
<1>7. CASE StartConsumer
  <2>1. con # "NewPost"
        BY <1>7 DEF StartConsumer, IndInv, Phases, Before
  <2>2. QED
        BY <1>7, <2>1 DEF StartConsumer, BoardStep, Board!boardVars
<1>8. CASE \/ StartNetwork \/ GetInitialPosts \/ StopNetwork \/ \E u \in Uuids : SendPost(u)
           \/ InitialDone \/ StopAddNull \/ StopQuitLoop \/ StopJoinLoop \/ StopJoinConsumer
      BY <1>1, <1>8 DEF StartNetwork, GetInitialPosts, StopNetwork, SendPost, InitialDone, StopAddNull,
         StopQuitLoop, StopJoinLoop, StopJoinConsumer, conVars, dataVars
<1>9. QED
      BY <1>2, <1>3, <1>4, <1>5, <1>6, <1>7, <1>8 DEF BossNext, BossStep, BossCall

\* For any posts, any length of the queue and any interleaving of the three threads: what
\* the page gets to see is the message board (the methods of rePoster in rpl.cpp and
\* consume() in rpl_con.cpp).
THEOREM PipelineIsBoard == Spec => ImplementsBoard
<1>1. Init => Board!Init
      BY DEF Init, NoRows, Absent, Board!Init, Board!Absent
<1>2. IndInv /\ [Next]_vars => [Board!Next]_Board!boardVars
  <2> SUFFICES ASSUME IndInv, [Next]_vars PROVE BoardStep
      BY DEF BoardStep
  <2>1. CASE UNCHANGED vars
        BY <2>1 DEF vars, conVars, bossVars, dataVars, BoardStep, Board!boardVars
  <2>2. QED
        BY <2>1, Cases, LoopOnBoard, ConOnBoard, BossOnBoard
<1>3. QED
      BY <1>1, <1>2, Invariant, PTL DEF Spec, ImplementsBoard, Board!Spec

-----------------------------------------------------------------------------
(* What stopRepost cannot get out of *)

\* The loop thread is inside of add only while it dispatches, and is joined when it is done.
Joined ==
    /\ call["loop"].op # "idle" => loop = "dispatch"
    /\ boss \in {"join_con", "uninit", "stopped"} => loop = "done"
    /\ boss = "init" => loop = "unborn"

LEMMA LoopAdds ==
    ASSUME IndInv, Joined, LoopNext
    PROVE  Joined' /\ (loop' = "done" => loop = "done" \/ quit)
<1>1. /\ call \in [Threads -> [op : Queue!Ops, val : Values]] /\ "loop" \in Threads
      /\ boss' = boss /\ loop \notin {"unborn", "done"}
      BY LoopFrame DEF IndInv, Queue!StackTypeOK, Threads, bossVars, LoopNext, LoopStep, LoopNew,
         LoopRun, LoopIterate, LoopDone, LoopDispatched, ReceivedIm, ReceivedImAdd, LoopGo
<1>2. CASE LoopNew \/ LoopRun \/ LoopIterate \/ LoopDone
      BY <1>1, <1>2 DEF LoopNew, LoopRun, LoopIterate, LoopDone, LoopGo, queueVars, Joined
<1>3. CASE LoopDispatched
      BY <1>1, <1>3 DEF LoopDispatched, LoopGo, queueVars, Joined
<1>4. CASE ReceivedImAdd \/ \E u \in Uuids : ReceivedIm(u)
      BY <1>1, <1>4 DEF ReceivedImAdd, ReceivedIm, LoopGo, Joined
<1>5. QED
      BY <1>2, <1>3, <1>4 DEF LoopNext, LoopStep

LEMMA JoinedStep == IndInv /\ Joined /\ [Next]_vars => Joined'
<1> SUFFICES ASSUME IndInv, Joined, [Next]_vars PROVE Joined'
    OBVIOUS
<1>1. call \in [Threads -> [op : Queue!Ops, val : Values]]
      BY DEF IndInv, Queue!StackTypeOK
<1>2. CASE LoopNext
      BY <1>2, LoopAdds
<1>3. CASE ConStep
  <2>1. loop' = loop /\ boss' = boss
        BY <1>3 DEF ConStep, ConWhile, ConGet, ConGot, ConAddPost, ConNewPost, ConUpdateMetric,
           ConGetPost, ConPostMetric, ConGo, netVars, bossVars
  <2>2. call'["loop"] = call["loop"]
        BY <1>1, <1>3 DEF Threads, ConStep, ConWhile, ConGet, ConGot, ConAddPost, ConNewPost,
           ConUpdateMetric, ConGetPost, ConPostMetric, queueVars, Queue!CallGet, Queue!Pop, Queue!Return
  <2>3. QED
        BY <2>1, <2>2 DEF Joined
<1>4. CASE BossNext
  <2>1. call'["loop"] = call["loop"]
        BY <1>1, <1>4, BossFrame DEF Threads, queueVars, Queue!CallAdd, Queue!Push, Queue!Return
  <2>2. loop' = loop \/ (boss = "init" /\ boss' = "started_net" /\ loop' = "starting" /\ call' = call)
        BY <1>4 DEF BossNext, BossStep, BossCall, BossGo, StartNetwork, StartConsumer, SendPost,
           SendPostAdd, Upboat, Downboat, GetInitialPosts, InitialNewPost, InitialDone, StopNetwork,
           StopAddNull, StopQuitLoop, StopJoinLoop, StopJoinConsumer, StopUninit, netVars, queueVars
  <2>3. boss' \in {"join_con", "uninit", "stopped"} =>
            boss \in {"join_con", "uninit", "stopped"} \/ loop = "done"
        BY <1>4 DEF BossNext, BossStep, BossCall, BossGo, StartNetwork, StartConsumer, SendPost,
           SendPostAdd, Upboat, Downboat, GetInitialPosts, InitialNewPost, InitialDone, StopNetwork,
           StopAddNull, StopQuitLoop, StopJoinLoop, StopJoinConsumer, StopUninit
  <2>4. boss' # "init" /\ (loop' = loop \/ (call["loop"].op = "idle" /\ boss' = "started_net"))
    <3>1. boss' # "init"
          BY <1>4 DEF BossNext, BossStep, BossCall, BossGo, StartNetwork, StartConsumer, SendPost,
             SendPostAdd, Upboat, Downboat, GetInitialPosts, InitialNewPost, InitialDone, StopNetwork,
             StopAddNull, StopQuitLoop, StopJoinLoop, StopJoinConsumer, StopUninit
    <3>2. QED
          BY <2>2, <3>1 DEF Joined
  <2>5. QED
        BY <2>1, <2>3, <2>4 DEF Joined
<1>5. CASE UNCHANGED vars
      BY <1>5 DEF vars, queueVars, netVars, bossVars, Joined
<1>6. QED
      BY <1>2, <1>3, <1>4, <1>5, Cases

LEMMA JoinedAlways == Spec => [](IndInv /\ Joined)
<1>1. Init => Joined
      BY DEF Init, Joined, Queue!Init, Queue!Request, Threads
<1>2. QED
      BY <1>1, JoinedStep, Invariant, PTL DEF Spec

\* Once g_main_loop_quit has come too early (Stop of jabposter.cpp), stopRepost is in
\* pthread_join for good: nothing that may still happen lets it return.
THEOREM LostForGood == Spec => [][QuitLost => QuitLost']_vars
<1>1. IndInv /\ Joined /\ [Next]_vars => [QuitLost => QuitLost']_vars
  <2> SUFFICES ASSUME IndInv, Joined, Next, QuitLost PROVE QuitLost'
      OBVIOUS
  <2>1. boss = "join_loop" /\ quit = FALSE /\ loop # "done"
        BY DEF QuitLost, IndInv, FlagsOK
  <2>2. CASE LoopNext
        BY <2>1, <2>2, LoopFrame, LoopAdds DEF bossVars, QuitLost
  <2>3. CASE ConStep
        BY <2>1, <2>3 DEF ConStep, ConWhile, ConGet, ConGot, ConAddPost, ConNewPost, ConUpdateMetric,
           ConGetPost, ConPostMetric, ConGo, netVars, bossVars, QuitLost
  <2>4. ~BossNext
        BY <2>1 DEF BossNext, BossStep, BossCall, BossGo, StartNetwork, StartConsumer, SendPost,
           SendPostAdd, Upboat, Downboat, GetInitialPosts, InitialNewPost, InitialDone, StopNetwork,
           StopAddNull, StopQuitLoop, StopJoinLoop, StopJoinConsumer, StopUninit
  <2>5. QED
        BY <2>2, <2>3, <2>4, Cases
<1>2. QED
      BY <1>1, JoinedAlways, PTL DEF Spec

\* Once the consumer has taken the pill and the loop thread waits in add for room (add of
\* rpqueue.cpp), it waits for good, and stopRepost never returns.
THEOREM WedgedForGood == Spec => [][Wedged => Wedged' /\ boss' # "stopped"]_vars
<1>1. IndInv /\ Joined /\ [Next]_vars => [Wedged => Wedged' /\ boss' # "stopped"]_vars
  <2> SUFFICES ASSUME IndInv, Joined, Next, Wedged PROVE Wedged' /\ boss' # "stopped"
      OBVIOUS
  <2>1. /\ con = "exited" /\ call["loop"].op = "add" /\ Len(in_queue) = QUEUE_SIZE
        /\ call \in [Threads -> [op : Queue!Ops, val : Values]]
        BY DEF Wedged, IndInv, Queue!StackTypeOK
  <2>2. loop = "dispatch" /\ boss \notin {"join_con", "uninit", "stopped"} /\ boss \in Ending
        BY <2>1 DEF Joined, IndInv, Phases
  <2>3. ~(Len(in_queue) < QUEUE_SIZE)
        BY <2>1, ReposterAssumption
  <2>4. ~LoopNext
        BY <2>1, <2>2, <2>3 DEF LoopNext, LoopStep, LoopNew, LoopRun, LoopIterate, LoopDone,
           LoopDispatched, ReceivedIm, ReceivedImAdd, LoopGo, Queue!CallAdd, Queue!Push, Queue!Return
  <2>5. ~ConStep
        BY <2>1 DEF ConStep, ConWhile, ConGet, ConGot, ConAddPost, ConNewPost, ConUpdateMetric,
           ConGetPost, ConPostMetric, ConGo
  <2>6. CASE BossNext
    <3>1. con' = con /\ boss' # "stopped"
          BY <2>2, <2>6 DEF Ending, BossNext, BossStep, BossCall, BossGo, StartNetwork, StartConsumer,
             SendPost, SendPostAdd, Upboat, Downboat, GetInitialPosts, InitialNewPost, InitialDone,
             StopNetwork, StopAddNull, StopQuitLoop, StopJoinLoop, StopJoinConsumer, StopUninit,
             conVars
    <3>2. ~Queue!Push("boss")
          BY <2>3 DEF Queue!Push
    <3>3. in_queue' = in_queue /\ call'["loop"] = call["loop"]
          BY <2>1, <2>6, <3>2, BossFrame DEF Threads, queueVars, Queue!CallAdd, Queue!Return
    <3>4. QED
          BY <2>1, <3>1, <3>3 DEF Wedged
  <2>7. QED
        BY <2>4, <2>5, <2>6, Cases
<1>2. QED
      BY <1>1, JoinedAlways, PTL DEF Spec
=============================================================================
