------------------------------ MODULE Reposter ------------------------------
(***************************************************************************)
(* The pipeline a post travels (lib/common/rpl.cpp, rpl_con.cpp,           *)
(* lib/network/jabposter.cpp): the libpurple loop thread receives it and   *)
(* puts it into in_queue, the consumer thread stores it and tells the UI,  *)
(* while the browser thread ("boss") calls the plugin's API, and in the    *)
(* end stopRepost.                                                         *)
(*                                                                         *)
(* in_queue is the stack of BoundedStack, which RpQueue implements.  A     *)
(* storage call is one step here that either does what it says or fails    *)
(* without effect; what overlapping storage calls do is module RpStorage.  *)
(* Networks and remote reposters are the nondeterminism of ReceivedIm: any *)
(* post may arrive at any time, any number of times.                       *)
(***************************************************************************)
EXTENDS Integers, Sequences, FiniteSets

CONSTANTS Uuids,       \* the posts, by uuid
          NULL,        \* the null Post*
          QUEUE_SIZE,  \* rpqueue.h:6
          MaxMetric    \* bound: a metric of MaxMetric stands for "that or more"

ASSUME ReposterAssumption ==
    /\ QUEUE_SIZE \in Nat \ {0}
    /\ MaxMetric \in Nat \ {0}
    /\ NULL \notin Uuids

VARIABLES in_queue,    \* rpl_network::in_queue, oldest post first
          call,        \* the add or get each thread is inside of
          running,     \* JabPoster::running
          loop,        \* where the libpurple thread is
          quit,        \* what g_main_loop_quit leaves in loop_
          running_,    \* rpl_con::running_
          con,         \* the statement of consume() that is next
          curr,        \* p, the post consume() is working on
          updated_p,   \* the metric consume() read back, if it found the row
          boss,        \* where the browser thread is in its API call
          bosspost,    \* the post of that call
          list,        \* rows getInitialPosts has read and not yet shown
          posts,       \* the table: uuid to upvotes, Absent when there is no row
          store,       \* "none" before startRepost, "live", "deleted" by uninit
          ui,          \* the metric the UI last showed for each post
          born,        \* history: times a post was announced by the consumer or
                       \* added by sendPost, less the rows removed by downboat
          removed      \* history: the posts some downboat has removed

queueVars == <<in_queue, call>>
netVars   == <<running, loop, quit>>
conVars   == <<running_, con, curr, updated_p>>
bossVars  == <<boss, bosspost, list>>
dataVars  == <<posts, store, ui, born, removed>>
vars      == <<queueVars, netVars, conVars, bossVars, dataVars>>

Threads == {"loop", "consumer", "boss"}
Values  == Uuids \cup {NULL}
Absent  == -1
Metrics == 0 .. MaxMetric

Queue == INSTANCE BoundedStack
            WITH Capacity <- QUEUE_SIZE, stack <- in_queue, req <- call

LoopPlaces == {"unborn", "starting", "created", "check", "dispatch", "done"}
ConPlaces  == {"unborn", "while", "getpost", "add_post", "NewPost", "update_metric",
               "get_post", "PostMetric", "exited"}
BossPlaces == {"init", "started_net", "idle", "add_post", "get_post", "NewPost",
               "add_null", "quit_loop", "join_loop", "join_con", "uninit", "stopped"}

TypeOK ==
    /\ Queue!StackTypeOK
    /\ running \in BOOLEAN
    /\ loop \in LoopPlaces
    /\ quit \in BOOLEAN
    /\ running_ \in BOOLEAN
    /\ con \in ConPlaces
    /\ curr \in Values
    /\ updated_p \in Metrics
    /\ boss \in BossPlaces
    /\ bosspost \in Values
    /\ list \in [Uuids -> Metrics \cup {Absent}]
    /\ posts \in [Uuids -> Metrics \cup {Absent}]
    /\ store \in {"none", "live", "deleted"}
    /\ ui \in [Uuids -> Metrics \cup {Absent}]
    /\ born \in [Uuids -> -1 .. 2]
    /\ removed \subseteq Uuids

NoRows == [u \in Uuids |-> Absent]

\* rePoster::init has run: the queue exists, the table is left from earlier sessions.
Init ==
    /\ Queue!Init
    /\ running = FALSE /\ loop = "unborn" /\ quit = FALSE
    /\ running_ = FALSE /\ con = "unborn" /\ curr = NULL /\ updated_p = 0
    /\ boss = "init" /\ bosspost = NULL /\ list = NoRows
    /\ posts \in [Uuids -> {Absent, 0}]
    /\ store = "none" /\ ui = NoRows
    /\ born = [u \in Uuids |-> IF posts[u] = Absent THEN 0 ELSE 1]
    /\ removed = {}

-----------------------------------------------------------------------------
(* Storage calls: each may fail (open error, SQLITE_BUSY) without effect. *)

Exists(u) == posts[u] # Absent

\* Mutant: INSERT without NOT EXISTS.
Inserted_Again(u) == posts' = [posts EXCEPT ![u] = 0]

\* Mutant: the answer is "new" and nothing is stored.
Inserted_Nothing(u) == ~Exists(u) /\ UNCHANGED posts

\* add_post: INSERT ... WHERE NOT EXISTS.
Inserted(u) ==
    /\ ~Exists(u)
    /\ posts' = [posts EXCEPT ![u] = 0]

NotInserted == UNCHANGED posts

\* update_metric(u, 1), saturating at MaxMetric.
Incremented(u) ==
    \/ /\ Exists(u)
       /\ posts' = [posts EXCEPT ![u] = IF @ < MaxMetric THEN @ + 1 ELSE @]
    \/ UNCHANGED posts

-----------------------------------------------------------------------------
(* The libpurple thread: LibpurpleLoop and the callbacks it dispatches. *)

LoopGo(from, to) ==
    /\ loop = from
    /\ loop' = to
    /\ UNCHANGED <<running, conVars, bossVars, dataVars>>

\* loop_ = g_main_loop_new
LoopNew == LoopGo("starting", "created") /\ UNCHANGED <<quit, queueVars>>

\* g_main_loop_run sets is_running, whatever g_main_loop_quit left there.
LoopRun == LoopGo("created", "check") /\ quit' = FALSE /\ UNCHANGED queueVars

\* while (loop->is_running) g_main_context_iterate(...)
LoopIterate == ~quit /\ LoopGo("check", "dispatch") /\ UNCHANGED <<quit, queueVars>>

\* g_main_loop_run returns; purple_core_quit.
LoopDone == quit /\ LoopGo("check", "done") /\ UNCHANGED <<quit, queueVars>>

\* The sources that were ready have been dispatched.
LoopDispatched ==
    /\ call["loop"].op = "idle"
    /\ LoopGo("dispatch", "check")
    /\ UNCHANGED <<quit, queueVars>>

\* A message with content: in_queue_->add(post).  One without is dropped there.
ReceivedIm(u) ==
    /\ LoopGo("dispatch", "dispatch")
    /\ Queue!CallAdd("loop", u)
    /\ UNCHANGED quit

ReceivedImAdd ==
    /\ LoopGo("dispatch", "dispatch")
    /\ Queue!Push("loop") \/ Queue!Return("loop")
    /\ UNCHANGED quit

LoopStep == LoopNew \/ LoopRun \/ LoopIterate \/ LoopDone \/ ReceivedImAdd

-----------------------------------------------------------------------------
(* The consumer thread: rpl_con::consume *)

ConGo(from, to) ==
    /\ con = from
    /\ con' = to
    /\ UNCHANGED <<running_, netVars, bossVars, store, removed>>

ConWhile ==
    /\ UNCHANGED <<curr, updated_p, posts, ui, born>>
    /\ \/ running_ /\ ConGo("while", "getpost") /\ Queue!CallGet("consumer")
       \/ ~running_ /\ ConGo("while", "exited") /\ UNCHANGED queueVars

ConGet ==
    /\ ConGo("getpost", "getpost")
    /\ Queue!Pop("consumer")
    /\ UNCHANGED <<curr, updated_p, posts, ui, born>>

\* Mutant: the null pointer does not end consume().
ConGot_NullGoesOn ==
    /\ call["consumer"].op = "got"
    /\ Queue!Return("consumer")
    /\ curr' = call["consumer"].val
    /\ ConGo("getpost", IF curr' = NULL THEN "while" ELSE "add_post")
    /\ UNCHANGED <<updated_p, posts, ui, born>>

\* p = pnet_->getpost(); if (p) ... else return
ConGot ==
    /\ call["consumer"].op = "got"
    /\ Queue!Return("consumer")
    /\ curr' = call["consumer"].val
    /\ ConGo("getpost", IF curr' = NULL THEN "exited" ELSE "add_post")
    /\ UNCHANGED <<updated_p, posts, ui, born>>

\* Mutant: consume() does not look at what add_post answers.
ConAddPost_Unchecked ==
    /\ UNCHANGED <<curr, updated_p, ui, born, queueVars>>
    /\ ConGo("add_post", "NewPost")
    /\ Inserted(curr) \/ NotInserted

\* A failed add_post answers like one that found the uuid.
ConAddPost ==
    /\ UNCHANGED <<curr, updated_p, ui, born, queueVars>>
    /\ \/ ConGo("add_post", "NewPost") /\ Inserted(curr)
       \/ ConGo("add_post", "update_metric") /\ NotInserted

\* p->set_metric(0); postuiops_.NewPost(p, 0)
ConNewPost ==
    /\ ConGo("NewPost", "while")
    /\ ui' = [ui EXCEPT ![curr] = 0]
    /\ born' = [born EXCEPT ![curr] = @ + 1]
    /\ curr' = NULL
    /\ UNCHANGED <<updated_p, posts, queueVars>>

ConUpdateMetric ==
    /\ ConGo("update_metric", "get_post")
    /\ Incremented(curr)
    /\ UNCHANGED <<curr, updated_p, ui, born, queueVars>>

\* Mutant: consume() returns when the row has gone.
ConGetPost_Returns ==
    /\ UNCHANGED <<posts, ui, born, queueVars>>
    /\ \/ /\ ConGo("get_post", "PostMetric")
          /\ Exists(curr)
          /\ updated_p' = posts[curr]
          /\ UNCHANGED curr
       \/ /\ ConGo("get_post", "exited")
          /\ curr' = NULL
          /\ UNCHANGED updated_p

ConGetPost ==
    /\ UNCHANGED <<posts, ui, born, queueVars>>
    /\ \/ /\ ConGo("get_post", "PostMetric")
          /\ Exists(curr)
          /\ updated_p' = posts[curr]
          /\ UNCHANGED curr
       \/ /\ ConGo("get_post", "while")
          /\ curr' = NULL
          /\ UNCHANGED updated_p

\* postuiops_.PostMetric(updated_p); delete updated_p
ConPostMetric ==
    /\ ConGo("PostMetric", "while")
    /\ ui' = [ui EXCEPT ![curr] = updated_p]
    /\ curr' = NULL
    /\ updated_p' = 0
    /\ UNCHANGED <<posts, born, queueVars>>

ConStep ==
    \/ ConWhile \/ ConGet \/ ConGot \/ ConAddPost \/ ConNewPost
    \/ ConUpdateMetric \/ ConGetPost \/ ConPostMetric

-----------------------------------------------------------------------------
(* The browser thread: the methods of rePoster *)

BossGo(from, to) ==
    /\ boss = from
    /\ boss' = to

\* startRepost: pnet_->go(), which creates the loop thread ...
StartNetwork ==
    /\ BossGo("init", "started_net")
    /\ running' = TRUE
    /\ loop' = "starting"
    /\ UNCHANGED <<quit, queueVars, conVars, bosspost, list, dataVars>>

\* ... get_instance, new rpl_con, pcon_->go()
StartConsumer ==
    /\ BossGo("started_net", "idle")
    /\ store' = "live"
    /\ running_' = TRUE
    /\ con' = "while"
    /\ UNCHANGED <<curr, updated_p, queueVars, netVars, bosspost, list, posts, ui, born, removed>>

\* sendPost sends the post to the network before it stores it: a remote reposter
\* may answer (ReceivedIm) in between.
SendPost(u) ==
    /\ BossGo("idle", "add_post")
    /\ bosspost' = u
    /\ UNCHANGED <<queueVars, netVars, conVars, list, dataVars>>

SendPostAdd ==
    /\ BossGo("add_post", "idle")
    /\ \/ Inserted(bosspost) /\ born' = [born EXCEPT ![bosspost] = @ + 1]
       \/ NotInserted /\ UNCHANGED born
    /\ bosspost' = NULL
    /\ UNCHANGED <<queueVars, netVars, conVars, list, store, ui, removed>>

\* upboat: update_metric, then get_post and send what it found (no state of ours).
Upboat(u) ==
    /\ BossGo("idle", "idle")
    /\ Incremented(u)
    /\ UNCHANGED <<queueVars, netVars, conVars, bosspost, list, store, ui, born, removed>>

\* downboat: delete_post.  A failed delete is a stuttering step.
Downboat(u) ==
    /\ BossGo("idle", "idle")
    /\ Exists(u)
    /\ posts' = [posts EXCEPT ![u] = Absent]
    /\ born' = [born EXCEPT ![u] = @ - 1]
    /\ removed' = removed \cup {u}
    /\ UNCHANGED <<queueVars, netVars, conVars, bosspost, list, store, ui>>

\* getInitialPosts: read the rows, then one NewPost each.
GetInitialPosts ==
    /\ BossGo("idle", "NewPost")
    /\ list' = posts
    /\ UNCHANGED <<queueVars, netVars, conVars, bosspost, dataVars>>

InitialNewPost(u) ==
    /\ BossGo("NewPost", "NewPost")
    /\ list[u] # Absent
    /\ ui' = [ui EXCEPT ![u] = list[u]]
    /\ list' = [list EXCEPT ![u] = Absent]
    /\ UNCHANGED <<queueVars, netVars, conVars, bosspost, posts, store, born, removed>>

InitialDone ==
    /\ BossGo("NewPost", "idle")
    /\ list = NoRows
    /\ UNCHANGED <<queueVars, netVars, conVars, bosspost, list, dataVars>>

\* Mutant: running is not cleared.
StopNetwork_StillRunning ==
    /\ BossGo("idle", "add_null")
    /\ Queue!CallAdd("boss", NULL)
    /\ UNCHANGED <<netVars, conVars, bosspost, list, dataVars>>

\* stopRepost: JabPoster::Stop clears running and adds the poison pill ...
StopNetwork ==
    /\ BossGo("idle", "add_null")
    /\ running
    /\ running' = FALSE
    /\ Queue!CallAdd("boss", NULL)
    /\ UNCHANGED <<loop, quit, conVars, bosspost, list, dataVars>>

StopAddNull ==
    /\ BossGo("add_null", "quit_loop")
    /\ Queue!Push("boss")
    /\ UNCHANGED <<netVars, conVars, bosspost, list, dataVars>>

\* ... g_main_loop_quit(loop_): of no effect while loop_ is not assigned ...
StopQuitLoop ==
    /\ BossGo("quit_loop", "join_loop")
    /\ Queue!Return("boss")
    /\ quit' = (loop # "starting")
    /\ UNCHANGED <<running, loop, conVars, bosspost, list, dataVars>>

\* ... pthread_join; then rpl_con::stop clears running_ ...
StopJoinLoop ==
    /\ BossGo("join_loop", "join_con")
    /\ loop = "done"
    /\ running_' = FALSE
    /\ UNCHANGED <<con, curr, updated_p, queueVars, netVars, bosspost, list, dataVars>>

\* Mutant: the consumer is not joined.
StopJoinConsumer_NoJoin ==
    /\ BossGo("join_con", "uninit")
    /\ UNCHANGED <<queueVars, netVars, conVars, bosspost, list, dataVars>>

\* ... and joins the consumer; then the storage goes.
StopJoinConsumer ==
    /\ BossGo("join_con", "uninit")
    /\ con = "exited"
    /\ UNCHANGED <<queueVars, netVars, conVars, bosspost, list, dataVars>>

StopUninit ==
    /\ BossGo("uninit", "stopped")
    /\ store' = "deleted"
    /\ UNCHANGED <<queueVars, netVars, conVars, bosspost, list, posts, ui, born, removed>>

\* Steps of a call the browser has made; which call it makes, if any, is its choice.
BossStep ==
    \/ StartConsumer \/ SendPostAdd \/ InitialDone \/ \E u \in Uuids : InitialNewPost(u)
    \/ StopAddNull \/ StopQuitLoop \/ StopJoinLoop \/ StopJoinConsumer \/ StopUninit

BossCall ==
    \/ StartNetwork \/ GetInitialPosts \/ StopNetwork
    \/ \E u \in Uuids : SendPost(u) \/ Upboat(u) \/ Downboat(u)

-----------------------------------------------------------------------------

Next ==
    \/ LoopStep \/ LoopDispatched \/ \E u \in Uuids : ReceivedIm(u)
    \/ ConStep
    \/ BossStep \/ BossCall

Spec == Init /\ [][Next]_vars

\* Every thread that can run does.  An iteration of the main loop dispatches only
\* the sources that were ready when it began, so it comes to an end: strong
\* fairness for LoopDispatched.
FairSpec ==
    /\ Spec
    /\ WF_vars(LoopStep) /\ SF_vars(LoopDispatched)
    /\ WF_vars(ConStep)
    /\ WF_vars(BossStep)

-----------------------------------------------------------------------------
(* Properties *)

\* A post is announced as new, or entered by sendPost, at most once for every time
\* it was not in the table: copies of it in the queue, a sendPost racing with the
\* echo of its own broadcast, and failing storage calls add no second birth.
BornOncePerRow == \A u \in Uuids : born[u] <= 1

\* The UI shows no post without a row and no metric ahead of its row, on whichever
\* thread the callback runs - except for posts somebody has removed: a downboat
\* between consume()'s get_post and its PostMetric, or between add_post and NewPost,
\* resurrects the post on screen.
UiNeverAhead == \A u \in Uuids \ removed : ui[u] <= posts[u]

\* The storage object is not used before startRepost has fetched it or after
\* stopRepost has deleted it, by either thread.
StorageAlive ==
    (\/ con \in {"add_post", "update_metric", "get_post"}
     \/ boss \in {"idle", "add_post", "NewPost"}) => store = "live"

\* The consumer leaves only when the network is going down: no queue content and
\* no interleaving makes it take a post for the pill.
ConsumerOutlivesNetwork == con = "exited" => ~running

\* To the page the three threads, the queue and the storage are a board that changes one
\* step at a time: every row that consume() enters is announced once, nothing is shown
\* ahead of it, and when stopRepost returns all is announced and nothing changes any more.
Board == INSTANCE MessageBoard
            WITH fresh <- IF con = "NewPost" THEN {curr} ELSE {}, closed <- (boss = "stopped")

ImplementsBoard == Board!Spec

\* g_main_loop_quit came before g_main_loop_run (or before loop_ was assigned):
\* the loop will run and nobody will stop it.
QuitLost == boss = "join_loop" /\ ~quit /\ loop # "done"

\* The loop thread waits in add for room that nobody will make.
Wedged ==
    /\ con = "exited"
    /\ call["loop"].op = "add"
    /\ Len(in_queue) = QUEUE_SIZE

Stopping == boss \in {"add_null", "quit_loop", "join_loop", "join_con", "uninit"}

MessagesKeepComing == []<><<\E u \in Uuids : ReceivedIm(u)>>_vars

\* stopRepost returns, unless its quit was lost, or the loop thread is wedged behind
\* a consumer that took the pill first, or messages never cease.
StopReturnsUnless ==
    MessagesKeepComing \/ (Stopping ~> (boss = "stopped" \/ QuitLost \/ Wedged))

\* Once the loop thread is joined the consumer can always be joined too: it finds
\* either the pill or running_ cleared, whatever is left in the queue.
ConsumerJoins == (boss = "join_con") ~> (boss = "stopped")

\* Every post in the queue is taken out of it in the end, unless the repost is being
\* stopped or younger posts never cease to arrive (the queue is a stack).
Waiting(u) == \E i \in 1 .. Len(in_queue) : in_queue[i] = u
QueueDrains ==
    MessagesKeepComing \/ \A u \in Uuids : (Waiting(u) /\ running_) ~> (~Waiting(u) \/ ~running)
=============================================================================
