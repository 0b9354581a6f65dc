---------------------------- MODULE MessageBoard ----------------------------
(***************************************************************************)
(* What a rePoster promises the page it is embedded in (lib/common/rpl.cpp *)
(* and rpl_con.cpp), with no thread, queue or network in it: a board of    *)
(* posts that change one step at a time, whoever changes them.  A post     *)
(* that came from elsewhere is announced once for each time it was put on  *)
(* the board, what is shown of a post is not ahead of the board unless the *)
(* post has been removed, and when the board is closed there is nothing    *)
(* left to announce and nothing changes any more.                          *)
(***************************************************************************)
EXTENDS Integers

CONSTANTS Uuids,       \* the posts, by uuid
          MaxMetric    \* bound: a metric of MaxMetric stands for "that or more"

VARIABLES posts,       \* the board: uuid to upvotes, Absent for what is not on it
          fresh,       \* posts put on the board and not announced yet
          ui,          \* the metric the page was last shown for each post
          removed,     \* the posts that have ever been removed
          closed       \* stopRepost has returned

boardVars == <<posts, fresh, ui, removed, closed>>

Absent  == -1
Metrics == 0 .. MaxMetric

Init ==
    /\ posts \in [Uuids -> {Absent, 0}]
    /\ fresh = {}
    /\ ui = [u \in Uuids |-> Absent]
    /\ removed = {}
    /\ closed = FALSE

Enter(u) ==
    /\ ~closed /\ posts[u] = Absent
    /\ posts' = [posts EXCEPT ![u] = 0]
    /\ UNCHANGED <<ui, removed, closed>>

\* A post of one's own is not announced.
Send(u) == Enter(u) /\ UNCHANGED fresh

Receive(u) == Enter(u) /\ u \notin fresh /\ fresh' = fresh \cup {u}

Announce(u) ==
    /\ ~closed /\ u \in fresh
    /\ ui' = [ui EXCEPT ![u] = 0]
    /\ fresh' = fresh \ {u}
    /\ UNCHANGED <<posts, removed, closed>>

\* The page may be shown something old, and of a removed post anything.
Show(u, metric) ==
    /\ ~closed /\ (metric <= posts[u] \/ u \in removed)
    /\ ui' = [ui EXCEPT ![u] = metric]
    /\ UNCHANGED <<posts, fresh, removed, closed>>

Vote(u) ==
    /\ ~closed /\ posts[u] \in 0 .. MaxMetric - 1
    /\ posts' = [posts EXCEPT ![u] = @ + 1]
    /\ UNCHANGED <<fresh, ui, removed, closed>>

Remove(u) ==
    /\ ~closed /\ posts[u] # Absent
    /\ posts' = [posts EXCEPT ![u] = Absent]
    /\ removed' = removed \cup {u}
    /\ UNCHANGED <<fresh, ui, closed>>

Close ==
    /\ ~closed /\ fresh = {}
    /\ closed' = TRUE
    /\ UNCHANGED <<posts, fresh, ui, removed>>

Next ==
    \/ \E u \in Uuids : Send(u) \/ Receive(u) \/ Announce(u) \/ Vote(u) \/ Remove(u)
    \/ \E u \in Uuids, metric \in Metrics : Show(u, metric)
    \/ Close

Spec == Init /\ [][Next]_boardVars
=============================================================================
