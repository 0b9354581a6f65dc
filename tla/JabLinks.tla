------------------------------ MODULE JabLinks ------------------------------
(***************************************************************************)
(* The links of JabPoster (lib/network/jabposter.cpp): which buddies are   *)
(* online, which of their XMPP resources are reposters (resmap_, filled by *)
(* the answers to RetrieveUserInfo), what the browser is told of them, and *)
(* whom SendPost sends to.                                                 *)
(*                                                                         *)
(* A buddy is an account and a name; resmap_ is keyed by the name alone.   *)
(* The buddy list, presences and resources change on the server's side;    *)
(* AddLink and RmLink ask the server.  Calls of the external interface do  *)
(* not overlap with callbacks here (see LockStep).                         *)
(***************************************************************************)
EXTENDS FiniteSets, Integers

CONSTANTS Accounts,    \* prpl-jabber accounts
          Names,       \* bare names of buddies
          Resources,   \* resources the people behind the names log in with
          Reposters,   \* those whose name contains IDENTIFY_STRING
          MAXLINKS     \* rpl_network.cpp: size of the array given to GetLinks

ASSUME LinksAssumption ==
    /\ Reposters \subseteq Resources
    /\ IsFiniteSet(Accounts) /\ IsFiniteSet(Names)
    /\ MAXLINKS \in Nat

Buddies == Accounts \X Names
Status  == {"offline", "online", "reposter"}

VARIABLES blist,     \* the buddy list
          actual,    \* the resources a buddy is online with; none: it is offline
          resmap_,   \* per name: the resources last heard of ({}: no entry)
          requested, \* serv_get_info requests without an answer yet
          told,      \* what the browser was told last of a buddy, or "nothing"
          sent,      \* whom the last post went to
          shared,    \* history: names that were in the list under two accounts
          garbled,   \* history: names whose last entry went under a broken key
          crashed    \* a null buddy was dereferenced

vars == <<blist, actual, resmap_, requested, told, sent, shared, garbled, crashed>>

TypeOK ==
    /\ blist \subseteq Buddies
    /\ actual \in [Buddies -> SUBSET Resources]
    /\ resmap_ \in [Names -> SUBSET Resources]
    /\ requested \subseteq Buddies
    /\ told \in [Buddies -> Status \cup {"nothing"}]
    /\ sent \subseteq blist
    /\ shared \subseteq Names
    /\ garbled \subseteq Names
    /\ crashed \in BOOLEAN

SharedIn(list) == {n \in Names : \E a, b \in Accounts : a # b /\ {<<a, n>>, <<b, n>>} \subseteq list}

\* purple_blist_load, before anybody is online
Init ==
    /\ blist \in SUBSET Buddies
    /\ actual = [b \in Buddies |-> {}]
    /\ resmap_ = [n \in Names |-> {}]
    /\ requested = {}
    /\ told = [b \in Buddies |-> "nothing"]
    /\ sent = {}
    /\ shared = SharedIn(blist)
    /\ garbled = {}
    /\ crashed = FALSE

-----------------------------------------------------------------------------

\* ReposterName: the reposting resources the map has for the buddy's name.
ReposterName(map, b) == map[b[2]] \cap Reposters

\* PurpleBuddy2Link
LinkStatus(res, map, b) ==
    IF res[b] = {} THEN "offline"
    ELSE IF ReposterName(map, b) # {} THEN "reposter" ELSE "online"

\* BuddyStatusChanged tells the browser the status of b.
BuddyStatusChanged(res, map, b) == told' = [told EXCEPT ![b] = LinkStatus(res, map, b)]

-----------------------------------------------------------------------------
(* The server *)

\* A buddy comes into the list: the answer to AddLink (and to RequestAuthorize, which
\* calls it), or the work of another client.
BuddyAdded(b) ==
    /\ b \notin blist
    /\ blist' = blist \cup {b}
    /\ shared' = shared \cup SharedIn(blist')
    /\ actual' = [actual EXCEPT ![b] = {}]
    /\ told' = [told EXCEPT ![b] = "nothing"]
    /\ UNCHANGED <<resmap_, requested, sent, garbled, crashed>>

\* A buddy goes: the answer to RmLink, for every account that knows the name, the
\* deletion of its account, or the work of another client.
BuddyRemoved(b) ==
    /\ b \in blist
    /\ blist' = blist \ {b}
    /\ actual' = [actual EXCEPT ![b] = {}]
    /\ sent' = sent \ {b}
    /\ UNCHANGED <<resmap_, requested, told, shared, garbled, crashed>>

\* A presence arrives.  libpurple may keep a change among several resources to
\* itself, but announces a buddy that signs on or off (buddy-signed-on, -off,
\* buddy-status-changed, buddy-idle-changed).
Presence(b, rs) ==
    /\ b \in blist
    /\ actual[b] # rs
    /\ actual' = [actual EXCEPT ![b] = rs]
    /\ \/ BuddyStatusChanged(actual', resmap_, b)
       \/ actual[b] # {} /\ rs # {} /\ UNCHANGED told
    /\ UNCHANGED <<blist, resmap_, requested, sent, shared, garbled, crashed>>

-----------------------------------------------------------------------------
(* Resources *)

\* Mutant: entries stay.
RetrieveUserInfo_Keeps ==
    /\ requested' = requested \cup {b \in blist : actual[b] # {}}
    /\ UNCHANGED <<blist, actual, resmap_, told, sent, shared, garbled, crashed>>

\* RetrieveUserInfo, every minute: buddies online are asked for their resources, the
\* entries of those offline are removed.  (The empty info it hands to NotifyUserInfo
\* itself has no effect there.)
RetrieveUserInfo ==
    /\ requested' = requested \cup {b \in blist : actual[b] # {}}
    /\ resmap_' = [n \in Names |-> IF \E b \in blist : b[2] = n /\ actual[b] = {}
                                  THEN {} ELSE resmap_[n]]
    /\ UNCHANGED <<blist, actual, told, sent, shared, garbled, crashed>>

\* Mutant: the browser is told of new reposters only.
Announce_NewOnly(b, map) ==
    IF ReposterName(resmap_, b) = {} /\ ReposterName(map, b) # {}
    THEN BuddyStatusChanged(actual, map, b) ELSE UNCHANGED told

\* "Have they changed to being a reposter or from"
Announce(b, map) ==
    IF (ReposterName(resmap_, b) = {}) # (ReposterName(map, b) = {})
    THEN BuddyStatusChanged(actual, map, b) ELSE UNCHANGED told

\* NotifyUserInfo lists resources of a buddy: they replace those in the map.  The key
\* who_cpy is not terminated, so what follows it in memory may make it another key,
\* which no lookup finds.  A buddy that has left the list is a null pointer.
NotifyUserInfo(b, rs) ==
    /\ b \in requested
    /\ rs # {}
    /\ requested' = requested \ {b}
    /\ IF b \in blist
       THEN /\ \/ /\ resmap_' = [resmap_ EXCEPT ![b[2]] = rs]
                  /\ garbled' = garbled \ {b[2]}
               \/ /\ garbled' = garbled \cup {b[2]}
                  /\ UNCHANGED resmap_
            /\ Announce(b, resmap_')
            /\ UNCHANGED crashed
       ELSE crashed' = TRUE /\ UNCHANGED <<resmap_, garbled, told>>
    /\ UNCHANGED <<blist, actual, sent, shared>>

\* An answer without resources (an error, a buddy just gone), or none at all.
NoInfo(b) ==
    /\ b \in requested
    /\ requested' = requested \ {b}
    /\ UNCHANGED <<blist, actual, resmap_, told, sent, shared, garbled, crashed>>

\* In the list, an answer has the resources the buddy has now; of one that has left,
\* whatever was on its way.
Answer(b, rs) == (b \in blist => rs = actual[b]) /\ NotifyUserInfo(b, rs)

-----------------------------------------------------------------------------
(* The external interface *)

\* SendPost: one message to every reposting resource of every buddy.
SendPost ==
    /\ sent' = {b \in blist : ReposterName(resmap_, b) # {}}
    /\ UNCHANGED <<blist, actual, resmap_, requested, told, shared, garbled, crashed>>

\* GetLinks tells the browser the status of the first MAXLINKS buddies.
GetLinks ==
    /\ \E shown \in SUBSET blist :
          /\ Cardinality(shown) = IF Cardinality(blist) < MAXLINKS
                                  THEN Cardinality(blist) ELSE MAXLINKS
          /\ told' = [b \in Buddies |-> IF b \in shown THEN LinkStatus(actual, resmap_, b)
                                                      ELSE told[b]]
    /\ UNCHANGED <<blist, actual, resmap_, requested, sent, shared, garbled, crashed>>

-----------------------------------------------------------------------------

BuddyNext(b) ==
    \/ BuddyAdded(b) \/ BuddyRemoved(b) \/ NoInfo(b)
    \/ \E rs \in SUBSET Resources : Presence(b, rs)
    \/ \E rs \in SUBSET Resources : Answer(b, rs)

Next ==
    /\ ~crashed
    /\ \/ \E b \in Buddies : BuddyNext(b)
       \/ RetrieveUserInfo \/ SendPost \/ GetLinks

Spec == Init /\ [][Next]_vars

\* The minute's timeout comes again and again.  A buddy asked again and again answers
\* sometime; the answer lists what libpurple knows at that time.
FairSpec ==
    /\ Spec
    /\ WF_vars(~crashed /\ RetrieveUserInfo)
    /\ \A b \in Buddies : SF_vars(~crashed /\ \E rs \in SUBSET Resources : Answer(b, rs))

-----------------------------------------------------------------------------
(* Properties *)

\* What the browser was told of a link is what GetLinks would say now - unless the
\* name is, or was, a buddy of two accounts: the map has one entry for both, and a
\* change of it is announced for the buddy that answered only.
ToldAgrees ==
    \A b \in blist :
        b[2] \notin shared /\ told[b] # "nothing" => told[b] = LinkStatus(actual, resmap_, b)

\* A post goes to everyone the browser shows as a reposter (but for shared names).
ShownGetPosts ==
    [][SendPost => \A b \in blist : b[2] \notin shared /\ told[b] = "reposter" => b \in sent']_vars

\* Once a buddy's resources stay as they are, the map has them, if the name is not
\* shared and its keys are stored intact: offline buddies are forgotten, and those
\* that have become reposters are found.
MapCatchesUp ==
    \A b \in Buddies, rs \in SUBSET Resources :
        <>[](b \in blist /\ actual[b] = rs /\ b[2] \notin shared \cup garbled /\ ~crashed)
            => <>[](resmap_[b[2]] = rs)
=============================================================================
