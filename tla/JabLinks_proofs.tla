-------------------------- MODULE JabLinks_proofs --------------------------
(***************************************************************************)
(* The safety properties of JabLinks, for any accounts, names, resources   *)
(* and MAXLINKS.                                                           *)
(***************************************************************************)
EXTENDS JabLinks, TLAPS

\* A name that is in the list twice has been noticed, so that the others have one buddy.
SharedNoticed == SharedIn(blist) \subseteq shared

IndInv == TypeOK /\ SharedNoticed /\ ToldAgrees

\* The map gives every buddy a status.
LEMMA StatusType == ASSUME NEW res, NEW map, NEW b PROVE LinkStatus(res, map, b) \in Status
BY DEF LinkStatus, Status

\* The status of a buddy depends on its presence and on the entry of its name only.
LEMMA StatusLocal ==
    ASSUME NEW res1, NEW res2, NEW map1, NEW map2, NEW b,
           res1[b] = res2[b] \/ (res1[b] # {} /\ res2[b] # {}),
           map1[b[2]] = map2[b[2]]
    PROVE  LinkStatus(res1, map1, b) = LinkStatus(res2, map2, b)
BY DEF LinkStatus, ReposterName

\* An offline buddy is offline, whatever the map has.
LEMMA StatusOffline ==
    ASSUME NEW res, NEW map, NEW b, res[b] = {} PROVE LinkStatus(res, map, b) = "offline"
BY DEF LinkStatus

\* One buddy per name, as long as the name is not shared.
LEMMA OnlyBuddy ==
    ASSUME SharedNoticed, TypeOK, NEW b \in blist, NEW c \in blist,
           b[2] = c[2], b[2] \notin shared
    PROVE  b = c
<1>1. PICK a1 \in Accounts, n1 \in Names : b = <<a1, n1>>
      BY DEF TypeOK, Buddies
<1>2. PICK a2 \in Accounts, n2 \in Names : c = <<a2, n2>>
      BY DEF TypeOK, Buddies
<1>3. a1 # a2 => n1 \in SharedIn(blist)
      BY <1>1, <1>2 DEF SharedIn
<1>4. QED
      BY <1>1, <1>2, <1>3 DEF SharedNoticed

-----------------------------------------------------------------------------

LEMMA InitInv == Init => IndInv
BY DEF Init, IndInv, TypeOK, SharedNoticed, ToldAgrees, Status, SharedIn

LEMMA TypeStep ==
    ASSUME TypeOK, [Next]_vars
    PROVE  TypeOK'
<1> USE DEF TypeOK
<1>1. ASSUME NEW b \in Buddies, BuddyAdded(b) \/ BuddyRemoved(b) \/ NoInfo(b)
      PROVE  TypeOK'
      BY <1>1 DEF BuddyAdded, BuddyRemoved, NoInfo, SharedIn
<1>2. ASSUME NEW b \in Buddies, NEW rs \in SUBSET Resources, Presence(b, rs)
      PROVE  TypeOK'
      BY <1>2, StatusType DEF Presence, BuddyStatusChanged
<1>3. ASSUME NEW b \in Buddies, NEW rs \in SUBSET Resources, Answer(b, rs)
      PROVE  TypeOK'
  <2>1. b[2] \in Names
        BY DEF Buddies
  <2>2. told' \in [Buddies -> Status \cup {"nothing"}]
        BY <1>3, StatusType DEF Answer, NotifyUserInfo, Announce, BuddyStatusChanged
  <2>3. resmap_' \in [Names -> SUBSET Resources] /\ garbled' \subseteq Names
        BY <1>3, <2>1 DEF Answer, NotifyUserInfo
  <2>4. UNCHANGED <<blist, actual, sent, shared>> /\ requested' \subseteq Buddies
        BY <1>3 DEF Answer, NotifyUserInfo
  <2>5. crashed' \in BOOLEAN
        BY <1>3 DEF Answer, NotifyUserInfo
  <2>6. QED
        BY <2>2, <2>3, <2>4, <2>5
<1>4. CASE RetrieveUserInfo \/ SendPost
      BY <1>4 DEF RetrieveUserInfo, SendPost
<1>5. CASE GetLinks
      BY <1>5, StatusType DEF GetLinks
<1>6. CASE UNCHANGED vars
      BY <1>6 DEF vars
<1>7. QED
      BY <1>1, <1>2, <1>3, <1>4, <1>5, <1>6 DEF Next, BuddyNext

LEMMA SharedStep ==
    ASSUME TypeOK, SharedNoticed, [Next]_vars
    PROVE  SharedNoticed'
<1> USE DEF SharedNoticed, SharedIn
<1>1. ASSUME NEW b \in Buddies, BuddyAdded(b)
      PROVE  SharedNoticed'
      BY <1>1 DEF BuddyAdded
<1>2. ASSUME NEW b \in Buddies, BuddyRemoved(b)
      PROVE  SharedNoticed'
      BY <1>2 DEF BuddyRemoved
<1>3. CASE UNCHANGED <<blist, shared>>
      BY <1>3
<1>4. QED
      BY <1>1, <1>2, <1>3 DEF Next, BuddyNext, NoInfo, Presence, Answer, NotifyUserInfo,
         RetrieveUserInfo, SendPost, GetLinks, vars

\* Whatever changes the status of a buddy tells the browser, if there is but one buddy
\* of that name.
LEMMA ToldStep ==
    ASSUME IndInv, [Next]_vars
    PROVE  ToldAgrees'
<1> SUFFICES ASSUME NEW c \in blist', c[2] \notin shared', told'[c] # "nothing"
             PROVE  told'[c] = LinkStatus(actual', resmap_', c)
    BY DEF ToldAgrees
<1>0. TypeOK /\ SharedNoticed
      BY DEF IndInv
<1>1. ASSUME c \in blist, c[2] \notin shared, told[c] # "nothing"
      PROVE  told[c] = LinkStatus(actual, resmap_, c)
      BY <1>1 DEF IndInv, ToldAgrees
<1>2. ASSUME NEW b \in Buddies, BuddyAdded(b)
      PROVE  told'[c] = LinkStatus(actual', resmap_', c)
  <2>1. c # b
        BY <1>0, <1>2 DEF BuddyAdded, TypeOK
  <2>2. /\ c \in blist /\ c[2] \notin shared
        /\ told'[c] = told[c] /\ actual'[c] = actual[c] /\ resmap_' = resmap_
        BY <1>0, <1>2, <2>1 DEF BuddyAdded, TypeOK
  <2>3. QED
        BY <1>1, <2>2, StatusLocal
<1>3. ASSUME NEW b \in Buddies, BuddyRemoved(b)
      PROVE  told'[c] = LinkStatus(actual', resmap_', c)
  <2>1. /\ c \in blist /\ c[2] \notin shared
        /\ told'[c] = told[c] /\ actual'[c] = actual[c] /\ resmap_' = resmap_
        BY <1>0, <1>3 DEF BuddyRemoved, TypeOK
  <2>2. QED
        BY <1>1, <2>1, StatusLocal
<1>4. ASSUME NEW b \in Buddies, NEW rs \in SUBSET Resources, Presence(b, rs)
      PROVE  told'[c] = LinkStatus(actual', resmap_', c)
  <2>1. c \in blist /\ c[2] \notin shared /\ c \in Buddies /\ resmap_' = resmap_
        BY <1>0, <1>4 DEF Presence, TypeOK
  <2>2. CASE BuddyStatusChanged(actual', resmap_, b) /\ c = b
        BY <1>0, <2>1, <2>2 DEF BuddyStatusChanged, TypeOK
  <2>3. CASE c # b
    <3>1. told'[c] = told[c] /\ actual'[c] = actual[c]
          BY <1>0, <1>4, <2>1, <2>3 DEF Presence, BuddyStatusChanged, TypeOK
    <3>2. QED
          BY <1>1, <2>1, <3>1, StatusLocal
  <2>4. CASE c = b /\ actual[b] # {} /\ rs # {} /\ UNCHANGED told
    <3>1. actual'[c] # {}
          BY <1>0, <1>4, <2>4 DEF Presence, TypeOK
    <3>2. QED
          BY <1>1, <2>1, <2>4, <3>1, StatusLocal
  <2>5. QED
        BY <1>4, <2>2, <2>3, <2>4 DEF Presence
<1>5. ASSUME NEW b \in Buddies, NEW rs \in SUBSET Resources, Answer(b, rs)
      PROVE  told'[c] = LinkStatus(actual', resmap_', c)
  <2>1. c \in blist /\ c[2] \notin shared /\ c \in Buddies /\ actual' = actual
        BY <1>0, <1>5 DEF Answer, NotifyUserInfo, TypeOK
  <2>2. CASE b \notin blist
        BY <1>1, <1>5, <2>1, <2>2 DEF Answer, NotifyUserInfo
  <2>3. CASE b \in blist
    <3>1. Announce(b, resmap_')
          BY <1>5, <2>3 DEF Answer, NotifyUserInfo
    <3>2. CASE c = b
      <4>1. CASE told' = [told EXCEPT ![b] = LinkStatus(actual, resmap_', b)]
            BY <1>0, <2>1, <3>2, <4>1 DEF TypeOK
      <4>2. CASE (ReposterName(resmap_, b) = {}) = (ReposterName(resmap_', b) = {})
        <5>1. told' = told
              BY <3>1, <4>2 DEF Announce
        <5>2. LinkStatus(actual, resmap_', c) = LinkStatus(actual, resmap_, c)
              BY <3>2, <4>2 DEF LinkStatus
        <5>3. QED
              BY <1>1, <2>1, <5>1, <5>2
      <4>3. QED
            BY <3>1, <4>1, <4>2 DEF Announce, BuddyStatusChanged
    <3>3. CASE c # b
      <4>1. c[2] # b[2]
            BY <1>0, <2>1, <2>3, <3>3, OnlyBuddy
      <4>2. resmap_'[c[2]] = resmap_[c[2]]
            BY <1>0, <1>5, <2>1, <2>3, <4>1 DEF Answer, NotifyUserInfo, TypeOK, Buddies
      <4>3. told'[c] = told[c]
            BY <1>0, <2>1, <3>1, <3>3 DEF Announce, BuddyStatusChanged, TypeOK
      <4>4. QED
            BY <1>1, <2>1, <4>2, <4>3, StatusLocal
    <3>4. QED
          BY <3>2, <3>3
  <2>4. QED
        BY <2>2, <2>3
<1>6. CASE RetrieveUserInfo
  <2>1. c \in blist /\ c[2] \notin shared /\ c \in Buddies
        BY <1>0, <1>6 DEF RetrieveUserInfo, TypeOK
  <2>2. actual' = actual /\ told' = told
        BY <1>6 DEF RetrieveUserInfo
  <2>3. CASE actual[c] = {}
        BY <1>1, <2>1, <2>2, <2>3, StatusOffline
  <2>4. CASE actual[c] # {}
    <3>1. ~ \E b \in blist : b[2] = c[2] /\ actual[b] = {}
          BY <1>0, <2>1, <2>4, OnlyBuddy
    <3>2. resmap_'[c[2]] = resmap_[c[2]]
          BY <1>6, <2>1, <3>1 DEF RetrieveUserInfo, Buddies
    <3>3. QED
          BY <1>1, <2>1, <2>2, <3>2, StatusLocal
  <2>5. QED
        BY <2>3, <2>4
<1>7. CASE GetLinks
  <2>1. c \in blist /\ c[2] \notin shared /\ c \in Buddies /\ UNCHANGED <<actual, resmap_>>
        BY <1>0, <1>7 DEF GetLinks, TypeOK
  <2>2. told'[c] = LinkStatus(actual, resmap_, c) \/ told'[c] = told[c]
        BY <1>7, <2>1 DEF GetLinks
  <2>3. QED
        BY <1>1, <2>1, <2>2
<1>8. CASE UNCHANGED <<blist, actual, resmap_, told, shared>>
      BY <1>1, <1>8
<1>9. QED
      BY <1>2, <1>3, <1>4, <1>5, <1>6, <1>7, <1>8
      DEF Next, BuddyNext, NoInfo, SendPost, vars

LEMMA Inductive == Spec => []IndInv
<1>1. IndInv /\ [Next]_vars => IndInv'
      BY TypeStep, SharedStep, ToldStep DEF IndInv
<1>2. QED
      BY InitInv, <1>1, PTL DEF Spec

-----------------------------------------------------------------------------

\* The buddy list, the map and what the browser was told keep their types; a post is
\* only ever sent to buddies.
THEOREM TypeCorrect == Spec => []TypeOK
<1>1. IndInv => TypeOK
      BY DEF IndInv
<1>2. QED
      BY Inductive, <1>1, PTL

\* For a name with one buddy the browser is never behind: NotifyUserInfo and the
\* presence signals announce whatever changes its link.
THEOREM ToldIsCurrent == Spec => []ToldAgrees
<1>1. IndInv => ToldAgrees
      BY DEF IndInv
<1>2. QED
      BY Inductive, <1>1, PTL

\* SendPost sends to everyone the browser shows as a reposter.
THEOREM ShownAreSentTo == Spec => ShownGetPosts
<1>1. ASSUME IndInv, SendPost
      PROVE  \A b \in blist : b[2] \notin shared /\ told[b] = "reposter" => b \in sent'
  <2> SUFFICES ASSUME NEW b \in blist, b[2] \notin shared, told[b] = "reposter"
               PROVE  b \in sent'
      OBVIOUS
  <2>1. LinkStatus(actual, resmap_, b) = "reposter"
        BY <1>1 DEF IndInv, ToldAgrees
  <2>2. ReposterName(resmap_, b) # {}
        BY <2>1 DEF LinkStatus
  <2>3. QED
        BY <1>1, <2>2 DEF SendPost
<1>2. IndInv /\ [Next]_vars =>
         [SendPost =>
             \A b \in blist : b[2] \notin shared /\ told[b] = "reposter" => b \in sent']_vars
      BY <1>1
<1>3. QED
      BY Inductive, <1>2, PTL DEF Spec, ShownGetPosts
=============================================================================
