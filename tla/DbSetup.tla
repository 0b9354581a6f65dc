------------------------------ MODULE DbSetup ------------------------------
(***************************************************************************)
(* The start of the storage (rpl_storage's constructor, setup_tables,      *)
(* update_table and db_check in lib/storage/rpl_storage.cpp): the posts    *)
(* table is created if it is not there, and thrown away and created anew   *)
(* when PRAGMA user_version is not that of the program.  Every statement   *)
(* is a transaction of its own and may fail, which is logged and otherwise *)
(* ignored; the process may end at any time, and what is in the file       *)
(* remains.                                                                *)
(***************************************************************************)
EXTENDS Integers

CONSTANT CURRENT_VERSION_NUMBER

ASSUME VersionAssumption == CURRENT_VERSION_NUMBER \in Nat \ {0}

VARIABLES table,         \* on disk: no posts table, or one of what format
          user_version,  \* on disk: PRAGMA user_version
          posts,         \* on disk: posts stored by this release, and whether the start
                         \* before it had gone well
          place,         \* where the program is
          version,       \* update_table's variable
          clean,         \* history: no statement of this start has failed
          misread,       \* history: reading user_version has failed in this start
          undropped      \* history: dropping an old table has failed once

disk         == <<table, user_version, posts>>
setupHistory == <<clean, misread, undropped>>
setupVars    == <<disk, place, version, setupHistory>>

Steps == {"down", "create", "update", "pragma", "drop", "recreate", "setversion",
          "check", "running"}

SetupDataOK ==
    /\ table \in {"none", "old", "new"}
    /\ user_version \in 0 .. CURRENT_VERSION_NUMBER
    /\ posts \in {"none", "safe", "shaky"}
    /\ posts # "none" => table = "new"
    /\ place \in Steps
    /\ version \in -1 .. CURRENT_VERSION_NUMBER

HistoryOK == clean \in BOOLEAN /\ misread \in BOOLEAN /\ undropped \in BOOLEAN

SetupTypeOK == SetupDataOK /\ HistoryOK

\* No file yet, or one that an older release has left.
SetupInit ==
    /\ table \in {"none", "old"}
    /\ user_version \in 0 .. CURRENT_VERSION_NUMBER - 1
    /\ posts = "none"
    /\ place = "down"
    /\ version = -1
    /\ clean = TRUE
    /\ misread = FALSE
    /\ undropped = FALSE

\* A statement of the start fails: errmsg is logged.
Fails == clean' = FALSE /\ UNCHANGED <<disk, version, misread, undropped>>

At(here, there) == place = here /\ place' = there

\* CREATE TABLE IF NOT EXISTS posts
CreatePosts ==
    /\ table' = IF table = "none" THEN "new" ELSE table
    /\ UNCHANGED <<user_version, posts, version, setupHistory>>

-----------------------------------------------------------------------------

\* The constructor opens the database; without it the program runs on regardless.
Start ==
    /\ clean' = TRUE
    /\ misread' = FALSE
    /\ At("down", "create")
    /\ UNCHANGED <<disk, version, undropped>>

StartFails == At("down", "running") /\ Fails

\* setup_tables creates the table, and opens the database again for update_table.
Create      == At("create", "update") /\ CreatePosts
CreateFails == At("create", "update") /\ Fails

OpenUpdate ==
    /\ At("update", "pragma")
    /\ version' = -1
    /\ UNCHANGED <<disk, setupHistory>>

OpenUpdateFails == At("update", "check") /\ Fails

\* "if version is different"
Outdated(v) == v # CURRENT_VERSION_NUMBER

\* PRAGMA user_version; version stays -1 if it fails.
Pragma ==
    /\ place = "pragma"
    /\ version' = user_version
    /\ place' = IF Outdated(user_version) THEN "drop" ELSE "check"
    /\ UNCHANGED <<disk, setupHistory>>

PragmaFails ==
    /\ place = "pragma"
    /\ place' = IF Outdated(version) THEN "drop" ELSE "check"
    /\ clean' = FALSE
    /\ misread' = TRUE
    /\ UNCHANGED <<disk, version, undropped>>

\* Mutant: the old table stays.
Drop_Missing == At("drop", "recreate") /\ UNCHANGED <<disk, version, setupHistory>>

\* DROP TABLE posts
Drop ==
    /\ At("drop", "recreate")
    /\ table # "none"
    /\ table' = "none"
    /\ posts' = "none"
    /\ UNCHANGED <<user_version, version, setupHistory>>

DropFails ==
    /\ At("drop", "recreate")
    /\ clean' = FALSE
    /\ undropped' = (undropped \/ table = "old")
    /\ UNCHANGED <<disk, version, misread>>

Recreate      == At("recreate", "setversion") /\ CreatePosts
RecreateFails == At("recreate", "setversion") /\ Fails

\* Mutant: the version is not written.
SetVersion_Missing == At("setversion", "check") /\ UNCHANGED <<disk, version, setupHistory>>

\* PRAGMA user_version = CURRENT_VERSION_NUMBER
SetVersion ==
    /\ At("setversion", "check")
    /\ user_version' = CURRENT_VERSION_NUMBER
    /\ UNCHANGED <<table, posts, version, setupHistory>>

SetVersionFails == At("setversion", "check") /\ Fails

\* db_check only logs what PRAGMA integrity_check says.
Check      == At("check", "running") /\ UNCHANGED <<disk, version, setupHistory>>
CheckFails == At("check", "running") /\ Fails

\* Posts arrive.  A table of an older format refuses them.
Receive ==
    /\ place = "running"
    /\ table = "new"
    /\ posts' = IF clean \/ posts = "safe" THEN "safe" ELSE "shaky"
    /\ UNCHANGED <<table, user_version, place, version, setupHistory>>

\* The program ends, in whichever way.
End ==
    /\ place # "down"
    /\ place' = "down"
    /\ UNCHANGED <<disk, version, setupHistory>>

SetupNext ==
    \/ Start \/ Create \/ OpenUpdate \/ Pragma \/ Drop \/ Recreate \/ SetVersion \/ Check
    \/ StartFails \/ CreateFails \/ OpenUpdateFails \/ PragmaFails \/ DropFails
    \/ RecreateFails \/ SetVersionFails \/ CheckFails
    \/ Receive \/ End

SetupSpec == SetupInit /\ [][SetupNext]_setupVars

-----------------------------------------------------------------------------
(* Properties *)

\* The file never claims the current version with a table of an older format, except
\* after a DROP that failed: the CREATE that follows is then a no-op, and the version
\* is set all the same, for good.
VersionTellsFormat ==
    user_version = CURRENT_VERSION_NUMBER => table # "old" \/ undropped

\* A start in which nothing fails makes up for all that went wrong before it, crashes
\* half-way through an update included - but for that DROP.
CleanStartRepairs ==
    place = "running" /\ clean =>
        user_version = CURRENT_VERSION_NUMBER /\ (table = "new" \/ undropped)

\* Posts stored after a start without failures are never thrown away - unless a later
\* start cannot read the version: -1 counts as outdated.
SafePostsSurvive == [][posts = "safe" /\ posts' = "none" => misread]_setupVars
=============================================================================
