----------------------------- MODULE RpStorage ------------------------------
(***************************************************************************)
(* rpl_storage (lib/storage/rpl_storage.cpp): every call opens the         *)
(* database anew into the member this->db, prepares and steps one          *)
(* statement, asks this->db how many rows changed, and closes this->db.    *)
(* The consumer thread and the browser thread call the same object, and    *)
(* nothing serialises them: whatever this->db holds when a call reads it   *)
(* again is what it uses.                                                  *)
(*                                                                         *)
(* SQLite is external: a connection is a handle, a statement takes effect  *)
(* atomically in its first sqlite3_step, any call may fail (an I/O error,  *)
(* the lock of another connection of this process or another: no busy      *)
(* timeout is ever set), and sqlite3_close refuses a connection with an    *)
(* unfinalized statement.                                                  *)
(***************************************************************************)
EXTENDS Naturals, FiniteSets

CONSTANTS Threads,     \* the threads that call the storage object
          Uuids,
          Handles,     \* connections the process can have; closed ones are reused
          NoHandle     \* sqlite3_open's *ppDb when it fails, and "no statement"

ASSUME RpStorageAssumption == NoHandle \notin Handles

VARIABLES db,          \* this->db
          open,        \* the connections that are open
          changes,     \* sqlite3_changes of each connection
          rows,        \* how many rows of table posts have this uuid
          pc,          \* per thread: the statement of its call that is next
          op,          \* per thread: the method it called
          uuid,        \* per thread: the method's argument
          sql_stmt,    \* per thread: the connection its statement is prepared on
          ret,         \* per thread: the answer it is going to return
          effect,      \* history, per thread: its statement changed or found a row
          alone,       \* history, per thread: no other call overlapped this one
          raced,       \* history: two calls have been inside at once
          misused,     \* history: a closed connection was passed to SQLite
          leaked       \* history: a failed prepare has left its connection open

threadVars == <<pc, op, uuid, sql_stmt, ret, effect>>
history    == <<alone, raced, misused, leaked>>
vars       == <<db, open, changes, rows, threadVars, history>>

Ops == {"add_post", "update_metric", "get_post", "delete_post"}
PC  == {"idle", "open", "prepare", "exec", "step", "finalize", "changes", "close", "returned"}
Connections == Handles \cup {NoHandle}

TypeOK ==
    /\ db \in Connections
    /\ open \subseteq Handles
    /\ changes \in [Handles -> 0 .. 2]
    /\ rows \in [Uuids -> 0 .. 2]
    /\ pc \in [Threads -> PC]
    /\ op \in [Threads -> Ops]
    /\ uuid \in [Threads -> Uuids]
    /\ sql_stmt \in [Threads -> Connections]
    /\ ret \in [Threads -> BOOLEAN]
    /\ effect \in [Threads -> BOOLEAN]
    /\ alone \in [Threads -> BOOLEAN]
    /\ raced \in BOOLEAN /\ misused \in BOOLEAN /\ leaked \in BOOLEAN

\* The constructor has run and left this->db pointing at a closed connection.
Init ==
    /\ db \in Handles
    /\ open = {}
    /\ changes = [h \in Handles |-> 0]
    /\ rows \in [Uuids -> 0 .. 1]
    /\ pc = [t \in Threads |-> "idle"]
    /\ op = [t \in Threads |-> "get_post"]
    /\ uuid \in [Threads -> Uuids]
    /\ sql_stmt = [t \in Threads |-> NoHandle]
    /\ ret = [t \in Threads |-> FALSE]
    /\ effect = [t \in Threads |-> FALSE]
    /\ alone = [t \in Threads |-> TRUE]
    /\ raced = FALSE /\ misused = FALSE /\ leaked = FALSE

Goto(t, from, to) ==
    /\ pc[t] = from
    /\ pc' = [pc EXCEPT ![t] = to]

Inside == {t \in Threads : pc[t] \notin {"idle", "returned"}}
Others(t) == Inside \ {t}

\* this->db is handed to SQLite.
Use == misused' = (misused \/ db \notin open)

-----------------------------------------------------------------------------

Call(t, o, u) ==
    /\ Goto(t, "idle", "open")
    /\ op' = [op EXCEPT ![t] = o]
    /\ uuid' = [uuid EXCEPT ![t] = u]
    /\ ret' = [ret EXCEPT ![t] = FALSE]
    /\ effect' = [effect EXCEPT ![t] = FALSE]
    /\ alone' = [s \in Threads |->
                    IF s = t THEN Others(t) = {}
                    ELSE alone[s] /\ s \notin Inside]
    /\ raced' = (raced \/ Others(t) # {})
    /\ UNCHANGED <<db, open, changes, rows, sql_stmt, misused, leaked>>

\* rc = sqlite3_open(this->db_location(), &this->db)
Open(t) ==
    /\ Goto(t, "open", IF op[t] = "delete_post" THEN "exec" ELSE "prepare")
    /\ \E h \in Handles \ open :
        /\ db' = h
        /\ open' = open \cup {h}
        /\ changes' = [changes EXCEPT ![h] = 0]
    /\ UNCHANGED <<rows, op, uuid, sql_stmt, ret, effect, history>>

\* if (rc) return ret;
OpenFails(t) ==
    /\ Goto(t, "open", "returned")
    /\ db' = NoHandle
    /\ UNCHANGED <<open, changes, rows, op, uuid, sql_stmt, ret, effect, history>>

\* rc = sqlite3_prepare_v2(this->db, ...)
Prepare(t) ==
    /\ Goto(t, "prepare", "step")
    /\ db \in open
    /\ sql_stmt' = [sql_stmt EXCEPT ![t] = db]
    /\ UNCHANGED <<db, open, changes, rows, op, uuid, ret, effect, history>>

\* if (rc) return ret;   -- without closing what this call has opened
PrepareFails(t) ==
    /\ Goto(t, "prepare", "returned")
    /\ Use
    /\ leaked' = TRUE
    /\ UNCHANGED <<db, open, changes, rows, op, uuid, sql_stmt, ret, effect, alone, raced>>

\* The effect of t's statement on connection h: the rows of its uuid become n.
Affect(t, h, n, hit) ==
    /\ rows' = [rows EXCEPT ![uuid[t]] = n]
    /\ effect' = [effect EXCEPT ![t] = hit]
    /\ changes' = [changes EXCEPT ![h] = IF hit THEN 1 ELSE 0]

\* Mutant: INSERT without NOT EXISTS.
Step_NoCheck(t) ==
    /\ Goto(t, "step", "finalize")
    /\ Affect(t, sql_stmt[t], rows[uuid[t]] + 1, TRUE)
    /\ UNCHANGED <<db, open, op, uuid, sql_stmt, ret, history>>

\* rc = sqlite3_step(sql_stmt)
Step(t) ==
    /\ Goto(t, "step", "finalize")
    /\ LET h == sql_stmt[t]
           n == rows[uuid[t]]
       IN  \/ /\ op[t] = "add_post"           \* INSERT ... WHERE NOT EXISTS
              /\ Affect(t, h, IF n = 0 THEN 1 ELSE n, n = 0)
           \/ /\ op[t] = "update_metric"      \* UPDATE ... WHERE uuid = ?
              /\ Affect(t, h, n, n > 0)
           \/ /\ op[t] = "get_post"           \* SELECT ... WHERE uuid = ?
              /\ effect' = [effect EXCEPT ![t] = n > 0]
              /\ UNCHANGED <<rows, changes>>
    /\ UNCHANGED <<db, open, op, uuid, sql_stmt, ret, history>>

\* if (rc != SQLITE_DONE) LOG ...   -- and on with it
StepFails(t) ==
    /\ Goto(t, "step", "finalize")
    /\ UNCHANGED <<db, open, changes, rows, op, uuid, sql_stmt, ret, effect, history>>

\* Mutant: the connection is closed before sqlite3_changes is asked.
Finalize_Closes(t) ==
    /\ Goto(t, "finalize", IF op[t] = "get_post" THEN "close" ELSE "changes")
    /\ sql_stmt' = [sql_stmt EXCEPT ![t] = NoHandle]
    /\ ret' = [ret EXCEPT ![t] = op[t] = "get_post" /\ effect[t]]
    /\ open' = open \ {db}
    /\ UNCHANGED <<db, changes, rows, op, uuid, effect, history>>

\* rc = sqlite3_finalize(sql_stmt); get_post already has its answer.
Finalize(t) ==
    /\ Goto(t, "finalize", IF op[t] = "get_post" THEN "close" ELSE "changes")
    /\ sql_stmt' = [sql_stmt EXCEPT ![t] = NoHandle]
    /\ ret' = [ret EXCEPT ![t] = op[t] = "get_post" /\ effect[t]]
    /\ UNCHANGED <<db, open, changes, rows, op, uuid, effect, history>>

\* if (sqlite3_changes(this->db) > 0) ret = true;
\* What a closed connection answers is undefined.
Changes(t) ==
    /\ Goto(t, "changes", "close")
    /\ Use
    /\ \E answer \in BOOLEAN :
        /\ db \in open => answer = (changes[db] > 0)
        /\ ret' = [ret EXCEPT ![t] = answer]
    /\ UNCHANGED <<db, open, changes, rows, op, uuid, sql_stmt, effect, alone, raced, leaked>>

\* delete_post: sqlite3_exec(this->db, "DELETE ...")
Exec(t) ==
    /\ Goto(t, "exec", "close")
    /\ Use
    /\ \/ db \in open /\ Affect(t, db, 0, rows[uuid[t]] > 0)
       \/ UNCHANGED <<changes, rows, effect>>
    /\ UNCHANGED <<db, open, op, uuid, sql_stmt, ret, alone, raced, leaked>>

\* Mutant: the connection is left open.
Close_Forgotten(t) ==
    /\ Goto(t, "close", "returned")
    /\ UNCHANGED <<db, open, changes, rows, op, uuid, sql_stmt, ret, effect, history>>

\* The connection is gone, and its count of changes with it.
Freed == open' = open \ {db} /\ changes' = [changes EXCEPT ![db] = 0]

\* sqlite3_close(this->db), which refuses while a statement lives; this->db keeps its value.
Close(t) ==
    /\ Goto(t, "close", "returned")
    /\ Use
    /\ \/ (\E s \in Threads : sql_stmt[s] = db) /\ UNCHANGED <<open, changes>>
       \/ (\A s \in Threads : sql_stmt[s] # db) /\ Freed
    /\ UNCHANGED <<db, rows, op, uuid, sql_stmt, ret, effect, alone, raced, leaked>>

\* Nobody reads ret and effect from here to the next call.
Return(t) ==
    /\ Goto(t, "returned", "idle")
    /\ ret' = [ret EXCEPT ![t] = FALSE]
    /\ effect' = [effect EXCEPT ![t] = FALSE]
    /\ UNCHANGED <<db, open, changes, rows, op, uuid, sql_stmt, history>>

\* The rest of a call that has been made.
Proceed(t) ==
    \/ Open(t) \/ OpenFails(t) \/ Prepare(t) \/ PrepareFails(t)
    \/ Step(t) \/ StepFails(t) \/ Finalize(t) \/ Changes(t)
    \/ Exec(t) \/ Close(t) \/ Return(t)

Next == \E t \in Threads : Proceed(t) \/ \E o \in Ops, u \in Uuids : Call(t, o, u)

Spec == Init /\ [][Next]_vars

-----------------------------------------------------------------------------
(* Properties *)

\* No race ever stores a uuid twice: get_post(uuid) writes one Post* per row it
\* finds into an array of one.
OneRowPerUuid == \A u \in Uuids : rows[u] <= 1

\* A call that nobody overlapped answers exactly what its statement did, even when
\* earlier calls have raced and left connections behind: it reads this->db three
\* times and finds its own connection each time.
AnswersIfAlone ==
    \A t \in Threads :
        pc[t] = "returned" /\ alone[t] /\ op[t] # "delete_post" => ret[t] = effect[t]

\* As long as calls have not overlapped, no closed connection is passed to SQLite, and
\* none outlives its call but by the early return after a failed prepare.
CleanUnlessRaced ==
    ~raced => /\ ~misused
              /\ ~leaked /\ open # {} => \E t \in Inside : open = {db}

\* A statement runs only on an open connection, even when another call has closed
\* this->db meanwhile: sqlite3_close refuses while the statement lives.
StatementsOnOpen ==
    \A t \in Threads : sql_stmt[t] # NoHandle => sql_stmt[t] \in open
=============================================================================
