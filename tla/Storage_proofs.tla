--------------------------- MODULE Storage_proofs ---------------------------
(***************************************************************************)
(* What rpl_storage promises, proved.  First its methods (RpStorage), for  *)
(* any number of threads, posts and connections; then its start (DbSetup), *)
(* for every version number.                                               *)
(***************************************************************************)
EXTENDS RpStorage, DbSetup, TLAPS

(* The methods: the inductive invariant *)

\* Which statements of which method there are.
OpsTold ==
    \A t \in Threads :
        /\ pc[t] \in {"prepare", "step", "finalize", "changes"} => op[t] # "delete_post"
        /\ pc[t] = "exec" => op[t] = "delete_post"
        /\ pc[t] = "changes" => op[t] # "get_post"

\* A statement exists from prepare to finalize.
StatementsLive ==
    \A t \in Threads :
        sql_stmt[t] # NoHandle <=> pc[t] \in {"step", "finalize"}

\* A call nobody overlaps is the only one, and this->db is its connection.
AloneOwnsDb ==
    \A t \in Threads : alone[t] =>
        /\ t \in Inside => Inside = {t}
        /\ pc[t] \in {"prepare", "exec", "changes"} => db \in open
        /\ pc[t] \in {"step", "finalize"} => sql_stmt[t] = db

\* What it will answer is there to be read off that connection, or read already.
AloneAnswers ==
    \A t \in Threads : alone[t] =>
        /\ pc[t] \in {"open", "prepare", "step"} => ~ret[t] /\ ~effect[t]
        /\ pc[t] \in {"prepare", "step"} => changes[db] = 0
        /\ pc[t] \in {"finalize", "changes"} /\ op[t] # "get_post" =>
              (effect[t] <=> changes[db] > 0)
        /\ pc[t] \in {"close", "returned"} /\ op[t] # "delete_post" =>
              (ret[t] <=> effect[t])

\* Without a race the only call has its connection in this->db, and no other is open
\* unless a failed prepare has left it.
OneConnection ==
    raced \/ /\ ~misused
             /\ \A s, t \in Inside : s = t
             /\ \A t \in Inside : pc[t] # "open" => db \in open
             /\ \/ leaked
                \/ /\ Inside = {} => open = {}
                   /\ \A t \in Inside : open = IF pc[t] = "open" THEN {} ELSE {db}

IndInv ==
    /\ TypeOK /\ OneRowPerUuid /\ StatementsOnOpen
    /\ OpsTold /\ StatementsLive /\ AloneOwnsDb /\ AloneAnswers /\ OneConnection

DataOK ==
    /\ db \in Connections
    /\ open \subseteq Handles
    /\ changes \in [Handles -> 0 .. 2]
    /\ rows \in [Uuids -> 0 .. 2]
    /\ pc \in [Threads -> PC]
    /\ op \in [Threads -> Ops]
    /\ uuid \in [Threads -> Uuids]
    /\ sql_stmt \in [Threads -> Connections]

FlagsOK ==
    /\ ret \in [Threads -> BOOLEAN]
    /\ effect \in [Threads -> BOOLEAN]
    /\ alone \in [Threads -> BOOLEAN]
    /\ raced \in BOOLEAN /\ leaked \in BOOLEAN
    /\ misused \in BOOLEAN

LEMMA TypeParts == TypeOK <=> DataOK /\ FlagsOK
BY DEF TypeOK, DataOK, FlagsOK

-----------------------------------------------------------------------------
(* A step of one thread *)

LEMMA ExceptOther ==
    ASSUME NEW f, NEW S, NEW T, f \in [S -> T], NEW x, NEW e, NEW y \in S \ {x}
    PROVE  [f EXCEPT ![x] = e][y] = f[y]
OBVIOUS

\* The rest of a call moves its own thread on, and leaves the others' calls alone.
LEMMA ProceedFrame ==
    ASSUME DataOK, NEW t \in Threads, Proceed(t)
    PROVE  /\ \A s \in Threads \ {t} : pc'[s] = pc[s] /\ sql_stmt'[s] = sql_stmt[s]
           /\ UNCHANGED <<op, uuid, alone, raced>>
           /\ pc' \in [Threads -> PC]
           /\ pc[t] # "returned" => t \in Inside
           /\ pc'[t] # "open"
<1> USE DEF DataOK, PC, Goto, Inside, history
<1>1. CASE Open(t) \/ OpenFails(t)
      BY <1>1 DEF Open, OpenFails
<1>2. CASE Prepare(t) \/ PrepareFails(t)
      BY <1>2 DEF Prepare, PrepareFails
<1>3. CASE Step(t) \/ StepFails(t)
      BY <1>3 DEF Step, StepFails
<1>4. CASE Finalize(t) \/ Changes(t)
  <2>1. /\ sql_stmt' \in {sql_stmt, [sql_stmt EXCEPT ![t] = NoHandle]}
        /\ UNCHANGED <<op, uuid, alone, raced>>
        BY <1>4 DEF Finalize, Changes
  <2>2. pc[t] \in {"finalize", "changes"} /\ \E l \in {"close", "changes"} : pc' = [pc EXCEPT ![t] = l]
        BY <1>4 DEF Finalize, Changes
  <2>3. QED
        BY <2>1, <2>2
<1>5. CASE Exec(t)
  <2>1. UNCHANGED <<op, uuid, sql_stmt, alone, raced>>
        BY <1>5 DEF Exec
  <2>2. pc[t] = "exec" /\ pc' = [pc EXCEPT ![t] = "close"]
        BY <1>5 DEF Exec
  <2>3. QED
        BY <2>1, <2>2
<1>6. CASE Close(t) \/ Return(t)
      BY <1>6 DEF Close, Return
<1>7. QED
      BY <1>1, <1>2, <1>3, <1>4, <1>5, <1>6 DEF Proceed

\* Only its own answer, too.
LEMMA AnswerFrame ==
    ASSUME FlagsOK, NEW t \in Threads, Proceed(t), NEW s \in Threads \ {t}
    PROVE  ret'[s] = ret[s] /\ effect'[s] = effect[s]
<1>1. ret' = ret \/ \E e : ret' = [ret EXCEPT ![t] = e]
      BY Zenon DEF Proceed, Open, OpenFails, Prepare, PrepareFails, Step, StepFails,
                   Finalize, Changes, Exec, Close, Return
<1>2. effect' = effect \/ \E e : effect' = [effect EXCEPT ![t] = e]
      BY Zenon DEF Proceed, Open, OpenFails, Prepare, PrepareFails, Step, StepFails,
                   Finalize, Changes, Exec, Close, Return, Affect
<1>3. QED
      BY <1>1, <1>2, ExceptOther DEF FlagsOK

LEMMA FlagsStep == FlagsOK /\ [Next]_vars => FlagsOK'
<1> SUFFICES ASSUME FlagsOK, [Next]_vars PROVE FlagsOK'
    OBVIOUS
<1> USE DEF FlagsOK
<1>1. ASSUME NEW t \in Threads, Proceed(t)
      PROVE  FlagsOK'
  <2>0. leaked' \in BOOLEAN
        BY <1>1, Zenon DEF Proceed, Open, OpenFails, Prepare, PrepareFails, Step, StepFails,
                    Finalize, Changes, Exec, Close, Return, history
  <2>1. raced' \in BOOLEAN /\ misused' \in BOOLEAN /\ alone' \in [Threads -> BOOLEAN]
        BY <1>1, Zenon DEF Proceed, Open, OpenFails, Prepare, PrepareFails, Step, StepFails,
                    Finalize, Changes, Exec, Close, Return, Use, history
  <2>2. effect' \in [Threads -> BOOLEAN]
    <3>1. ASSUME NEW h, NEW n, NEW hit \in BOOLEAN, Affect(t, h, n, hit)
          PROVE  effect' \in [Threads -> BOOLEAN]
          BY <3>1 DEF Affect
    <3>2. CASE Step(t)
      <4>1. (rows[uuid[t]] = 0) \in BOOLEAN /\ (rows[uuid[t]] > 0) \in BOOLEAN
            OBVIOUS
      <4>2. \/ \E h, n : \E hit \in BOOLEAN : Affect(t, h, n, hit)
            \/ effect' = [effect EXCEPT ![t] = rows[uuid[t]] > 0]
            BY <3>2, <4>1, Zenon DEF Step
      <4>3. QED
            BY <3>1, <4>1, <4>2, Zenon
    <3>3. CASE Exec(t)
      <4>1. (rows[uuid[t]] > 0) \in BOOLEAN
            OBVIOUS
      <4>2. (\E h, n : \E hit \in BOOLEAN : Affect(t, h, n, hit)) \/ effect' = effect
            BY <3>3, <4>1, Zenon DEF Exec
      <4>3. QED
            BY <3>1, <4>2, Zenon
    <3>4. QED
          BY <1>1, <3>2, <3>3 DEF Proceed, Open, OpenFails, Prepare, PrepareFails, StepFails,
                    Finalize, Changes, Close, Return
  <2>3. ret' \in [Threads -> BOOLEAN]
    <3>1. CASE Finalize(t)
          BY <3>1, Zenon DEF Finalize
    <3>2. CASE Changes(t)
          BY <3>2 DEF Changes
    <3>3. QED
          BY <1>1, <3>1, <3>2 DEF Proceed, Open, OpenFails, Prepare, PrepareFails, Step,
                    StepFails, Exec, Close, Return
  <2>4. QED
        BY <2>0, <2>1, <2>2, <2>3
<1>2. ASSUME NEW t \in Threads, NEW o, NEW u, Call(t, o, u)
      PROVE  FlagsOK'
  <2>1. alone' \in [Threads -> BOOLEAN]
        BY <1>2, Zenon DEF Call
  <2>2. raced' \in BOOLEAN /\ misused' \in BOOLEAN
        BY <1>2, Zenon DEF Call
  <2>3. QED
        BY <1>2, <2>1, <2>2 DEF Call
<1>3. CASE UNCHANGED vars
      BY <1>3 DEF vars, threadVars, history
<1>4. QED
      BY <1>1, <1>2, <1>3 DEF Next

\* Types and the number of rows, which a step takes from 0 to 1 at most.
LEMMA DataStep ==
    ASSUME DataOK, OneRowPerUuid, OpsTold, StatementsOnOpen, StatementsLive, [Next]_vars
    PROVE  DataOK' /\ OneRowPerUuid' /\ OpsTold' /\ StatementsOnOpen' /\ StatementsLive'
<1> USE RpStorageAssumption
<1>1. ASSUME NEW t \in Threads, Proceed(t)
      PROVE  DataOK' /\ OneRowPerUuid' /\ OpsTold' /\ StatementsOnOpen' /\ StatementsLive'
  <2>0. /\ \A s \in Threads \ {t} : pc'[s] = pc[s] /\ sql_stmt'[s] = sql_stmt[s]
        /\ UNCHANGED <<op, uuid>>
        /\ pc' \in [Threads -> PC]
        BY <1>1, ProceedFrame
  <2>1. CASE Open(t) \/ OpenFails(t)
        BY <2>0, <2>1 DEF Open, OpenFails, Goto, DataOK, PC, Ops, Connections, OneRowPerUuid,
                          OpsTold, StatementsOnOpen, StatementsLive
  <2>2. CASE Prepare(t) \/ PrepareFails(t)
        BY <2>0, <2>2 DEF Prepare, PrepareFails, Goto, DataOK, PC, Connections, OneRowPerUuid,
                          OpsTold, StatementsOnOpen, StatementsLive
  <2>3. CASE Step(t)
    <3>1. /\ rows' \in [Uuids -> 0 .. 2]
          /\ OneRowPerUuid'
          BY <2>3 DEF Step, Affect, DataOK, OneRowPerUuid
    <3>2. changes' \in [Handles -> 0 .. 2]
          BY <2>3 DEF Step, Affect, DataOK
    <3>3. UNCHANGED <<db, open, sql_stmt>> /\ pc[t] = "step" /\ pc'[t] = "finalize"
          BY <2>3 DEF Step, Goto, DataOK
    <3>4. QED
          BY <2>0, <3>1, <3>2, <3>3 DEF DataOK, OpsTold, StatementsOnOpen, StatementsLive
  <2>4. CASE StepFails(t)
        BY <2>0, <2>4 DEF StepFails, Goto, DataOK, PC, OneRowPerUuid, OpsTold,
                          StatementsOnOpen, StatementsLive
  <2>5. CASE Finalize(t) \/ Changes(t)
    <3>1. UNCHANGED <<db, open, changes, rows>>
          BY <2>5 DEF Finalize, Changes
    <3>2. sql_stmt'[t] = NoHandle /\ sql_stmt' \in [Threads -> Connections]
          BY <2>5 DEF Finalize, Changes, Goto, DataOK, Connections, StatementsLive
    <3>3. /\ pc'[t] \in {"changes", "close"}
          /\ pc'[t] = "changes" => op[t] # "get_post" /\ op[t] # "delete_post"
          BY <2>5 DEF Finalize, Changes, Goto, DataOK, OpsTold
    <3>4. QED
          BY <2>0, <3>1, <3>2, <3>3 DEF DataOK, OneRowPerUuid, OpsTold, StatementsOnOpen,
                                        StatementsLive
  <2>6. CASE Exec(t)
    <3>1. rows' \in [Uuids -> 0 .. 2] /\ OneRowPerUuid'
          BY <2>6 DEF Exec, Affect, DataOK, OneRowPerUuid
    <3>2. changes' \in [Handles -> 0 .. 2]
          BY <2>6 DEF Exec, Affect, DataOK
    <3>3. UNCHANGED <<db, open, sql_stmt>> /\ pc[t] = "exec" /\ pc'[t] = "close"
          BY <2>6 DEF Exec, Goto, DataOK
    <3>4. QED
          BY <2>0, <3>1, <3>2, <3>3 DEF DataOK, OpsTold, StatementsOnOpen, StatementsLive
  <2>7. CASE Close(t) \/ Return(t)
    <3>1. /\ open' \subseteq open
          /\ \A s \in Threads : sql_stmt[s] \in open => sql_stmt[s] \in open'
          BY <2>7 DEF Close, Freed, Return
    <3>2. UNCHANGED <<db, rows, sql_stmt>> /\ changes' \in [Handles -> 0 .. 2]
          BY <2>7 DEF Close, Freed, Return, DataOK
    <3>3. pc[t] \in {"close", "returned"} /\ pc'[t] \in {"returned", "idle"}
          BY <2>7 DEF Close, Return, Goto, DataOK
    <3>4. QED
          BY <2>0, <3>1, <3>2, <3>3 DEF DataOK, OneRowPerUuid, OpsTold, StatementsOnOpen,
                                        StatementsLive
  <2>8. QED
        BY <1>1, <2>1, <2>2, <2>3, <2>4, <2>5, <2>6, <2>7 DEF Proceed
<1>2. ASSUME NEW t \in Threads, NEW o \in Ops, NEW u \in Uuids, Call(t, o, u)
      PROVE  DataOK' /\ OneRowPerUuid' /\ OpsTold' /\ StatementsOnOpen' /\ StatementsLive'
  <2>1. /\ pc' = [pc EXCEPT ![t] = "open"] /\ pc[t] = "idle"
        /\ op' = [op EXCEPT ![t] = o]
        /\ uuid' = [uuid EXCEPT ![t] = u]
        /\ UNCHANGED <<db, open, changes, rows, sql_stmt>>
        BY <1>2 DEF Call, Goto
  <2>2. QED
        BY <2>1 DEF DataOK, PC, OneRowPerUuid, OpsTold, StatementsOnOpen, StatementsLive
<1>3. CASE UNCHANGED vars
      BY <1>3 DEF vars, threadVars, DataOK, OneRowPerUuid, OpsTold, StatementsOnOpen,
                  StatementsLive
<1>4. QED
      BY <1>1, <1>2, <1>3 DEF Next

-----------------------------------------------------------------------------
(* Calls that are alone *)

\* While t is in its call and alone, a step of another thread is the start of a call,
\* or the return from one.
LEMMA AloneBusy ==
    ASSUME DataOK, AloneOwnsDb, NEW t \in Threads, Proceed(t),
           NEW s \in Threads \ {t}, alone[s], s \in Inside
    PROVE  Return(t)
<1>1. t \notin Inside
      BY DEF AloneOwnsDb
<1>2. pc[t] = "returned"
      BY <1>1, ProceedFrame
<1>3. QED
      BY <1>2 DEF Proceed, Open, OpenFails, Prepare, PrepareFails, Step, StepFails, Finalize,
                  Changes, Exec, Close, Goto

LEMMA AloneOwnsStep ==
    ASSUME DataOK, AloneOwnsDb, StatementsLive, StatementsOnOpen, [Next]_vars
    PROVE  AloneOwnsDb'
<1>1. ASSUME NEW t \in Threads, Proceed(t)
      PROVE  AloneOwnsDb'
  <2>0. /\ \A s \in Threads \ {t} : pc'[s] = pc[s] /\ sql_stmt'[s] = sql_stmt[s]
        /\ UNCHANGED <<op, uuid, alone, raced>>
        /\ pc[t] # "returned" => t \in Inside
        BY <1>1, ProceedFrame
  <2>1. Inside' \subseteq Inside
        BY <1>1, <2>0 DEF Proceed, Open, OpenFails, Prepare, PrepareFails, Step, StepFails,
              Finalize, Changes, Exec, Close, Return, Goto, Inside, DataOK
  <2>2. SUFFICES ASSUME NEW s \in Threads, alone[s]
                 PROVE  /\ s \in Inside' => Inside' = {s}
                        /\ pc'[s] \in {"prepare", "exec", "changes"} => db' \in open'
                        /\ pc'[s] \in {"step", "finalize"} => sql_stmt'[s] = db'
        BY <2>0 DEF AloneOwnsDb
  <2>3. s \in Inside' => Inside' = {s}
        BY <2>1, <2>2 DEF AloneOwnsDb
  <2>4. CASE s # t /\ s \notin Inside
        BY <2>0, <2>4 DEF Inside
  <2>5. CASE s # t /\ s \in Inside
    <3>1. Return(t)
          BY <1>1, <2>2, <2>5, AloneBusy
    <3>2. QED
          BY <2>0, <2>2, <2>3, <2>5, <3>1 DEF Return, AloneOwnsDb
  <2>6. CASE s = t
    <3>1. CASE PrepareFails(t)
          BY <2>3, <2>6, <3>1 DEF PrepareFails, Goto, DataOK
    <3>2. CASE Open(t) \/ OpenFails(t)
          BY <2>3, <2>6, <3>2 DEF Open, OpenFails, Goto, DataOK
    <3>3. CASE Prepare(t)
          BY <2>3, <2>6, <3>3 DEF Prepare, Goto, DataOK
    <3>4. CASE Step(t) \/ StepFails(t)
      <4>1. UNCHANGED <<db, open, sql_stmt>> /\ pc[t] = "step" /\ pc'[t] = "finalize"
            BY <3>4 DEF Step, StepFails, Goto, DataOK
      <4>2. QED
            BY <2>2, <2>3, <2>6, <4>1 DEF AloneOwnsDb
    <3>5. CASE Finalize(t)
      <4>1. UNCHANGED <<db, open>> /\ pc[t] = "finalize" /\ pc'[t] \in {"close", "changes"}
            BY <3>5 DEF Finalize, Goto, DataOK
      <4>2. sql_stmt[t] = db /\ sql_stmt[t] \in open
            BY <2>2, <2>6, <4>1 DEF AloneOwnsDb, StatementsLive, StatementsOnOpen
      <4>3. QED
            BY <2>3, <2>6, <4>1, <4>2
    <3>6. CASE Changes(t) \/ Exec(t) \/ Close(t) \/ Return(t)
      <4>1. pc'[t] \in {"close", "returned", "idle"}
            BY <3>6 DEF Changes, Exec, Close, Return, Goto, DataOK
      <4>2. QED
            BY <2>3, <2>6, <4>1
    <3>7. QED
          BY <1>1, <3>1, <3>2, <3>3, <3>4, <3>5, <3>6 DEF Proceed
  <2>7. QED
        BY <2>4, <2>5, <2>6
<1>2. ASSUME NEW t \in Threads, NEW o \in Ops, NEW u \in Uuids, Call(t, o, u)
      PROVE  AloneOwnsDb'
  <2>1. /\ pc[t] = "idle" /\ pc'[t] = "open" /\ (\A s \in Threads \ {t} : pc'[s] = pc[s])
        /\ UNCHANGED <<db, open, sql_stmt>>
        BY <1>2 DEF Call, Goto, DataOK
  <2>2. \A s \in Threads : alone'[s] =>
           IF s = t THEN Inside \ {t} = {} ELSE alone[s] /\ s \notin Inside
        BY <1>2 DEF Call, Others
  <2>3. Inside' = Inside \cup {t}
        BY <2>1 DEF Inside
  <2>4. QED
        BY <2>1, <2>2, <2>3 DEF AloneOwnsDb, Inside
<1>3. CASE UNCHANGED vars
      BY <1>3 DEF vars, threadVars, history, AloneOwnsDb, Inside
<1>4. QED
      BY <1>1, <1>2, <1>3 DEF Next

\* What the statement of a call has done, and what the call has read of it.
LEMMA AnswersStep ==
    ASSUME DataOK, FlagsOK, OpsTold, AloneOwnsDb, AloneAnswers, StatementsOnOpen,
           StatementsLive, [Next]_vars
    PROVE  AloneAnswers'
<1>1. ASSUME NEW t \in Threads, Proceed(t)
      PROVE  AloneAnswers'
  <2>0. /\ \A s \in Threads \ {t} : pc'[s] = pc[s] /\ sql_stmt'[s] = sql_stmt[s]
        /\ UNCHANGED <<op, uuid, alone, raced>>
        BY <1>1, ProceedFrame
  <2>1. SUFFICES ASSUME NEW s \in Threads, alone[s]
                 PROVE  /\ pc'[s] \in {"open", "prepare", "step"} => ~ret'[s] /\ ~effect'[s]
                        /\ pc'[s] \in {"prepare", "step"} => changes'[db'] = 0
                        /\ pc'[s] \in {"finalize", "changes"} /\ op[s] # "get_post" =>
                              (effect'[s] <=> changes'[db'] > 0)
                        /\ pc'[s] \in {"close", "returned"} /\ op[s] # "delete_post" =>
                              (ret'[s] <=> effect'[s])
        BY <2>0 DEF AloneAnswers
  <2>2. CASE s # t
    <3>1. pc'[s] = pc[s] /\ ret'[s] = ret[s] /\ effect'[s] = effect[s]
          BY <1>1, <2>0, <2>2, AnswerFrame
    <3>2. CASE s \notin Inside
          BY <2>1, <3>1, <3>2 DEF AloneAnswers, Inside
    <3>3. CASE s \in Inside
      <4>1. Return(t)
            BY <1>1, <2>1, <2>2, <3>3, AloneBusy
      <4>2. UNCHANGED <<db, changes>>
            BY <4>1 DEF Return
      <4>3. QED
            BY <2>1, <3>1, <4>2 DEF AloneAnswers
    <3>4. QED
          BY <3>2, <3>3
  <2>3. CASE s = t
    <3>1. CASE OpenFails(t) \/ PrepareFails(t)
      <4>1. pc[t] \in {"open", "prepare"} /\ pc'[t] = "returned"
            BY <3>1 DEF OpenFails, PrepareFails, Goto, DataOK
      <4>2. UNCHANGED <<ret, effect>>
            BY <3>1 DEF OpenFails, PrepareFails
      <4>3. QED
            BY <2>1, <2>3, <4>1, <4>2 DEF AloneAnswers
    <3>2. CASE Open(t)
      <4>1. pc[t] = "open" /\ pc'[t] \in {"exec", "prepare"}
            BY <3>2 DEF Open, Goto, DataOK
      <4>2. UNCHANGED <<ret, effect>>
            BY <3>2 DEF Open
      <4>3. changes'[db'] = 0
            BY <3>2 DEF Open, DataOK
      <4>4. QED
            BY <2>1, <2>3, <4>1, <4>2, <4>3 DEF AloneAnswers
    <3>3. CASE Prepare(t)
      <4>1. pc[t] = "prepare" /\ pc'[t] = "step"
            BY <3>3 DEF Prepare, Goto, DataOK
      <4>2. UNCHANGED <<ret, effect, changes, db>>
            BY <3>3 DEF Prepare
      <4>3. QED
            BY <2>1, <2>3, <4>1, <4>2 DEF AloneAnswers
    <3>10. CASE StepFails(t)
      <4>1. pc[t] = "step" /\ pc'[t] = "finalize"
            BY <3>10 DEF StepFails, Goto, DataOK
      <4>2. UNCHANGED <<effect, changes, db>>
            BY <3>10 DEF StepFails
      <4>3. ~effect[t] /\ changes[db] = 0
            BY <2>1, <2>3, <4>1 DEF AloneAnswers
      <4>4. QED
            BY <2>3, <4>1, <4>2, <4>3
    <3>4. CASE Step(t)
      <4>1. pc[t] = "step" /\ pc'[t] = "finalize" /\ db' = db
            BY <3>4 DEF Step, Goto, DataOK
      <4>2. sql_stmt[t] = db /\ sql_stmt[t] \in Handles
            BY <2>1, <2>3, <4>1 DEF AloneOwnsDb, StatementsLive, StatementsOnOpen, DataOK
      <4>3. ASSUME NEW n, NEW hit \in BOOLEAN, Affect(t, sql_stmt[t], n, hit)
            PROVE  effect'[t] <=> changes'[db] > 0
        <5>1. effect'[t] = hit
              BY <4>3, Zenon DEF Affect, FlagsOK
        <5>2. changes'[db] = IF hit THEN 1 ELSE 0
              BY <4>2, <4>3 DEF Affect, DataOK
        <5>3. QED
              BY <5>1, <5>2
      <4>4. (rows[uuid[t]] = 0) \in BOOLEAN /\ (rows[uuid[t]] > 0) \in BOOLEAN
            OBVIOUS
      <4>5. \/ \E n : \E hit \in BOOLEAN : Affect(t, sql_stmt[t], n, hit)
            \/ op[t] = "get_post"
            BY <3>4, <4>4, Zenon DEF Step
      <4>6. QED
            BY <2>3, <4>1, <4>3, <4>5
    <3>5. CASE Finalize(t)
      <4>1. /\ pc[t] = "finalize"
            /\ pc'[t] = IF op[t] = "get_post" THEN "close" ELSE "changes"
            /\ UNCHANGED <<db, changes, effect>>
            BY <3>5 DEF Finalize, Goto, DataOK
      <4>2. op[t] = "get_post" => ret'[t] = effect[t]
        <5>1. ret'[t] = (op[t] = "get_post" /\ effect[t])
              BY <3>5, Zenon DEF Finalize, FlagsOK
        <5>2. effect[t] \in BOOLEAN
              BY DEF FlagsOK
        <5>3. QED
              BY <5>1, <5>2, Zenon
      <4>3. QED
            BY <2>1, <2>3, <4>1, <4>2 DEF AloneAnswers
    <3>6. CASE Changes(t)
      <4>1. /\ pc[t] = "changes" /\ pc'[t] = "close"
            /\ UNCHANGED <<db, changes, effect>>
            BY <3>6 DEF Changes, Goto, DataOK
      <4>2. db \in open
            BY <2>1, <2>3, <4>1 DEF AloneOwnsDb
      <4>3. PICK answer \in BOOLEAN : answer = (changes[db] > 0) /\ ret' = [ret EXCEPT ![t] = answer]
            BY <3>6, <4>2, Zenon DEF Changes
      <4>4. ret'[t] = answer
            BY <4>3, Zenon DEF FlagsOK
      <4>5. effect[t] <=> changes[db] > 0
            BY <2>1, <2>3, <4>1 DEF AloneAnswers, OpsTold
      <4>6. QED
            BY <2>3, <4>1, <4>3, <4>4, <4>5
    <3>7. CASE Exec(t)
      <4>1. pc[t] = "exec" /\ pc'[t] = "close"
            BY <3>7 DEF Exec, Goto, DataOK
      <4>2. QED
            BY <2>3, <4>1 DEF OpsTold
    <3>8. CASE Close(t) \/ Return(t)
      <4>1. /\ (pc[t] = "close" /\ pc'[t] = "returned") \/ pc'[t] = "idle"
            /\ pc'[t] = "returned" => UNCHANGED <<ret, effect>>
            BY <3>8 DEF Close, Return, Goto, DataOK
      <4>2. QED
            BY <2>1, <2>3, <4>1 DEF AloneAnswers
    <3>9. QED
          BY <1>1, <3>1, <3>2, <3>3, <3>4, <3>5, <3>6, <3>7, <3>8, <3>10 DEF Proceed
  <2>4. QED
        BY <2>2, <2>3
<1>2. ASSUME NEW t \in Threads, NEW o \in Ops, NEW u \in Uuids, Call(t, o, u)
      PROVE  AloneAnswers'
  <2>1. /\ pc[t] = "idle" /\ pc'[t] = "open"
        /\ \A s \in Threads \ {t} : pc'[s] = pc[s] /\ op'[s] = op[s]
        /\ UNCHANGED <<db, changes>>
        BY <1>2 DEF Call, Goto, DataOK
  <2>2. \A s \in Threads \ {t} : alone'[s] => alone[s]
        BY <1>2 DEF Call
  <2>3. ret'[t] = FALSE /\ effect'[t] = FALSE
        BY <1>2 DEF Call, FlagsOK
  <2>4. \A s \in Threads \ {t} : ret'[s] = ret[s] /\ effect'[s] = effect[s]
        BY <1>2, ExceptOther DEF Call, FlagsOK
  <2>5. QED
        BY <2>1, <2>2, <2>3, <2>4 DEF AloneAnswers
<1>3. CASE UNCHANGED vars
      BY <1>3 DEF vars, threadVars, history, AloneAnswers
<1>4. QED
      BY <1>1, <1>2, <1>3 DEF Next

-----------------------------------------------------------------------------
(* Calls that have never raced *)

\* The connection of the only call there is.
LEMMA ConnectionStep ==
    ASSUME DataOK, FlagsOK, OneConnection, StatementsLive, [Next]_vars
    PROVE  OneConnection'
<1> USE RpStorageAssumption
<1>1. ASSUME NEW t \in Threads, Proceed(t), ~raced
      PROVE  OneConnection'
  <2>0. /\ \A s \in Threads \ {t} : pc'[s] = pc[s] /\ sql_stmt'[s] = sql_stmt[s]
        /\ pc[t] # "returned" => t \in Inside
        /\ pc'[t] # "open"
        /\ ~misused
        BY <1>1, ProceedFrame DEF OneConnection
  <2>1. CASE Return(t)
    <3>1. Inside' = Inside /\ t \notin Inside
          BY <2>0, <2>1 DEF Return, Goto, Inside, DataOK
    <3>2. UNCHANGED <<db, open, misused, leaked>>
          BY <2>1 DEF Return, history
    <3>3. \A s \in Inside : pc'[s] = pc[s]
          BY <2>0, <3>1 DEF Inside
    <3>4. QED
          BY <1>1, <2>0, <3>1, <3>2, <3>3 DEF OneConnection
  <2>2. CASE ~Return(t)
    <3>1. t \in Inside
          BY <1>1, <2>0, <2>2 DEF Proceed, Open, OpenFails, Prepare, PrepareFails, Step,
                StepFails, Finalize, Changes, Exec, Close, Goto
    <3>2. Inside = {t}
          BY <1>1, <3>1 DEF OneConnection
    <3>3. /\ pc[t] # "open" => db \in open
          /\ leaked \/ open = IF pc[t] = "open" THEN {} ELSE {db}
          BY <1>1, <3>1 DEF OneConnection
    <3>4. SUFFICES /\ ~misused'
                   /\ pc'[t] # "idle"
                   /\ pc'[t] # "returned" => db' \in open'
                   /\ leaked' \/ open' = IF pc'[t] = "returned" THEN {} ELSE {db'}
      <4>1. \A s \in Threads : s \in Inside' => s = t
            BY <2>0, <3>2 DEF Inside
      <4>2. pc'[t] \notin {"idle", "returned"} <=> t \in Inside'
            BY DEF Inside
      <4>3. QED
            BY <2>0, <3>4, <4>1, <4>2 DEF OneConnection, Inside
    <3>5. ~PrepareFails(t) => leaked' = leaked
          BY <1>1, <2>2 DEF Proceed, Open, OpenFails, Prepare, Step, StepFails, Finalize, Changes,
                Exec, Close, history
    <3>6. CASE Open(t) \/ OpenFails(t)
          BY <2>0, <3>3, <3>6 DEF Open, OpenFails, Goto, DataOK, history
    <3>7. CASE Prepare(t)
          BY <2>0, <3>3, <3>7 DEF Prepare, Goto, DataOK, history
    <3>8. CASE PrepareFails(t)
      <4>1. pc[t] = "prepare" /\ pc'[t] = "returned" /\ leaked'
            BY <3>8 DEF PrepareFails, Goto, DataOK
      <4>2. ~misused'
            BY <2>0, <3>3, <3>8, <4>1 DEF PrepareFails, Use
      <4>3. QED
            BY <4>1, <4>2
    <3>9. CASE Step(t) \/ StepFails(t)
          BY <2>0, <3>3, <3>9 DEF Step, StepFails, Goto, DataOK, history
    <3>10. CASE Finalize(t)
      <4>1. UNCHANGED <<db, open, misused, leaked>>
            BY <3>10 DEF Finalize, history
      <4>2. pc[t] = "finalize" /\ pc'[t] \in {"close", "changes"}
            BY <3>10 DEF Finalize, Goto, DataOK
      <4>3. QED
            BY <2>0, <3>3, <4>1, <4>2
    <3>11. CASE Changes(t) \/ Exec(t)
      <4>1. UNCHANGED <<db, open, leaked>> /\ Use
            BY <3>11 DEF Changes, Exec
      <4>2. pc[t] \in {"changes", "exec"} /\ pc'[t] = "close"
            BY <3>11 DEF Changes, Exec, Goto, DataOK
      <4>3. ~misused'
            BY <2>0, <3>3, <4>1, <4>2 DEF Use
      <4>4. QED
            BY <3>3, <4>1, <4>2, <4>3
    <3>12. CASE Close(t)
      <4>1. pc[t] = "close" /\ pc'[t] = "returned" /\ leaked' = leaked
            BY <3>12 DEF Close, Goto, DataOK
      <4>2. db \in open /\ db # NoHandle
            BY <3>3, <4>1 DEF DataOK
      <4>3. \A s \in Threads : sql_stmt[s] = NoHandle
            BY <3>2, <4>1 DEF StatementsLive, Inside
      <4>4. open' = open \ {db}
            BY <3>12, <4>2, <4>3 DEF Close, Freed
      <4>5. ~misused'
            BY <2>0, <3>12, <4>2 DEF Close, Use
      <4>6. QED
            BY <3>3, <4>1, <4>4, <4>5
    <3>13. QED
          BY <1>1, <2>2, <3>6, <3>7, <3>8, <3>9, <3>10, <3>11, <3>12 DEF Proceed
  <2>3. QED
        BY <2>1, <2>2
<1>2. ASSUME NEW t \in Threads, NEW o \in Ops, NEW u \in Uuids, Call(t, o, u), ~raced'
      PROVE  OneConnection'
  <2>1. /\ pc[t] = "idle" /\ pc'[t] = "open" /\ (\A s \in Threads \ {t} : pc'[s] = pc[s])
        /\ UNCHANGED <<db, open, misused, leaked>>
        BY <1>2 DEF Call, Goto, DataOK
  <2>2. ~raced /\ Inside \ {t} = {}
        BY <1>2 DEF Call, Others
  <2>3. Inside = {} /\ Inside' = {t}
        BY <2>1, <2>2 DEF Inside
  <2>4. QED
        BY <2>1, <2>2, <2>3 DEF OneConnection
<1>3. CASE UNCHANGED vars
      BY <1>3 DEF vars, threadVars, history, OneConnection, Inside
<1>4. CASE raced'
      BY <1>4 DEF OneConnection
<1>5. \A t \in Threads : Proceed(t) => raced' = raced
      BY ProceedFrame
<1>6. QED
      BY <1>1, <1>2, <1>3, <1>4, <1>5 DEF Next

-----------------------------------------------------------------------------

LEMMA InitInv == Init => IndInv
<1> SUFFICES ASSUME Init PROVE IndInv
    OBVIOUS
<1>1. DataOK
      BY DEF Init, DataOK, PC, Ops, Connections
<1>2. FlagsOK
      BY DEF Init, FlagsOK
<1>3. OneRowPerUuid /\ StatementsOnOpen /\ OpsTold /\ StatementsLive
      BY DEF Init, OneRowPerUuid, StatementsOnOpen, OpsTold, StatementsLive
<1>4. Inside = {}
      BY DEF Init, Inside
<1>5. AloneOwnsDb /\ AloneAnswers /\ OneConnection
      BY <1>4 DEF Init, AloneOwnsDb, AloneAnswers, OneConnection
<1>6. QED
      BY <1>1, <1>2, <1>3, <1>5, TypeParts DEF IndInv

LEMMA Inductive == Spec => []IndInv
<1>1. ASSUME IndInv, [Next]_vars
      PROVE  IndInv'
  <2>1. DataOK /\ FlagsOK
        BY <1>1, TypeParts DEF IndInv
  <2>2. FlagsOK'
        BY <1>1, <2>1, FlagsStep
  <2>3. DataOK' /\ OneRowPerUuid' /\ OpsTold' /\ StatementsOnOpen' /\ StatementsLive'
        BY <1>1, <2>1, DataStep DEF IndInv
  <2>4. AloneOwnsDb' /\ AloneAnswers' /\ OneConnection'
        BY <1>1, <2>1, AloneOwnsStep, AnswersStep, ConnectionStep DEF IndInv
  <2>5. TypeOK'
        BY <2>2, <2>3 DEF TypeOK, DataOK, FlagsOK
  <2>6. QED
        BY <2>3, <2>4, <2>5 DEF IndInv
<1>2. QED
      BY InitInv, <1>1, PTL DEF Spec

-----------------------------------------------------------------------------

\* Every variable keeps its type, for any number of threads, posts and connections.
THEOREM TypeCorrect == Spec => []TypeOK
<1>1. IndInv => TypeOK
      BY DEF IndInv
<1>2. QED
      BY Inductive, <1>1, PTL

\* add_post's INSERT ... WHERE NOT EXISTS keeps a uuid from being stored twice, however
\* many threads share the object.
THEOREM StoredOnce == Spec => []OneRowPerUuid
<1>1. IndInv => OneRowPerUuid
      BY DEF IndInv
<1>2. QED
      BY Inductive, <1>1, PTL

\* No race closes a connection under a running statement.
THEOREM StatementsSafe == Spec => []StatementsOnOpen
<1>1. IndInv => StatementsOnOpen
      BY DEF IndInv
<1>2. QED
      BY Inductive, <1>1, PTL

\* A call nobody overlaps answers what its statement did, whatever races came before.
THEOREM AloneIsRight == Spec => []AnswersIfAlone
<1>1. IndInv => AnswersIfAlone
  <2> SUFFICES ASSUME IndInv, NEW t \in Threads, pc[t] = "returned", alone[t],
                      op[t] # "delete_post"
               PROVE  ret[t] = effect[t]
      BY DEF AnswersIfAlone
  <2>1. ret[t] <=> effect[t]
        BY DEF IndInv, AloneAnswers
  <2>2. ret[t] \in BOOLEAN /\ effect[t] \in BOOLEAN
        BY DEF IndInv, TypeOK
  <2>3. QED
        BY <2>1, <2>2
<1>2. QED
      BY Inductive, <1>1, PTL

\* Until two calls overlap, no closed connection is used and none is left open.
THEOREM CleanAlone == Spec => []CleanUnlessRaced
<1>1. IndInv => CleanUnlessRaced
  <2> SUFFICES ASSUME IndInv, ~raced
               PROVE  ~misused /\ (~leaked /\ open # {} => \E t \in Inside : open = {db})
      BY DEF CleanUnlessRaced
  <2>1. QED
        BY DEF IndInv, OneConnection
<1>2. QED
      BY Inductive, <1>1, PTL

-----------------------------------------------------------------------------
(* The start: the inductive invariant *)


\* What a start without failures has achieved by the time it is at each statement.
CleanProgress ==
    clean =>
        /\ place \in {"update", "pragma", "drop", "check"} => table # "none"
        /\ place = "recreate" => table = "none"
        /\ place = "setversion" => table = "new"
        /\ place \in {"check", "running"} =>
              user_version = CURRENT_VERSION_NUMBER /\ (table = "new" \/ undropped)

\* An old table that outlives the DROP is one whose DROP has failed.
OldIsUndropped ==
    table = "old" =>
        \/ undropped
        \/ place \notin {"recreate", "setversion"} /\ user_version # CURRENT_VERSION_NUMBER

\* Nothing is dropped under the current version unless it could not be read, and safe
\* posts are under the current version.
DropsOutdated ==
    /\ place = "pragma" => version = -1
    /\ place = "drop" /\ ~misread => user_version # CURRENT_VERSION_NUMBER
    /\ posts = "safe" => user_version = CURRENT_VERSION_NUMBER

SetupInv == SetupTypeOK /\ CleanProgress /\ OldIsUndropped /\ DropsOutdated

-----------------------------------------------------------------------------

LEMMA SetupInitInv == SetupInit => SetupInv
<1> SUFFICES ASSUME SetupInit PROVE SetupInv
    OBVIOUS
<1>1. SetupDataOK
      BY VersionAssumption DEF SetupInit, SetupDataOK, Steps
<1>2. HistoryOK
      BY DEF SetupInit, HistoryOK
<1>3. CleanProgress /\ OldIsUndropped /\ DropsOutdated
      BY VersionAssumption DEF SetupInit, CleanProgress, OldIsUndropped, DropsOutdated
<1>4. QED
      BY <1>1, <1>2, <1>3 DEF SetupInv, SetupTypeOK

LEMMA SetupHistoryStep == HistoryOK /\ [SetupNext]_setupVars => HistoryOK'
BY DEF HistoryOK, SetupNext, Start, Create, OpenUpdate, Pragma, Recreate, SetVersion, Check, Drop,
       StartFails, CreateFails, OpenUpdateFails, PragmaFails, DropFails, RecreateFails,
       SetVersionFails, CheckFails, Receive, End, Fails, CreatePosts, disk, setupHistory, setupVars

LEMMA SetupDataStep == SetupDataOK /\ [SetupNext]_setupVars => SetupDataOK'
<1> SUFFICES ASSUME SetupDataOK, [SetupNext]_setupVars PROVE SetupDataOK'
    OBVIOUS
<1> USE VersionAssumption DEF SetupDataOK, Steps, disk, setupHistory, At, Fails
<1>1. CASE Start \/ StartFails
      BY <1>1 DEF Start, StartFails
<1>2. CASE Create \/ CreateFails
      BY <1>2 DEF Create, CreateFails, CreatePosts
<1>3. CASE OpenUpdate \/ OpenUpdateFails
      BY <1>3 DEF OpenUpdate, OpenUpdateFails
<1>4. CASE Pragma \/ PragmaFails
      BY <1>4 DEF Pragma, PragmaFails
<1>5. CASE Drop \/ DropFails
      BY <1>5 DEF Drop, DropFails
<1>6. CASE Recreate \/ RecreateFails
      BY <1>6 DEF Recreate, RecreateFails, CreatePosts
<1>7. CASE SetVersion \/ SetVersionFails
      BY <1>7 DEF SetVersion, SetVersionFails
<1>8. CASE Check \/ CheckFails
      BY <1>8 DEF Check, CheckFails
<1>9. CASE Receive \/ End
      BY <1>9 DEF Receive, End
<1>10. CASE UNCHANGED setupVars
      BY <1>10 DEF setupVars
<1>11. QED
      BY <1>1, <1>2, <1>3, <1>4, <1>5, <1>6, <1>7, <1>8, <1>9, <1>10 DEF SetupNext

\* The three parts depend on each other only through the state before the step.
LEMMA ProgressStep ==
    SetupInv /\ [SetupNext]_setupVars => CleanProgress' /\ OldIsUndropped' /\ DropsOutdated'
<1> SUFFICES ASSUME SetupInv, [SetupNext]_setupVars
             PROVE  CleanProgress' /\ OldIsUndropped' /\ DropsOutdated'
    OBVIOUS
<1> USE VersionAssumption
    DEF SetupInv, SetupTypeOK, CleanProgress, OldIsUndropped, DropsOutdated, disk, setupHistory, At, Fails
<1>1. CASE Start \/ StartFails
      BY <1>1 DEF Start, StartFails
<1>2. CASE Create \/ CreateFails
      BY <1>2 DEF Create, CreateFails, CreatePosts
<1>3. CASE OpenUpdate \/ OpenUpdateFails
      BY <1>3 DEF OpenUpdate, OpenUpdateFails
<1>4. CASE Pragma \/ PragmaFails
      BY <1>4 DEF SetupDataOK, Pragma, PragmaFails, Outdated
<1>5. CASE Drop \/ DropFails
      BY <1>5 DEF Drop, DropFails
<1>6. CASE Recreate \/ RecreateFails
      BY <1>6 DEF Recreate, RecreateFails, CreatePosts
<1>7. CASE SetVersion \/ SetVersionFails
      BY <1>7 DEF SetVersion, SetVersionFails
<1>8. CASE Check \/ CheckFails
      BY <1>8 DEF Check, CheckFails
<1>9. CASE Receive \/ End
      BY <1>9 DEF Receive, End
<1>10. CASE UNCHANGED setupVars
      BY <1>10 DEF setupVars
<1>11. QED
      BY <1>1, <1>2, <1>3, <1>4, <1>5, <1>6, <1>7, <1>8, <1>9, <1>10 DEF SetupNext

LEMMA SetupInductive == SetupSpec => []SetupInv
<1>1. SetupInv /\ [SetupNext]_setupVars => SetupInv'
      BY SetupDataStep, SetupHistoryStep, ProgressStep DEF SetupInv, SetupTypeOK
<1>2. QED
      BY SetupInitInv, <1>1, PTL DEF SetupSpec

-----------------------------------------------------------------------------

\* Every variable of the start keeps its type; posts are only in a table of the
\* program's own format.
THEOREM SetupTypeCorrect == SetupSpec => []SetupTypeOK
<1>1. SetupInv => SetupTypeOK
      BY DEF SetupInv
<1>2. QED
      BY SetupInductive, <1>1, PTL

\* setup_tables and update_table leave no table of an older format under the current
\* version, wherever the process dies - except after a DROP that failed.
THEOREM VersionTrue == SetupSpec => []VersionTellsFormat
<1>1. SetupInv => VersionTellsFormat
      BY DEF SetupInv, OldIsUndropped, VersionTellsFormat
<1>2. QED
      BY SetupInductive, <1>1, PTL

\* A start of rpl_storage without failures ends with a current table, whatever the
\* starts before it have left.
THEOREM Repaired == SetupSpec => []CleanStartRepairs
<1>1. SetupInv => CleanStartRepairs
      BY DEF SetupInv, CleanProgress, CleanStartRepairs
<1>2. QED
      BY SetupInductive, <1>1, PTL

\* Posts that were stored after a start without failures are dropped by a later start
\* only if it could not read the version.
THEOREM SafePostsKept == SetupSpec => SafePostsSurvive
<1>1. SetupInv /\ [SetupNext]_setupVars => [posts = "safe" /\ posts' = "none" => misread]_setupVars
  <2> SUFFICES ASSUME SetupInv, SetupNext, posts = "safe", posts' = "none"
               PROVE  misread
      BY DEF setupVars
  <2>1. CASE Drop
        BY <2>1 DEF Drop, At, SetupInv, DropsOutdated
  <2>2. CASE Receive
        BY <2>2 DEF Receive
  <2>3. CASE ~Drop /\ ~Receive
        BY <2>3 DEF SetupNext, Start, Create, OpenUpdate, Pragma, Recreate, SetVersion, Check,
              StartFails, CreateFails, OpenUpdateFails, PragmaFails, DropFails,
              RecreateFails, SetVersionFails, CheckFails, End, Fails, CreatePosts, disk
  <2>4. QED
        BY <2>1, <2>2, <2>3
<1>2. QED
      BY SetupInductive, <1>1, PTL DEF SetupSpec, SafePostsSurvive
=============================================================================
