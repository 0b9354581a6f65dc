-------------------------- MODULE Generator_proofs --------------------------
(***************************************************************************)
(* The safety properties of the glue generator: of its main program        *)
(* (Codegen), for any number of generators, inputs, options and outputs,   *)
(* of its parser (IdlParser), for any files, and of the walk that makes    *)
(* the glue (Translate), for any files, passes and handlers.               *)
(***************************************************************************)
EXTENDS Codegen, Translate, FiniteSetTheorems, WellFoundedInduction, TLAPS

(* The main program: the inductive invariant *)

Translated == {"parsed", "differs", "filling", "unlocked"}
Writing    == {"parsed", "differs", "filling"}
Opened     == {"opened", "locked"} \cup Translated

\* Without a race whoever runs has hashed and read the inputs as they are, all run with
\* the same options, and without the lock only one runs.
Agreed ==
    ~raced => \A g \in Generators : Running(g) =>
        /\ hash_value[g] = inputs
        /\ pc[g] \in Translated => translated[g] = inputs
        /\ \A h \in Generators : Running(h) =>
               extra[h] = extra[g] /\ (~exclusive_lock => h = g)

OneHolder ==
    exclusive_lock =>
        \A g, h \in Generators : pc[g] \in Holding /\ pc[h] \in Holding => g = h

Named(g) == pc[g] \in {"differs", "filling"}

NamesOutput == \A g \in Generators : Named(g) => filename[g] \in Outputs

\* The output a generator is at still is as it found or made it.
Pending ==
    ~raced => \A g \in Generators :
        /\ pc[g] = "differs" => glue[filename[g]] # Content(g)
        /\ pc[g] = "filling" => glue[filename[g]] = Part

\* What a generator has gone over is right.
WrittenSoFar ==
    ~raced => \A g \in Generators : pc[g] \in Writing =>
        \A o \in Outputs \ unwritten[g] :
            glue[o] = Content(g) \/ (Named(g) /\ o = filename[g])

\* It stays so until the value is saved, although others may hold the lock by then.
UnlockedWhole ==
    ~raced => \A g \in Generators : pc[g] = "unlocked" =>
        \A o \in Outputs : glue[o] = Content(g)

\* A value saved since a generator has emptied the file is that of its own glue: it will
\* find nothing to write.
SavedSinceOpened ==
    ~raced /\ hash_file \in Inputs => \A g \in Generators : pc[g] \in Opened =>
        \A o \in Outputs : glue[o] = <<inputs, extra[g]>>

\* What a running generator has set.
Filled ==
    \A g \in Generators :
        /\ Running(g) => hash_value[g] \in Inputs /\ extra[g] \in Extras
        /\ pc[g] \in Translated => translated[g] \in Inputs

IndInv ==
    /\ TypeOK /\ Filled
    /\ Agreed /\ OneHolder /\ NamesOutput
    /\ Pending /\ WrittenSoFar /\ UnlockedWhole /\ SavedSinceOpened
    /\ HashTellsGlue

-----------------------------------------------------------------------------
(* The main program: types *)

LEMMA TypeStep == TypeOK /\ Filled /\ [Next]_vars => TypeOK' /\ Filled'
<1> SUFFICES ASSUME TypeOK, Filled, [Next]_vars PROVE TypeOK' /\ Filled'
    OBVIOUS
<1> USE DEF TypeOK, Filled, Running, Translated, Move, Exit, Places, build, files, work, Content
<1>1. ASSUME NEW g \in Generators, Start(g) PROVE TypeOK' /\ Filled'
      BY <1>1, ConstantAssumption DEF Start
<1>2. ASSUME NEW g \in Generators, SkipTheCheck(g) \/ OpenForReading(g) PROVE TypeOK' /\ Filled'
      BY <1>2 DEF SkipTheCheck, OpenForReading
<1>3. ASSUME NEW g \in Generators, ReadHash(g) PROVE TypeOK' /\ Filled'
      BY <1>3 DEF ReadHash
<1>4. ASSUME NEW g \in Generators, OpenForWriting(g) \/ LockExclusive(g) PROVE TypeOK' /\ Filled'
      BY <1>4 DEF OpenForWriting, LockExclusive
<1>5. ASSUME NEW g \in Generators, Parse(g) PROVE TypeOK' /\ Filled'
      BY <1>5 DEF Parse
<1>6. ASSUME NEW g \in Generators, ParseFails(g) \/ Crash(g) PROVE TypeOK' /\ Filled'
      BY <1>6 DEF ParseFails, Crash
<1>7. ASSUME NEW g \in Generators, Compare(g) PROVE TypeOK' /\ Filled'
      BY <1>7 DEF Compare
<1>8. ASSUME NEW g \in Generators, OpenOutput(g) PROVE TypeOK' /\ Filled'
      BY <1>8 DEF OpenOutput
<1>9. ASSUME NEW g \in Generators, FillOutput(g) PROVE TypeOK' /\ Filled'
  <2>1. Content(g) \in Inputs \X Extras
        BY <1>9 DEF FillOutput
  <2>2. PICK content \in {Content(g), Part} : glue' = [glue EXCEPT ![filename[g]] = content]
        BY <1>9 DEF FillOutput
  <2>3. glue' \in [Outputs -> (Inputs \X Extras) \cup {Absent, Part}]
    <3> HIDE DEF Content
    <3> QED
        BY <2>1, <2>2
  <2>4. QED
        BY <1>9, <2>3 DEF FillOutput
<1>10. ASSUME NEW g \in Generators, Unlock(g) \/ Close(g) PROVE TypeOK' /\ Filled'
      BY <1>10 DEF Unlock, Close
<1>11. CASE Edit
      BY <1>11 DEF Edit, process
<1>12. CASE UNCHANGED vars
      BY <1>12 DEF vars, process
<1>13. QED
      BY <1>1, <1>2, <1>3, <1>4, <1>5, <1>6, <1>7, <1>8, <1>9, <1>10, <1>11, <1>12
         DEF Next, Step

-----------------------------------------------------------------------------
(* Who runs, and with what *)

LEMMA RacedStays == [Next]_vars /\ ~raced' => ~raced
BY DEF Next, Step, Start, SkipTheCheck, OpenForReading, ReadHash, OpenForWriting,
       LockExclusive, Parse, ParseFails, Compare, OpenOutput, FillOutput, Unlock, Close, Crash,
       Edit, vars, build

LEMMA AgreedStep == TypeOK /\ Agreed /\ [Next]_vars => Agreed'
<1> SUFFICES ASSUME TypeOK, Agreed, [Next]_vars, ~raced' PROVE Agreed'
    BY DEF Agreed
<1>1. ~raced
      BY RacedStays
<1> USE <1>1 DEF TypeOK, Agreed, Running, Translated, Move, Exit, Places, build, files, work
<1>2. ASSUME NEW g \in Generators, Start(g) PROVE Agreed'
  <2>1. /\ pc' = [pc EXCEPT ![g] = "hashed"]
        /\ hash_value' = [hash_value EXCEPT ![g] = inputs]
        /\ UNCHANGED <<inputs, exclusive_lock, translated>>
        /\ \A h \in Generators \ {g} : extra'[h] = extra[h]
        BY <1>2 DEF Start
  <2>2. \A h \in Generators \ {g} : Running(h) => exclusive_lock /\ extra'[g] = extra[h]
        BY <1>2 DEF Start
  <2>3. QED
        BY <2>1, <2>2
<1>3. ASSUME NEW g \in Generators, SkipTheCheck(g) \/ OpenForReading(g) PROVE Agreed'
      BY <1>3 DEF SkipTheCheck, OpenForReading
<1>4. ASSUME NEW g \in Generators, ReadHash(g) PROVE Agreed'
      BY <1>4 DEF ReadHash
<1>5. ASSUME NEW g \in Generators, OpenForWriting(g) \/ LockExclusive(g) PROVE Agreed'
      BY <1>5 DEF OpenForWriting, LockExclusive
<1>6. ASSUME NEW g \in Generators, Parse(g) PROVE Agreed'
      BY <1>6 DEF Parse
<1>7. ASSUME NEW g \in Generators, ParseFails(g) \/ Close(g) \/ Crash(g) PROVE Agreed'
      BY <1>7 DEF ParseFails, Close, Crash
<1>8. ASSUME NEW g \in Generators, Compare(g) PROVE Agreed'
      BY <1>8 DEF Compare
<1>9. ASSUME NEW g \in Generators, OpenOutput(g) \/ FillOutput(g) \/ Unlock(g) PROVE Agreed'
      BY <1>9 DEF OpenOutput, FillOutput, Unlock
<1>10. CASE Edit
       BY <1>10 DEF Edit, process
<1>11. CASE UNCHANGED vars
       BY <1>11 DEF vars, process
<1>12. QED
       BY <1>2, <1>3, <1>4, <1>5, <1>6, <1>7, <1>8, <1>9, <1>10, <1>11 DEF Next, Step

LEMMA HoldersStep == TypeOK /\ OneHolder /\ [Next]_vars => OneHolder'
<1> SUFFICES ASSUME TypeOK, OneHolder, [Next]_vars, exclusive_lock' PROVE OneHolder'
    BY DEF OneHolder
<1> USE DEF TypeOK, OneHolder, Holding, Move, Exit, build
<1>1. ASSUME NEW g \in Generators, LockExclusive(g) PROVE OneHolder'
      BY <1>1 DEF LockExclusive, LockFree
<1>2. ASSUME NEW g \in Generators, Start(g) \/ SkipTheCheck(g) \/ OpenForReading(g)
      PROVE  OneHolder'
      BY <1>2 DEF Start, SkipTheCheck, OpenForReading
<1>3. ASSUME NEW g \in Generators, ReadHash(g) \/ OpenForWriting(g) PROVE OneHolder'
      BY <1>3 DEF ReadHash, OpenForWriting
<1>4. ASSUME NEW g \in Generators, Parse(g) \/ Compare(g) \/ OpenOutput(g) \/ FillOutput(g)
      PROVE  OneHolder'
      BY <1>4 DEF Parse, Compare, OpenOutput, FillOutput
<1>5. ASSUME NEW g \in Generators, ParseFails(g) \/ Unlock(g) \/ Close(g) \/ Crash(g)
      PROVE  OneHolder'
      BY <1>5 DEF ParseFails, Unlock, Close, Crash
<1>6. CASE Edit \/ UNCHANGED vars
      BY <1>6 DEF Edit, vars, process
<1>7. QED
      BY <1>1, <1>2, <1>3, <1>4, <1>5, <1>6 DEF Next, Step

\* Whoever writes glue is alone in doing so, unless there was a race.
LEMMA OneWriter ==
    ASSUME TypeOK, Agreed, OneHolder, ~raced, NEW g \in Generators, NEW h \in Generators,
           pc[g] \in Holding, pc[h] \in Holding
    PROVE  g = h
BY DEF TypeOK, Agreed, OneHolder, Running, Holding

LEMMA NamesStep == TypeOK /\ NamesOutput /\ [Next]_vars => NamesOutput'
<1> SUFFICES ASSUME TypeOK, NamesOutput, [Next]_vars PROVE NamesOutput'
    OBVIOUS
<1> USE DEF TypeOK, NamesOutput, Named, Move, Exit, build, files, work
<1>1. ASSUME NEW g \in Generators, Compare(g) PROVE NamesOutput'
      BY <1>1 DEF Compare
<1>2. ASSUME NEW g \in Generators, OpenOutput(g) \/ FillOutput(g) PROVE NamesOutput'
      BY <1>2 DEF OpenOutput, FillOutput
<1>3. ASSUME NEW g \in Generators, Start(g) \/ SkipTheCheck(g) \/ OpenForReading(g)
      PROVE  NamesOutput'
      BY <1>3 DEF Start, SkipTheCheck, OpenForReading
<1>4. ASSUME NEW g \in Generators, ReadHash(g) \/ OpenForWriting(g) \/ LockExclusive(g)
      PROVE  NamesOutput'
      BY <1>4 DEF ReadHash, OpenForWriting, LockExclusive
<1>5. ASSUME NEW g \in Generators, Parse(g) \/ ParseFails(g) PROVE NamesOutput'
      BY <1>5 DEF Parse, ParseFails
<1>6. ASSUME NEW g \in Generators, Unlock(g) \/ Close(g) \/ Crash(g) PROVE NamesOutput'
      BY <1>6 DEF Unlock, Close, Crash
<1>7. CASE Edit \/ UNCHANGED vars
      BY <1>7 DEF Edit, vars, process
<1>8. QED
      BY <1>1, <1>2, <1>3, <1>4, <1>5, <1>6, <1>7 DEF Next, Step

-----------------------------------------------------------------------------
(* What the files hold *)

\* Only a generator that has found an output of its own to be wrong writes one; then no
\* value is saved, and nobody else has an output that must stay.
LEMMA WriterAlone ==
    ASSUME IndInv, ~raced, NEW g \in Generators, Named(g)
    PROVE  /\ hash_file \notin Inputs
           /\ \A h \in Generators \ {g} : pc[h] \notin Translated
<1> USE DEF IndInv, Named
<1>1. /\ filename[g] \in Outputs /\ glue[filename[g]] # Content(g)
      /\ Content(g) = <<inputs, extra[g]>>
  <2>1. filename[g] \in Outputs
        BY DEF NamesOutput
  <2>2. Content(g) = <<inputs, extra[g]>> /\ Content(g) \in Inputs \X Extras
        BY DEF Agreed, Filled, Running, Translated, Content
  <2>3. glue[filename[g]] # Content(g)
        BY <2>2, ConstantAssumption DEF Pending
  <2>4. QED
        BY <2>1, <2>2, <2>3
<1>2. hash_file \notin Inputs
      BY <1>1 DEF SavedSinceOpened, Opened, Translated
<1>3. ASSUME NEW h \in Generators \ {g}, pc[h] \in Translated PROVE FALSE
  <2>1. CASE pc[h] = "unlocked"
    <3>1. Content(h) = Content(g)
          BY <1>1, <2>1 DEF Agreed, Running, Translated, Content
    <3>2. glue[filename[g]] = Content(h)
          BY <1>1, <2>1 DEF UnlockedWhole
    <3>3. QED
          BY <1>1, <3>1, <3>2
  <2>2. CASE pc[h] # "unlocked"
        BY <1>3, <2>2, OneWriter DEF Translated, Holding
  <2>3. QED
        BY <2>1, <2>2
<1>4. QED
      BY <1>2, <1>3

\* Without a race an output is opened and written whole by the same generator.
LEMMA FillsWhole ==
    ASSUME IndInv, ~raced, NEW g \in Generators, FillOutput(g)
    PROVE  glue' = [glue EXCEPT ![filename[g]] = Content(g)]
BY DEF IndInv, Pending, FillOutput, Move

FilesOK == Pending /\ WrittenSoFar /\ UnlockedWhole /\ SavedSinceOpened /\ HashTellsGlue

LEMMA FilesStep == IndInv /\ [Next]_vars => FilesOK'
<1> SUFFICES ASSUME IndInv, [Next]_vars, ~raced' PROVE FilesOK'
    BY DEF FilesOK, Pending, WrittenSoFar, UnlockedWhole, SavedSinceOpened, HashTellsGlue
<1>1. ~raced
      BY RacedStays
<1> USE <1>1 DEF FilesOK, Pending, WrittenSoFar, UnlockedWhole, SavedSinceOpened, HashTellsGlue,
                 TypeOK, Named, Translated, Writing, Opened, Content, Move, build, files, work
<1>2. ASSUME NEW g \in Generators, Start(g) \/ SkipTheCheck(g) \/ OpenForReading(g)
      PROVE  FilesOK'
      BY <1>2 DEF IndInv, Start, SkipTheCheck, OpenForReading
<1>3. ASSUME NEW g \in Generators, ReadHash(g) PROVE FilesOK'
      BY <1>3 DEF IndInv, ReadHash, Exit
<1>4. ASSUME NEW g \in Generators, OpenForWriting(g) PROVE FilesOK'
      BY <1>4, ConstantAssumption DEF IndInv, OpenForWriting
<1>5. ASSUME NEW g \in Generators, LockExclusive(g) PROVE FilesOK'
      BY <1>5 DEF IndInv, LockExclusive
<1>6. ASSUME NEW g \in Generators, Parse(g) PROVE FilesOK'
      BY <1>6 DEF IndInv, Parse
<1>7. ASSUME NEW g \in Generators, ParseFails(g) \/ Crash(g) PROVE FilesOK'
      BY <1>7 DEF IndInv, ParseFails, Crash, Exit
<1>8. ASSUME NEW g \in Generators, Compare(g) PROVE FilesOK'
      BY <1>8 DEF IndInv, Compare
<1>9. ASSUME NEW g \in Generators, OpenOutput(g) PROVE FilesOK'
  <2>1. /\ pc' = [pc EXCEPT ![g] = "filling"]
        /\ glue' = [glue EXCEPT ![filename[g]] = Part]
        /\ UNCHANGED <<hash_file, inputs, extra, translated, unwritten, filename>>
        BY <1>9 DEF OpenOutput
  <2>2. hash_file \notin Inputs /\ \A h \in Generators \ {g} : pc[h] \notin Translated
        BY <1>9, WriterAlone DEF OpenOutput
  <2>3. filename[g] \in Outputs
        BY <1>9 DEF IndInv, NamesOutput, OpenOutput
  <2>4. Pending'
        BY <2>1, <2>2, <2>3 DEF IndInv
  <2>5. WrittenSoFar'
        BY <1>9, <2>1, <2>2, <2>3 DEF IndInv, OpenOutput
  <2>6. UnlockedWhole' /\ SavedSinceOpened' /\ HashTellsGlue'
        BY <2>1, <2>2 DEF IndInv
  <2>7. QED
        BY <2>4, <2>5, <2>6
<1>10. ASSUME NEW g \in Generators, FillOutput(g) PROVE FilesOK'
       BY <1>10, WriterAlone, FillsWhole DEF IndInv, FillOutput
<1>11. ASSUME NEW g \in Generators, Unlock(g) PROVE FilesOK'
       BY <1>11 DEF IndInv, Unlock
<1>12. ASSUME NEW g \in Generators, Close(g) PROVE FilesOK'
       BY <1>12 DEF IndInv, Close, Exit, Agreed, Filled, Running
<1>13. CASE Edit
       BY <1>13 DEF IndInv, Edit, process, Running
<1>14. CASE UNCHANGED vars
       BY <1>14 DEF IndInv, vars, process
<1>15. QED
       BY <1>2, <1>3, <1>4, <1>5, <1>6, <1>7, <1>8, <1>9, <1>10, <1>11, <1>12, <1>13, <1>14
          DEF Next, Step

-----------------------------------------------------------------------------
(* The main program: theorems *)

LEMMA Inductive == Spec => []IndInv
<1>1. Init => IndInv
  <2> SUFFICES ASSUME Init PROVE IndInv
      OBVIOUS
  <2> USE DEF Init
  <2>1. TypeOK
    <3>1. runs \in 0 .. MaxRuns
          BY ConstantAssumption
    <3>2. glue \in [Outputs -> (Inputs \X Extras) \cup {Absent, Part}]
          OBVIOUS
    <3>3. unwritten \in [Generators -> SUBSET Outputs]
          OBVIOUS
    <3>4. QED
          BY <3>1, <3>2, <3>3 DEF TypeOK, Places
  <2>2. Filled /\ Agreed /\ OneHolder /\ NamesOutput
        BY DEF Filled, Agreed, OneHolder, NamesOutput, Running, Named, Holding, Translated
  <2>3. Pending /\ WrittenSoFar /\ UnlockedWhole
        BY DEF Pending, WrittenSoFar, UnlockedWhole, Writing
  <2>4. SavedSinceOpened /\ HashTellsGlue
        BY ConstantAssumption DEF SavedSinceOpened, HashTellsGlue
  <2>5. QED
        BY <2>1, <2>2, <2>3, <2>4 DEF IndInv
<1>2. IndInv /\ [Next]_vars => IndInv'
      BY TypeStep, AgreedStep, HoldersStep, NamesStep, FilesStep DEF IndInv, FilesOK
<1>3. QED
      BY <1>1, <1>2, PTL DEF Spec

\* Every variable of the generators stays what codegen.py makes of it.
THEOREM TypeCorrect == Spec => []TypeOK
BY Inductive, PTL DEF IndInv

\* For any number of generators and outputs: a value in the hash file never makes a
\* generator skip over glue that is missing, half-written or of other inputs.
THEOREM SavedValueIsTrue == Spec => []HashTellsGlue
BY Inductive, PTL DEF IndInv

\* For any number of generators and outputs: one that ends well leaves its own glue,
\* although it has given up the lock before.
THEOREM OwnGlueLeft == Spec => CloseLeavesOwnGlue
<1>1. IndInv => \A g \in Generators : Close(g) /\ ~raced =>
                   \A o \in Outputs : glue[o] = <<hash_value[g], extra[g]>>
      BY DEF IndInv, Close, UnlockedWhole, Agreed, Running, Translated, Content
<1>2. QED
      BY <1>1, Inductive, PTL DEF CloseLeavesOwnGlue

-----------------------------------------------------------------------------
(* The parser: counting in the tokens that stand in a file *)

IsSequence(s) == s \in Seq({s[k] : k \in DOMAIN s})

LEMMA AppendSequence ==
    ASSUME NEW s, IsSequence(s), NEW x
    PROVE  /\ IsSequence(Append(s, x)) /\ Len(s) \in Nat /\ DOMAIN s = 1 .. Len(s)
           /\ Len(Append(s, x)) = Len(s) + 1 /\ DOMAIN Append(s, x) = 1 .. Len(s) + 1
           /\ \A k \in 1 .. Len(s) : Append(s, x)[k] = s[k]
           /\ Append(s, x)[Len(s) + 1] = x
<1> DEFINE S == {s[k] : k \in DOMAIN s} \cup {x}
           t == Append(s, x)
<1>1. s \in Seq(S) /\ x \in S
      BY DEF IsSequence
<1> HIDE DEF S
<1>2. /\ Len(s) \in Nat /\ DOMAIN s = 1 .. Len(s)
      /\ t \in Seq(S) /\ Len(t) = Len(s) + 1 /\ DOMAIN t = 1 .. Len(s) + 1
      /\ \A k \in 1 .. Len(s) : t[k] = s[k]
      /\ t[Len(s) + 1] = x
      BY <1>1
<1> HIDE DEF t
<1>3. t \in Seq({t[k] : k \in DOMAIN t})
      BY <1>2
<1>4. QED
      BY <1>2, <1>3 DEF IsSequence, t

\* How many of the first n places are in a set.
Among(S, n) == Cardinality({k \in 1 .. n : k \in S})

LEMMA AmongNext ==
    ASSUME NEW S, NEW n \in Nat
    PROVE  /\ Among(S, n) \in Nat
           /\ Among(S, n + 1) = Among(S, n) + (IF n + 1 \in S THEN 1 ELSE 0)
<1> DEFINE A == {k \in 1 .. n : k \in S}
           B == {k \in 1 .. n + 1 : k \in S}
<1>1. IsFiniteSet(A) /\ Cardinality(A) \in Nat
  <2>1. IsFiniteSet(1 .. n) /\ A \subseteq 1 .. n
        BY FS_Interval
  <2>2. IsFiniteSet(A)
        BY <2>1, FS_Subset
  <2>3. QED
        BY <2>2, FS_CardinalityType
<1>2. 1 .. n + 1 = 1 .. n \cup {n + 1} /\ n + 1 \notin 1 .. n
      OBVIOUS
<1>3. CASE n + 1 \in S
  <2>1. B = A \cup {n + 1} /\ n + 1 \notin A
        BY <1>2, <1>3
  <2>2. Cardinality(B) = Cardinality(A) + 1
        BY <1>1, <2>1, FS_AddElement
  <2>3. QED
        BY <1>1, <1>3, <2>2 DEF Among
<1>4. CASE n + 1 \notin S
  <2>1. B = A
        BY <1>2, <1>4
  <2>2. QED
        BY <1>1, <1>4, <2>1 DEF Among
<1>5. QED
      BY <1>3, <1>4

LEMMA AmongGrows ==
    ASSUME NEW S, NEW n \in Nat, NEW m \in 0 .. n
    PROVE  Among(S, m) <= Among(S, n)
<1> DEFINE A == {k \in 1 .. m : k \in S}
           B == {k \in 1 .. n : k \in S}
<1>1. A \subseteq B /\ B \subseteq 1 .. n
      OBVIOUS
<1>2. IsFiniteSet(B)
  <2>1. IsFiniteSet(1 .. n)
        BY FS_Interval
  <2>2. QED
        BY <1>1, <2>1, FS_Subset
<1>3. Cardinality(A) <= Cardinality(B)
      BY <1>1, <1>2, FS_Subset
<1>4. QED
      BY <1>3 DEF Among

LEMMA AmongSame ==
    ASSUME NEW S, NEW T, NEW n \in Nat, \A k \in 1 .. n : k \in S <=> k \in T
    PROVE  Among(S, n) = Among(T, n)
<1>1. {k \in 1 .. n : k \in S} = {k \in 1 .. n : k \in T}
      OBVIOUS
<1>2. QED
      BY <1>1 DEF Among

-----------------------------------------------------------------------------
(* The parser: one token more *)

Opening(t) == {k \in DOMAIN t : t[k].lex = "open"}
Closing(t) == {k \in DOMAIN t : t[k].lex = "}"}
Making(t)  == {k \in DOMAIN t : Makes(t[k])}

DepthIn(t, n)  == Among(Opening(t), n - 1) - Among(Closing(t), n - 1)
NumberIn(t, n) == Among(Making(t), n)

\* The blocks that have been begun at some depth.
LatestIn(t, d) == {k \in DOMAIN t : t[k].lex = "open" /\ DepthIn(t, k) = d - 1}

BlockIn(t, n) == {k \in 1 .. n - 1 : t[k].lex = "open" /\ DepthIn(t, k) = DepthIn(t, n) - 1}

ParentIn(t, n) == IF BlockIn(t, n) = {} THEN 0 ELSE NumberIn(t, Max(BlockIn(t, n)))

\* What the parser has made of the tokens t: the definitions ds, the open blocks os.
Structured(t, ds, os) ==
    /\ IsSequence(t) /\ IsSequence(ds) /\ os \in Seq(Nat)
    /\ Len(ds) = NumberIn(t, Len(t))
    /\ \A n \in DOMAIN t : Makes(t[n]) =>
           ds[NumberIn(t, n)] = Put("parent", ParentIn(t, n), t[n].decl)
    /\ Len(os) = DepthIn(t, Len(t) + 1)
    /\ \A n \in 1 .. Len(t) + 1 : DepthIn(t, n) >= 0
    /\ \A d \in 1 .. Len(os) : LatestIn(t, d) # {} /\ os[d] = NumberIn(t, Max(LatestIn(t, d)))

LEMMA OneTokenMore ==
    ASSUME NEW t, IsSequence(t), NEW x
    PROVE  LET u == Append(t, x)
               n == Len(t)
           IN  /\ \A k \in 1 .. n + 1 : DepthIn(u, k) = DepthIn(t, k) /\ DepthIn(t, k) \in Int
               /\ DepthIn(u, n + 2) = DepthIn(t, n + 1) + (IF x.lex = "open" THEN 1
                                                            ELSE IF x.lex = "}" THEN -1 ELSE 0)
               /\ \A k \in 0 .. n : NumberIn(u, k) = NumberIn(t, k) /\ NumberIn(t, k) \in Nat
               /\ NumberIn(u, n + 1) = NumberIn(t, n) + (IF Makes(x) THEN 1 ELSE 0)
<1> DEFINE u == Append(t, x)
           n == Len(t)
<1>1. /\ n \in Nat /\ DOMAIN t = 1 .. n /\ DOMAIN u = 1 .. n + 1
      /\ \A k \in 1 .. n : u[k] = t[k]
      /\ u[n + 1] = x
      BY AppendSequence
<1> HIDE DEF u, n
<1>2. /\ \A k \in 1 .. n : k \in 1 .. n + 1
      /\ n + 1 \in 1 .. n + 1
      BY <1>1
<1>a. /\ \A k \in 1 .. n : k \in Opening(u) <=> k \in Opening(t)
      /\ n + 1 \in Opening(u) <=> x.lex = "open"
      BY <1>1, <1>2 DEF Opening
<1>b. /\ \A k \in 1 .. n : k \in Closing(u) <=> k \in Closing(t)
      /\ n + 1 \in Closing(u) <=> x.lex = "}"
      BY <1>1, <1>2 DEF Closing
<1>c. /\ \A k \in 1 .. n : k \in Making(u) <=> k \in Making(t)
      /\ n + 1 \in Making(u) <=> Makes(x)
      BY <1>1, <1>2 DEF Making
<1>3. ASSUME NEW k \in 0 .. n
      PROVE  /\ Among(Opening(u), k) = Among(Opening(t), k) /\ Among(Opening(t), k) \in Nat
             /\ Among(Closing(u), k) = Among(Closing(t), k) /\ Among(Closing(t), k) \in Nat
             /\ Among(Making(u), k) = Among(Making(t), k) /\ Among(Making(t), k) \in Nat
  <2>1. k \in Nat /\ \A j \in 1 .. k : j \in 1 .. n
        BY <1>1
  <2>2. Among(Opening(u), k) = Among(Opening(t), k)
        BY <1>a, <2>1, AmongSame
  <2>3. Among(Closing(u), k) = Among(Closing(t), k)
        BY <1>b, <2>1, AmongSame
  <2>4. Among(Making(u), k) = Among(Making(t), k)
        BY <1>c, <2>1, AmongSame
  <2>5. QED
        BY <2>1, <2>2, <2>3, <2>4, AmongNext
<1>4. \A k \in 1 .. n + 1 : DepthIn(u, k) = DepthIn(t, k) /\ DepthIn(t, k) \in Int
  <2> SUFFICES ASSUME NEW k \in 1 .. n + 1
               PROVE  DepthIn(u, k) = DepthIn(t, k) /\ DepthIn(t, k) \in Int
      OBVIOUS
  <2>1. k - 1 \in 0 .. n
        BY <1>1
  <2>2. QED
        BY <1>3, <2>1 DEF DepthIn
<1>5. \A k \in 0 .. n : NumberIn(u, k) = NumberIn(t, k) /\ NumberIn(t, k) \in Nat
      BY <1>3 DEF NumberIn
<1>6. NumberIn(u, n + 1) = NumberIn(t, n) + (IF Makes(x) THEN 1 ELSE 0)
  <2>1. Among(Making(u), n + 1) = Among(Making(u), n) + (IF n + 1 \in Making(u) THEN 1 ELSE 0)
        BY <1>1, AmongNext
  <2>2. Among(Making(u), n) = Among(Making(t), n)
        BY <1>1, <1>3
  <2>3. QED
        BY <1>c, <2>1, <2>2 DEF NumberIn
<1>7. DepthIn(u, n + 2) = DepthIn(t, n + 1) + (IF x.lex = "open" THEN 1
                                                ELSE IF x.lex = "}" THEN -1 ELSE 0)
  <2> DEFINE ou == Among(Opening(u), n + 1)
             cu == Among(Closing(u), n + 1)
             ot == Among(Opening(t), n)
             ct == Among(Closing(t), n)
  <2>1. ou = ot + (IF x.lex = "open" THEN 1 ELSE 0)
    <3>1. ou = Among(Opening(u), n) + (IF n + 1 \in Opening(u) THEN 1 ELSE 0)
          BY <1>1, AmongNext
    <3>2. Among(Opening(u), n) = ot
          BY <1>1, <1>3
    <3>3. QED
          BY <1>a, <3>1, <3>2
  <2>2. cu = ct + (IF x.lex = "}" THEN 1 ELSE 0)
    <3>1. cu = Among(Closing(u), n) + (IF n + 1 \in Closing(u) THEN 1 ELSE 0)
          BY <1>1, AmongNext
    <3>2. Among(Closing(u), n) = ct
          BY <1>1, <1>3
    <3>3. QED
          BY <1>b, <3>1, <3>2
  <2>3. n + 2 - 1 = n + 1 /\ n + 1 - 1 = n
        BY <1>1
  <2>4. DepthIn(u, n + 2) = ou - cu /\ DepthIn(t, n + 1) = ot - ct
    <3> DEFINE p == n + 2
               q == n + 1
    <3>1. p - 1 = n + 1 /\ q - 1 = n
          BY <1>1
    <3> HIDE DEF p, q
    <3>2. DepthIn(u, p) = Among(Opening(u), p - 1) - Among(Closing(u), p - 1)
          BY DEF DepthIn
    <3>3. DepthIn(t, q) = Among(Opening(t), q - 1) - Among(Closing(t), q - 1)
          BY DEF DepthIn
    <3>4. DepthIn(u, p) = ou - cu /\ DepthIn(t, q) = ot - ct
          BY <3>1, <3>2, <3>3
    <3>5. QED
          BY <3>4 DEF p, q
  <2>5. ot \in Nat /\ ct \in Nat
        BY <1>1, <1>3
  <2> HIDE DEF ou, cu, ot, ct
  <2>6. CASE x.lex = "open"
    <3>1. ou = ot + 1 /\ cu = ct
          BY <2>1, <2>2, <2>5, <2>6
    <3>2. ou - cu = ot - ct + 1
          BY <2>5, <3>1
    <3>3. QED
          BY <2>4, <2>6, <3>2
  <2>7. CASE x.lex = "}"
    <3>1. ou = ot /\ cu = ct + 1
      <4>1. x.lex # "open"
            BY <2>7
      <4>2. ou = ot + 0 /\ cu = ct + 1
            BY <2>1, <2>2, <2>7, <4>1
      <4>3. QED
            BY <2>5, <4>2
    <3>2. ou - cu = ot - ct + -1
          BY <2>5, <3>1
    <3>3. QED
          BY <2>4, <2>7, <3>2
  <2>8. CASE x.lex # "open" /\ x.lex # "}"
    <3>1. ou = ot /\ cu = ct
      <4>1. ou = ot + 0 /\ cu = ct + 0
            BY <2>1, <2>2, <2>8
      <4>2. QED
            BY <2>5, <4>1
    <3>2. ou - cu = ot - ct + 0
          BY <2>5, <3>1
    <3>3. QED
          BY <2>4, <2>8, <3>2
  <2>9. QED
        BY <2>6, <2>7, <2>8
<1>8. QED
      BY <1>4, <1>5, <1>6, <1>7 DEF u, n

LEMMA NumberPlace ==
    ASSUME NEW t, IsSequence(t), NEW n \in DOMAIN t
    PROVE  /\ NumberIn(t, n) \in Nat /\ NumberIn(t, n) <= NumberIn(t, Len(t))
           /\ Makes(t[n]) => NumberIn(t, n) > 0
<1>1. Len(t) \in Nat /\ n \in 1 .. Len(t)
      BY DEF IsSequence
<1>2. n \in 0 .. Len(t) /\ n - 1 \in Nat /\ n - 1 + 1 = n /\ n \in Nat
      BY <1>1
<1>3. NumberIn(t, n) \in Nat /\ NumberIn(t, n) <= NumberIn(t, Len(t))
      BY <1>1, <1>2, AmongNext, AmongGrows DEF NumberIn
<1>4. Makes(t[n]) => NumberIn(t, n) > 0
  <2>1. Among(Making(t), n - 1) \in Nat
        BY <1>2, AmongNext
  <2>2. Among(Making(t), n - 1 + 1) = Among(Making(t), n - 1) + (IF n - 1 + 1 \in Making(t) THEN 1 ELSE 0)
        BY <1>2, AmongNext
  <2>3. Makes(t[n]) => n \in Making(t)
        BY DEF Making
  <2>4. QED
        BY <1>2, <2>1, <2>2, <2>3 DEF NumberIn
<1>5. QED
      BY <1>3, <1>4

LEMMA GreatestOf ==
    ASSUME NEW S \in SUBSET Nat, NEW n \in S, \A k \in S : n >= k
    PROVE  Max(S) = n
<1>1. \A k \in S : (\A j \in S : k >= j) => k = n
      OBVIOUS
<1>2. QED
      BY <1>1 DEF Max
LEMMA LeastNumber ==
  ASSUME NEW S \in SUBSET Nat, S # {}
  PROVE  \E n \in S : \A m \in S : n <= m
<1> DEFINE R == StrictSubsetOrdering(Nat)
           T == {0 .. (n - 1) : n \in S}
<1>1. IsWellFoundedOn(R, FiniteSubsetsOf(Nat))
      BY FS_StrictSubsetOrderingWellFounded
<1>2. T \subseteq FiniteSubsetsOf(Nat) /\ T # {}
  <2>1. ASSUME NEW n \in S PROVE 0 .. (n - 1) \in FiniteSubsetsOf(Nat)
        BY FS_Interval DEF FiniteSubsetsOf
  <2>2. QED
        BY <2>1
<1>3. PICK x \in T : \A y \in T : ~(<<y, x>> \in R)
  <2> HIDE DEF R, T
  <2> QED
      BY <1>1, <1>2, WFMin
<1>4. PICK n \in S : x = 0 .. (n - 1)
      OBVIOUS
<1>5. ASSUME NEW m \in S, m < n PROVE FALSE
  <2>1. /\ 0 .. (m - 1) \in SUBSET Nat /\ x \in SUBSET Nat
        /\ 0 .. (m - 1) \subseteq x /\ m \in x /\ m \notin 0 .. (m - 1)
        BY <1>4, <1>5
  <2>2. <<0 .. (m - 1), x>> \in R
        BY <2>1 DEF StrictSubsetOrdering
  <2>3. QED
        BY <2>2, <1>3
<1>6. QED
      BY <1>5

LEMMA Greatest ==
    ASSUME NEW n \in Nat, NEW S \in SUBSET (1 .. n), S # {}
    PROVE  Max(S) \in S
<1> DEFINE B == {b \in Nat : \A k \in S : b >= k}
<1>1. PICK b \in B : \A c \in B : b <= c
  <2>1. n \in B /\ B \subseteq Nat
        OBVIOUS
  <2> HIDE DEF B
  <2>2. QED
        BY <2>1, LeastNumber
<1>2. b \in S
  <2> SUFFICES ASSUME b \notin S PROVE FALSE
      OBVIOUS
  <2>1. \A k \in S : k \in Nat \ {0} /\ b >= k /\ b # k
        BY <1>1
  <2>2. b \in Nat /\ b # 0
    <3>1. PICK k \in S : TRUE
          OBVIOUS
    <3>2. b \in Nat
          BY <1>1
    <3>3. QED
          BY <2>1, <3>1, <3>2
  <2>3. b - 1 \in Nat /\ ~(b <= b - 1)
        BY <2>2
  <2>4. \A k \in S : b - 1 >= k
        BY <2>1, <2>2
  <2>5. b - 1 \in B
        BY <2>3, <2>4
  <2>6. QED
        BY <1>1, <2>3, <2>5
<1>3. Max(S) = b
  <2>1. S \in SUBSET Nat /\ \A k \in S : b >= k
        BY <1>1
  <2>2. QED
        BY <1>2, <2>1, GreatestOf
<1>4. QED
      BY <1>2, <1>3

LEMMA FrontSequence ==
    ASSUME NEW S, NEW s \in Seq(S), s # <<>>
    PROVE  /\ Front(s) \in Seq(S) /\ Len(Front(s)) = Len(s) - 1
           /\ \A k \in 1 .. Len(s) - 1 : Front(s)[k] = s[k]
<1>1. Len(s) \in Nat \ {0}
      OBVIOUS
<1>2. PICK n \in Nat : n = Len(s) - 1
      BY <1>1
<1>3. /\ SubSeq(s, 1, n) \in Seq(S) /\ Len(SubSeq(s, 1, n)) = n
      /\ \A k \in 1 .. n : SubSeq(s, 1, n)[k] = s[k]
      BY <1>1, <1>2
<1>4. Front(s) = SubSeq(s, 1, n)
      BY <1>2 DEF Front
<1>5. QED
      BY <1>2, <1>3, <1>4

\* A brace closes something.
Closes(x, os) == x.lex = "}" => os # <<>>

LEMMA StructuredNext ==
    ASSUME NEW t, NEW ds, NEW os, Structured(t, ds, os), NEW x, Closes(x, os)
    PROVE  Structured(Append(t, x),
                      IF Makes(x)
                      THEN Append(ds, Put("parent", IF os = <<>> THEN 0 ELSE Last(os), x.decl))
                      ELSE ds,
                      CASE x.lex = "open" -> Append(os, Len(ds) + 1)
                        [] x.lex = "}" -> Front(os)
                        [] OTHER -> os)
<1> DEFINE n  == Len(t)
           u  == Append(t, x)
           dx == Put("parent", IF os = <<>> THEN 0 ELSE Last(os), x.decl)
           es == IF Makes(x) THEN Append(ds, dx) ELSE ds
           ps == CASE x.lex = "open" -> Append(os, Len(ds) + 1)
                   [] x.lex = "}" -> Front(os)
                   [] OTHER -> os
           change == IF x.lex = "open" THEN 1 ELSE IF x.lex = "}" THEN -1 ELSE 0
<1>1. /\ IsSequence(t) /\ IsSequence(ds) /\ os \in Seq(Nat)
      /\ Len(ds) = NumberIn(t, n)
      /\ \A k \in DOMAIN t : Makes(t[k]) =>
             ds[NumberIn(t, k)] = Put("parent", ParentIn(t, k), t[k].decl)
      /\ Len(os) = DepthIn(t, n + 1)
      /\ \A k \in 1 .. n + 1 : DepthIn(t, k) >= 0
      /\ \A d \in 1 .. Len(os) : LatestIn(t, d) # {} /\ os[d] = NumberIn(t, Max(LatestIn(t, d)))
      BY DEF Structured
<1>2. /\ IsSequence(u) /\ n \in Nat /\ DOMAIN t = 1 .. n
      /\ Len(u) = n + 1 /\ DOMAIN u = 1 .. n + 1
      /\ \A k \in 1 .. n : u[k] = t[k]
      /\ u[n + 1] = x
      BY <1>1, AppendSequence
<1>3. /\ \A k \in 1 .. n + 1 : DepthIn(u, k) = DepthIn(t, k) /\ DepthIn(t, k) \in Int
      /\ DepthIn(u, n + 2) = DepthIn(t, n + 1) + change
      /\ \A k \in 0 .. n : NumberIn(u, k) = NumberIn(t, k) /\ NumberIn(t, k) \in Nat
      /\ NumberIn(u, n + 1) = NumberIn(t, n) + (IF Makes(x) THEN 1 ELSE 0)
      BY <1>1, OneTokenMore
<1> HIDE DEF n, u
<1>4. /\ Len(ds) \in Nat /\ DOMAIN ds = 1 .. Len(ds)
      /\ IsSequence(Append(ds, dx)) /\ Len(Append(ds, dx)) = Len(ds) + 1
      /\ \A k \in 1 .. Len(ds) : Append(ds, dx)[k] = ds[k]
      /\ Append(ds, dx)[Len(ds) + 1] = dx
      BY <1>1, AppendSequence
<1> HIDE DEF dx
<1>5. /\ IsSequence(es) /\ Len(es) = NumberIn(u, n + 1)
      /\ \A k \in 1 .. Len(ds) : es[k] = ds[k]
      /\ Makes(x) => es[NumberIn(u, n + 1)] = dx
  <2>1. CASE Makes(x)
    <3>1. NumberIn(u, n + 1) = Len(ds) + 1
          BY <1>1, <1>3, <2>1
    <3>2. es = Append(ds, dx)
          BY <2>1
    <3> HIDE DEF es
    <3>3. QED
          BY <1>4, <3>1, <3>2
  <2>2. CASE ~Makes(x)
    <3>1. es = ds
          BY <2>2
    <3>2. NumberIn(u, n + 1) = NumberIn(t, n) + 0
          BY <1>3, <2>2
    <3>3. NumberIn(u, n + 1) = Len(ds)
          BY <1>1, <1>4, <3>2
    <3> HIDE DEF es
    <3>4. QED
          BY <1>1, <2>2, <3>1, <3>3
  <2>3. QED
        BY <2>1, <2>2
<1> HIDE DEF es
<1>a. os \in Seq(Nat) /\ Len(os) \in Nat /\ Len(ds) + 1 \in Nat
      BY <1>1, <1>4
<1>6. /\ ps \in Seq(Nat) /\ Len(ps) = Len(os) + change
      /\ \A d \in 1 .. Len(ps) : d \in 1 .. Len(os) => ps[d] = os[d]
      /\ x.lex = "open" => ps[Len(os) + 1] = Len(ds) + 1
  <2>1. CASE x.lex = "open"
    <3> DEFINE number == Len(ds) + 1
    <3>1. ps = Append(os, number) /\ change = 1
          BY <2>1
    <3>2. number \in Nat
          BY <1>a
    <3> HIDE DEF ps, change, number
    <3>3. /\ ps \in Seq(Nat) /\ Len(ps) = Len(os) + 1
          /\ \A d \in 1 .. Len(os) : ps[d] = os[d]
          /\ ps[Len(os) + 1] = number
          BY <1>a, <3>1, <3>2
    <3>4. QED
          BY <3>1, <3>3 DEF number
  <2>2. CASE x.lex = "}"
    <3>1. ps = Front(os) /\ change = -1 /\ x.lex # "open"
          BY <2>2
    <3>2. Len(os) \in Nat \ {0}
      <4>1. os # <<>>
            BY <2>2 DEF Closes
      <4>2. QED
            BY <1>a, <4>1
    <3> HIDE DEF ps, change
    <3>3. /\ Front(os) \in Seq(Nat) /\ Len(Front(os)) = Len(os) - 1
          /\ \A d \in 1 .. Len(os) - 1 : Front(os)[d] = os[d]
          BY <1>a, <3>2, FrontSequence
    <3>4. Len(os) - 1 = Len(os) + -1
          BY <3>2
    <3>5. QED
          BY <3>1, <3>3, <3>4
  <2>3. CASE x.lex # "open" /\ x.lex # "}"
    <3>1. ps = os /\ change = 0
          BY <2>3
    <3> HIDE DEF ps, change
    <3>2. Len(os) = Len(os) + 0
          BY <1>a
    <3>3. QED
          BY <1>a, <2>3, <3>1, <3>2
  <2>4. QED
        BY <2>1, <2>2, <2>3
<1>7. change \in {1, 0, -1} /\ (change = 1 <=> x.lex = "open")
      OBVIOUS
<1> HIDE DEF ps, change
<1>8. Len(ps) = DepthIn(u, n + 2)
      BY <1>1, <1>3, <1>6
<1>b. Len(ps) \in Nat
      BY <1>6
<1>9. \A k \in 1 .. n + 2 : DepthIn(u, k) >= 0
  <2>1. \A k \in 1 .. n + 2 : k \in 1 .. n + 1 \/ k = n + 2
        BY <1>2
  <2>2. DepthIn(u, n + 2) >= 0
        BY <1>8, <1>b
  <2>3. \A k \in 1 .. n + 1 : DepthIn(u, k) >= 0
        BY <1>1, <1>3
  <2>4. QED
        BY <2>1, <2>2, <2>3
<1>10. \A k \in 1 .. n + 1 : /\ BlockIn(u, k) = BlockIn(t, k) /\ BlockIn(t, k) \subseteq 1 .. n
                             /\ ParentIn(u, k) = ParentIn(t, k)
  <2> SUFFICES ASSUME NEW k \in 1 .. n + 1
               PROVE  /\ BlockIn(u, k) = BlockIn(t, k) /\ BlockIn(t, k) \subseteq 1 .. n
                      /\ ParentIn(u, k) = ParentIn(t, k)
      OBVIOUS
  <2>1. \A j \in 1 .. k - 1 : j \in 1 .. n /\ j \in 1 .. n + 1
        BY <1>2
  <2>2. BlockIn(u, k) = BlockIn(t, k) /\ BlockIn(t, k) \subseteq 1 .. n
        BY <1>2, <1>3, <2>1 DEF BlockIn
  <2>3. BlockIn(t, k) # {} => Max(BlockIn(t, k)) \in 0 .. n
    <3>1. BlockIn(t, k) # {} => Max(BlockIn(t, k)) \in BlockIn(t, k)
          BY <1>2, <2>2, Greatest
    <3>2. 1 .. n \subseteq 0 .. n
          BY <1>2
    <3>3. QED
          BY <2>2, <3>1, <3>2
  <2>4. QED
        BY <1>3, <2>2, <2>3 DEF ParentIn
<1>11. \A k \in 1 .. n + 1 : Makes(u[k]) =>
           es[NumberIn(u, k)] = Put("parent", ParentIn(u, k), u[k].decl)
  <2>1. ASSUME NEW k \in 1 .. n, Makes(u[k])
        PROVE  es[NumberIn(u, k)] = Put("parent", ParentIn(u, k), u[k].decl)
    <3>a. k \in 0 .. n /\ k \in 1 .. n + 1
          BY <1>2
    <3>1. u[k] = t[k] /\ NumberIn(u, k) = NumberIn(t, k) /\ ParentIn(u, k) = ParentIn(t, k)
          /\ k \in DOMAIN t
          BY <1>2, <1>3, <1>10, <3>a
    <3>2. NumberIn(t, k) \in 1 .. Len(ds)
      <4>1. /\ NumberIn(t, k) \in Nat /\ NumberIn(t, k) <= Len(ds)
            /\ NumberIn(t, k) > 0
            BY <1>1, <2>1, <3>1, NumberPlace DEF n
      <4>2. QED
            BY <1>4, <4>1
    <3>3. QED
          BY <1>1, <1>5, <2>1, <3>1, <3>2
  <2>2. ASSUME Makes(x)
        PROVE  es[NumberIn(u, n + 1)] = Put("parent", ParentIn(u, n + 1), x.decl)
    <3>1. ParentIn(u, n + 1) = ParentIn(t, n + 1)
          BY <1>2, <1>10
    <3>2. ParentIn(t, n + 1) = IF os = <<>> THEN 0 ELSE Last(os)
      <4>1. BlockIn(t, n + 1) = {k \in 1 .. n : t[k].lex = "open" /\ DepthIn(t, k) = Len(os) - 1}
        <5>1. n + 1 - 1 = n
              BY <1>2
        <5> DEFINE q == n + 1
        <5>a. q - 1 = n
              BY <1>2
        <5>2. q - 1 = n /\ Len(os) = DepthIn(t, q)
              BY <1>1, <5>a
        <5> HIDE DEF q
        <5>3. BlockIn(t, q) = {k \in 1 .. n : t[k].lex = "open" /\ DepthIn(t, k) = Len(os) - 1}
              BY <5>2 DEF BlockIn
        <5>4. QED
              BY <5>3 DEF q
      <4>2. CASE os = <<>>
        <5>1. Len(os) = 0
              BY <4>2
        <5>2. ASSUME NEW k \in 1 .. n PROVE DepthIn(t, k) # Len(os) - 1
          <6>1. k \in 1 .. n + 1
                BY <1>2
          <6>2. DepthIn(t, k) \in Int /\ DepthIn(t, k) >= 0
                BY <1>1, <1>3, <6>1
          <6>3. QED
                BY <5>1, <6>2
        <5>3. BlockIn(t, n + 1) = {}
              BY <4>1, <5>2
        <5>4. QED
              BY <4>2, <5>3 DEF ParentIn
      <4>3. CASE os # <<>>
        <5>1. Len(os) \in 1 .. Len(os)
              BY <1>1, <4>3
        <5>2. BlockIn(t, n + 1) = LatestIn(t, Len(os))
              BY <1>2, <4>1 DEF LatestIn
        <5>3. QED
              BY <1>1, <4>3, <5>1, <5>2 DEF ParentIn, Last
      <4>4. QED
            BY <4>2, <4>3
    <3>3. QED
          BY <1>5, <2>2, <3>1, <3>2 DEF dx
  <2>3. \A k \in 1 .. n + 1 : k \in 1 .. n \/ k = n + 1
        BY <1>2
  <2>4. QED
        BY <1>2, <2>1, <2>2, <2>3
<1>12. \A d \in 1 .. Len(ps) : LatestIn(u, d) # {} /\ ps[d] = NumberIn(u, Max(LatestIn(u, d)))
  <2> SUFFICES ASSUME NEW d \in 1 .. Len(ps)
               PROVE  LatestIn(u, d) # {} /\ ps[d] = NumberIn(u, Max(LatestIn(u, d)))
      OBVIOUS
  <2>1. /\ \A k \in 1 .. n : k \in 1 .. n + 1
        /\ n + 1 \in 1 .. n + 1
        BY <1>2
  <2>a. \A k \in 1 .. n + 1 : k \in 1 .. n \/ k = n + 1
        BY <1>2
  <2>b. DepthIn(u, n + 1) = Len(os)
        BY <1>1, <1>3, <2>1
  <2>2. CASE d \in 1 .. Len(os)
    <3>1. n + 1 \notin LatestIn(u, d)
      <4>1. Len(os) # d - 1
            BY <1>a, <2>2
      <4>2. QED
            BY <2>b, <4>1 DEF LatestIn
    <3>2. LatestIn(u, d) = LatestIn(t, d) /\ LatestIn(t, d) \subseteq 1 .. n
          BY <1>2, <1>3, <2>1, <2>a, <3>1 DEF LatestIn
    <3>3. LatestIn(t, d) # {}
          BY <1>1, <2>2
    <3>4. Max(LatestIn(t, d)) \in 0 .. n
      <4>1. Max(LatestIn(t, d)) \in 1 .. n
            BY <1>2, <3>2, <3>3, Greatest
      <4>2. 1 .. n \subseteq 0 .. n
            BY <1>2
      <4>3. QED
            BY <4>1, <4>2
    <3>5. QED
          BY <1>1, <1>3, <1>6, <2>2, <3>2, <3>3, <3>4
  <2>3. CASE d \notin 1 .. Len(os)
    <3>1. d = Len(os) + 1 /\ x.lex = "open"
      <4>1. d \in Int /\ d >= 1 /\ d <= Len(os) + change
            BY <1>6, <1>b
      <4>2. ~(d <= Len(os))
            BY <1>a, <2>3, <4>1
      <4>3. change = 1
            BY <1>7, <1>a, <4>1, <4>2
      <4>4. d = Len(os) + 1
            BY <1>a, <4>1, <4>2, <4>3
      <4>5. QED
            BY <1>7, <4>3, <4>4
    <3>2. n + 1 \in LatestIn(u, d) /\ LatestIn(u, d) \subseteq 1 .. n + 1
      <4>1. Len(os) = d - 1
            BY <1>a, <3>1
      <4>2. QED
            BY <1>2, <2>1, <2>b, <3>1, <4>1 DEF LatestIn
    <3>3. Max(LatestIn(u, d)) = n + 1
      <4>a. \A k \in 1 .. n + 1 : k \in Nat /\ n + 1 >= k
            BY <1>2
      <4>1. LatestIn(u, d) \in SUBSET Nat /\ \A k \in LatestIn(u, d) : n + 1 >= k
            BY <3>2, <4>a
      <4>2. QED
            BY <3>2, <4>1, GreatestOf
    <3>4. NumberIn(u, n + 1) = Len(ds) + 1
          BY <1>1, <1>3, <3>1 DEF Makes
    <3>5. QED
          BY <1>6, <3>1, <3>2, <3>3, <3>4
  <2>4. QED
        BY <2>2, <2>3
<1>13. Structured(u, es, ps)
  <2>1. Len(u) = n + 1 /\ Len(u) + 1 = n + 2
        BY <1>2
  <2>2. QED
        BY <1>2, <1>5, <1>6, <1>8, <1>9, <1>11, <1>12, <2>1 DEF Structured
<1>14. QED
       BY <1>13 DEF u, es, dx, ps

-----------------------------------------------------------------------------
(* The parser: the inductive invariant *)

Texts == Seq(Lexemes) \ {<<>>}

\* A lexeme of a file, or one the lexer makes of it.
IsLexeme(l) == "lex" \in DOMAIN l /\ (l.lex \in {"decl", "open"} => "decl" \in DOMAIN l)

ParserInv ==
    /\ input \in Seq(SUBSET Texts) /\ ahead \in Seq(Lexemes)
    /\ Structured(tail, defs, open)

LEMMA StructuredFresh == Structured(<<>>, <<>>, <<>>)
<1>1. IsSequence(<<>>) /\ <<>> \in Seq(Nat)
      BY DEF IsSequence
<1>2. 1 .. 0 = {} /\ Opening(<<>>) = {} /\ Closing(<<>>) = {} /\ Making(<<>>) = {}
      BY DEF Opening, Closing, Making
<1>3. \A n \in {0} : Among({}, n) = 0
  <2>1. {k \in 1 .. 0 : k \in {}} = {}
        OBVIOUS
  <2>2. QED
        BY <2>1, FS_EmptySet DEF Among
<1>4. NumberIn(<<>>, 0) = 0 /\ DepthIn(<<>>, 1) = 0
  <2>1. 1 - 1 = 0 /\ 0 - 0 = 0
        OBVIOUS
  <2>2. QED
        BY <1>2, <1>3, <2>1 DEF NumberIn, DepthIn
<1>5. \A n \in 1 .. 0 + 1 : n = 1
      OBVIOUS
<1>6. Len(<<>>) = 0 /\ DOMAIN <<>> = {}
      OBVIOUS
<1>7. 0 + 1 = 1 /\ 0 >= 0
      OBVIOUS
<1>8. QED
      BY <1>1, <1>2, <1>4, <1>5, <1>6, <1>7 DEF Structured

LEMMA StructuredMeans == Structured(tail, defs, open) => ParsedIsTail
<1> SUFFICES ASSUME Structured(tail, defs, open) PROVE ParsedIsTail
    OBVIOUS
<1>1. IsSequence(tail) /\ DOMAIN tail = 1 .. Len(tail) /\ Len(tail) \in Nat
      BY AppendSequence DEF Structured
<1>2. \A n \in 1 .. Len(tail) + 1 : Depth(n) = DepthIn(tail, n)
  <2> SUFFICES ASSUME NEW n \in 1 .. Len(tail) + 1 PROVE Depth(n) = DepthIn(tail, n)
      OBVIOUS
  <2>1. \A k \in 1 .. n - 1 : k \in 1 .. Len(tail)
        BY <1>1
  <2>2. /\ {k \in 1 .. n - 1 : tail[k].lex = "open"} = {k \in 1 .. n - 1 : k \in Opening(tail)}
        /\ {k \in 1 .. n - 1 : tail[k].lex = "}"} = {k \in 1 .. n - 1 : k \in Closing(tail)}
        BY <1>1, <2>1 DEF Opening, Closing
  <2>3. QED
        BY <2>2 DEF Depth, DepthIn, Among
<1>3. \A n \in 0 .. Len(tail) : Number(n) = NumberIn(tail, n)
  <2> SUFFICES ASSUME NEW n \in 0 .. Len(tail) PROVE Number(n) = NumberIn(tail, n)
      OBVIOUS
  <2>1. \A k \in 1 .. n : k \in 1 .. Len(tail)
        BY <1>1
  <2>2. {k \in 1 .. n : Makes(tail[k])} = {k \in 1 .. n : k \in Making(tail)}
        BY <1>1, <2>1 DEF Making
  <2>3. QED
        BY <2>2 DEF Number, NumberIn, Among
<1>4. \A n \in 1 .. Len(tail) : Block(n) = BlockIn(tail, n) /\ Block(n) \subseteq 1 .. Len(tail)
  <2> SUFFICES ASSUME NEW n \in 1 .. Len(tail)
               PROVE  Block(n) = BlockIn(tail, n) /\ Block(n) \subseteq 1 .. Len(tail)
      OBVIOUS
  <2>1. n \in 1 .. Len(tail) + 1
        BY <1>1
  <2>2. \A k \in 1 .. n - 1 : k \in 1 .. Len(tail) + 1 /\ k \in 1 .. Len(tail)
        BY <1>1
  <2>3. QED
        BY <1>2, <2>1, <2>2 DEF Block, BlockIn
<1>5. ASSUME NEW n \in DOMAIN tail, Makes(tail[n])
      PROVE  defs[Number(n)] = Put("parent", IF Block(n) = {} THEN 0 ELSE Number(Max(Block(n))), tail[n].decl)
  <2>1. n \in 1 .. Len(tail) /\ n \in 0 .. Len(tail)
        BY <1>1
  <2>2. Block(n) # {} => Number(Max(Block(n))) = NumberIn(tail, Max(BlockIn(tail, n)))
    <3>1. Block(n) # {} => Max(Block(n)) \in Block(n)
          BY <1>1, <1>4, <2>1, Greatest
    <3>2. \A k \in 1 .. Len(tail) : k \in 0 .. Len(tail)
          BY <1>1
    <3>3. QED
          BY <1>3, <1>4, <2>1, <3>1, <3>2
  <2>3. ParentIn(tail, n) = IF Block(n) = {} THEN 0 ELSE Number(Max(Block(n)))
        BY <1>4, <2>1, <2>2 DEF ParentIn
  <2>4. Number(n) = NumberIn(tail, n)
        BY <1>3, <2>1
  <2>5. defs[NumberIn(tail, n)] = Put("parent", ParentIn(tail, n), tail[n].decl)
        BY <1>5 DEF Structured
  <2>6. QED
        BY <2>3, <2>4, <2>5
<1>6. Len(defs) = Number(Len(tail)) /\ Len(open) = Depth(Len(tail) + 1)
  <2>1. Len(tail) \in 0 .. Len(tail) /\ Len(tail) + 1 \in 1 .. Len(tail) + 1
        BY <1>1
  <2>2. QED
        BY <1>2, <1>3, <2>1 DEF Structured
<1>7. QED
      BY <1>5, <1>6 DEF ParsedIsTail

\* The tokens accepted make the definitions and blocks one token longer.
LEMMA ShiftStructured ==
    ASSUME NEW token, Structured(tail, defs, open), Shift(token)
    PROVE  Structured(tail', defs', open')
<1>1. tail' = Append(tail, token)
      BY DEF Shift
<1>2. Closes(token, open)
      BY DEF Shift, Accepts, Closes
<1>3. defs' = IF Makes(token)
              THEN Append(defs, Put("parent", IF open = <<>> THEN 0 ELSE Last(open), token.decl))
              ELSE defs
      BY DEF Shift, With, Enclosing
<1>4. open' = CASE token.lex = "open" -> Append(open, Len(defs) + 1)
                [] token.lex = "}" -> Front(open)
                [] OTHER -> open
      BY DEF Shift
<1>5. QED
      BY <1>1, <1>2, <1>3, <1>4, StructuredNext

LEMMA AtMostOne ==
    ASSUME NEW token, IsLexeme(token)
    PROVE  \/ Rest(token) = <<>>
           \/ \E r : Rest(token) = <<r>> /\ r.lex = token.lex /\ token.lex \in {"decl", "open"}
<1>1. CASE token.lex \notin {"decl", "open"} \/ expects # ";"
      BY <1>1 DEF Rest
<1>2. CASE token.lex \in {"decl", "open"} /\ expects = ";"
  <2> DEFINE R == Remnant(token.decl)
  <2>1. Rest(token) = [n \in DOMAIN R |-> [token EXCEPT !.decl = R[n]]]
        BY <1>2 DEF Rest
  <2>2. R = <<>> \/ \E d : R = <<d>>
        BY DEF Remnant
  <2> HIDE DEF R
  <2>3. CASE R = <<>>
    <3>1. DOMAIN R = {}
          BY <2>3
    <3>2. [n \in DOMAIN R |-> [token EXCEPT !.decl = R[n]]] = <<>>
          BY <3>1
    <3>3. QED
          BY <2>1, <3>2
  <2>4. ASSUME NEW d, R = <<d>>
        PROVE  \E r : Rest(token) = <<r>> /\ r.lex = token.lex
    <3> DEFINE r == [token EXCEPT !.decl = d]
    <3>1. r.lex = token.lex
          BY DEF IsLexeme
    <3>2. DOMAIN R = 1 .. 1 /\ R[1] = d
          BY <2>4
    <3>3. \A n \in 1 .. 1 : n = 1
          OBVIOUS
    <3>4. [n \in DOMAIN R |-> [token EXCEPT !.decl = R[n]]] = [n \in 1 .. 1 |-> r]
          BY <3>2, <3>3
    <3> HIDE DEF r
    <3>5. [n \in 1 .. 1 |-> r] = <<r>>
          BY <3>3
    <3>6. QED
          BY <2>1, <3>1, <3>4, <3>5
  <2>5. QED
        BY <1>2, <2>2, <2>3, <2>4
<1>3. QED
      BY <1>1, <1>2

\* What is left on the stack after a syntax error.
LEMMA RecoverLeaves ==
    ASSUME NEW token, IsLexeme(token), Recover(token)
    PROVE  \/ tail' = <<>> /\ defs' = <<>> /\ open' = <<>>
           \/ \E r : /\ Rest(token) = <<r>> /\ r.lex = token.lex /\ token.lex \in {"decl", "open"}
                     /\ tail' = <<r>> /\ defs' = <<Put("parent", 0, r.decl)>>
                     /\ open' = IF r.lex = "open" THEN << 1 >> ELSE <<>>
<1>1. /\ tail' = Rest(token)
      /\ defs' = [n \in DOMAIN Rest(token) |-> Put("parent", 0, Rest(token)[n].decl)]
      /\ open' = [n \in {m \in DOMAIN Rest(token) : token.lex = "open"} |-> 1]
      BY DEF Recover
<1>2. CASE Rest(token) = <<>>
  <2>1. DOMAIN Rest(token) = {}
        BY <1>2
  <2>2. tail' = <<>> /\ defs' = <<>> /\ open' = <<>>
    <3>1. [n \in DOMAIN Rest(token) |-> Put("parent", 0, Rest(token)[n].decl)] = <<>>
          BY <2>1
    <3>2. {m \in DOMAIN Rest(token) : token.lex = "open"} = {}
          BY <2>1
    <3>3. [n \in {m \in DOMAIN Rest(token) : token.lex = "open"} |-> 1] = <<>>
          BY <3>2
    <3>4. QED
          BY <1>1, <1>2, <3>1, <3>3
  <2>3. QED
        BY <2>2
<1>3. ASSUME NEW r, Rest(token) = <<r>>, r.lex = token.lex, token.lex \in {"decl", "open"}
      PROVE  /\ tail' = <<r>> /\ defs' = <<Put("parent", 0, r.decl)>>
             /\ open' = IF r.lex = "open" THEN << 1 >> ELSE <<>>
  <2> DEFINE dr == Put("parent", 0, r.decl)
             blocks == IF r.lex = "open" THEN << 1 >> ELSE <<>>
  <2>1. DOMAIN Rest(token) = 1 .. 1 /\ Rest(token)[1] = r /\ \A n \in 1 .. 1 : n = 1
        BY <1>3
  <2>2. defs' = <<dr>>
    <3> HIDE DEF dr
    <3>1. [n \in DOMAIN Rest(token) |-> Put("parent", 0, Rest(token)[n].decl)] = [n \in 1 .. 1 |-> dr]
          BY <2>1 DEF dr
    <3>2. [n \in 1 .. 1 |-> dr] = <<dr>>
          BY <2>1
    <3>3. QED
          BY <1>1, <3>1, <3>2
  <2>3. open' = blocks
    <3>1. CASE r.lex = "open"
      <4>1. {m \in DOMAIN Rest(token) : token.lex = "open"} = 1 .. 1
            BY <1>3, <2>1, <3>1
      <4>2. [n \in {m \in DOMAIN Rest(token) : token.lex = "open"} |-> 1] = << 1 >>
            BY <4>1
      <4>3. QED
            BY <1>1, <3>1, <4>2
    <3>2. CASE r.lex # "open"
      <4>1. {m \in DOMAIN Rest(token) : token.lex = "open"} = {}
            BY <1>3, <3>2
      <4>2. [n \in {m \in DOMAIN Rest(token) : token.lex = "open"} |-> 1] = <<>>
            BY <4>1
      <4>3. QED
            BY <1>1, <3>2, <4>2
    <3>3. QED
          BY <3>1, <3>2
  <2>4. QED
        BY <1>1, <1>3, <2>2, <2>3
<1>4. QED
      BY <1>2, <1>3, AtMostOne

\* What is left of a bad lexeme is parsed as though the file began with it.
LEMMA RecoverStructured ==
    ASSUME NEW token, IsLexeme(token), Recover(token)
    PROVE  Structured(tail', defs', open')
<1>1. ASSUME NEW r, r.lex = token.lex, token.lex \in {"decl", "open"},
             tail' = <<r>>, defs' = <<Put("parent", 0, r.decl)>>,
             open' = IF r.lex = "open" THEN << 1 >> ELSE <<>>
      PROVE  Structured(tail', defs', open')
  <2> DEFINE dr == Put("parent", 0, r.decl)
             blocks == IF r.lex = "open" THEN << 1 >> ELSE <<>>
  <2>1. Structured(Append(<<>>, r),
                   IF Makes(r) THEN Append(<<>>, Put("parent", IF <<>> = <<>> THEN 0 ELSE Last(<<>>), r.decl))
                               ELSE <<>>,
                   CASE r.lex = "open" -> Append(<<>>, Len(<<>>) + 1)
                     [] r.lex = "}" -> Front(<<>>)
                     [] OTHER -> <<>>)
    <3>1. Closes(r, <<>>)
          BY <1>1 DEF Closes
    <3>2. QED
          BY <3>1, StructuredFresh, StructuredNext
  <2>2. Makes(r)
        BY <1>1 DEF Makes
  <2>3. Append(<<>>, r) = <<r>> /\ Append(<<>>, dr) = <<dr>>
        OBVIOUS
  <2>4. (CASE r.lex = "open" -> Append(<<>>, Len(<<>>) + 1)
           [] r.lex = "}" -> Front(<<>>)
           [] OTHER -> <<>>) = blocks
    <3>1. Append(<<>>, 1) = << 1 >> /\ Len(<<>>) + 1 = 1
      <4>1. \A one : Append(<<>>, one) = <<one>>
            OBVIOUS
      <4>2. Len(<<>>) + 1 = 1
            OBVIOUS
      <4>3. QED
            BY <4>1, <4>2
    <3>2. r.lex # "}"
          BY <1>1
    <3>3. QED
          BY <3>1, <3>2
  <2>5. defs' = <<dr>> /\ open' = blocks
        BY <1>1
  <2> HIDE DEF blocks
  <2>6. QED
        BY <1>1, <2>1, <2>2, <2>3, <2>4, <2>5
<1>2. QED
      BY <1>1, RecoverLeaves, StructuredFresh

LEMMA TakeStructured ==
    ASSUME NEW token, IsLexeme(token), Structured(tail, defs, open), Take(token)
    PROVE  Structured(tail', defs', open')
BY ShiftStructured, RecoverStructured DEF Take

LEMMA LexStructured ==
    ASSUME NEW l \in Lexemes, Structured(tail, defs, open), Lex(l)
    PROVE  Structured(tail', defs', open')
<1>1. IsLexeme(l) /\ IsLexeme(Symbol("}")) /\ IsLexeme(VerbatimBlock)
      BY SourcesAssumption DEF IsLexeme, Symbol, VerbatimBlock
<1>2. ASSUME Skip PROVE Structured(tail', defs', open')
      BY <1>2 DEF Skip, parser
<1>3. Skip \/ Take(l) \/ Take(Symbol("}")) \/ Take(VerbatimBlock)
      BY DEF Lex, Initial, Inner
<1>4. QED
      BY <1>1, <1>2, <1>3, TakeStructured

LEMMA ParserStep == ParserInv /\ [ParserNext]_parserVars => ParserInv'
<1> SUFFICES ASSUME ParserInv, [ParserNext]_parserVars PROVE ParserInv'
    OBVIOUS
<1>1. CASE Read
  <2>1. ASSUME ahead # <<>>, Lex(Head(ahead)), ahead' = Tail(ahead), UNCHANGED input
        PROVE  ParserInv'
    <3>1. Head(ahead) \in Lexemes /\ Tail(ahead) \in Seq(Lexemes)
          BY <2>1 DEF ParserInv
    <3>2. Structured(tail', defs', open')
          BY <2>1, <3>1, LexStructured DEF ParserInv
    <3>3. QED
          BY <2>1, <3>1, <3>2 DEF ParserInv
  <2>2. ASSUME input # <<>>, NEW text \in Head(input), Lex(Head(text)), ahead' = Tail(text),
               input' = Tail(input)
        PROVE  ParserInv'
    <3>1. Head(input) \in SUBSET Texts /\ Tail(input) \in Seq(SUBSET Texts)
          BY <2>2 DEF ParserInv
    <3>2. text \in Seq(Lexemes) /\ text # <<>>
          BY <3>1 DEF Texts
    <3>3. Head(text) \in Lexemes /\ Tail(text) \in Seq(Lexemes)
          BY <3>2
    <3>4. Structured(tail', defs', open')
          BY <2>2, <3>3, LexStructured DEF ParserInv
    <3>5. QED
          BY <2>2, <3>1, <3>3, <3>4 DEF ParserInv
  <2>3. QED
        BY <1>1, <2>1, <2>2 DEF Read
<1>2. CASE EndOfFile
      BY <1>2, StructuredFresh DEF EndOfFile, ParserInv
<1>3. CASE UNCHANGED parserVars
      BY <1>3 DEF parserVars, lexer, parser, ParserInv
<1>4. QED
      BY <1>1, <1>2, <1>3 DEF ParserNext

\* For any files, of any number of lexemes, with syntax errors anywhere: what has been
\* parsed of a file is what stands in it since the last error, every definition in the
\* block whose braces are around it (Parse of nixysa/idl_parser.py, and PLY's recovery).
THEOREM TailIsParsed == ParserSpec => []ParsedIsTail
<1>1. ParserInit => ParserInv
      BY SourcesAssumption, StructuredFresh DEF ParserInit, ParserInv, Texts
<1>2. ParserInv /\ [ParserNext]_parserVars => ParserInv'
      BY ParserStep
<1>3. ParserInv => ParsedIsTail
      BY StructuredMeans DEF ParserInv
<1>4. QED
      BY <1>1, <1>2, <1>3, PTL DEF ParserSpec

-----------------------------------------------------------------------------
(* The definitions: recursion over the scopes *)

\* A recursion on 1 .. N: from c on, the value at i is made by G[i] of that at P[i].
Recurs(N, P, V, c, G) ==
    /\ N \in Nat /\ \A i \in 2 .. N : P[i] \in 1 .. i - 1
    /\ c \in V /\ \A i \in 2 .. N : \A v \in V : G[i][v] \in V
Solves(f, N, P, V, c, G) ==
    f \in [1 .. N -> V] /\ f = [i \in 1 .. N |-> IF i = 1 THEN c ELSE G[i][f[P[i]]]]

\* If every number leads to a smaller one, there is such a function.
LEMMA Recursion ==
    ASSUME NEW N, NEW P, NEW V, NEW c, NEW G, Recurs(N, P, V, c, G)
    PROVE  \E f : Solves(f, N, P, V, c, G)
<1>a. /\ N \in Nat /\ \A i \in 2 .. N : P[i] \in 1 .. i - 1
      /\ c \in V /\ \A i \in 2 .. N : \A v \in V : G[i][v] \in V
      BY DEF Recurs
<1> DEFINE Agrees(n, f) == \A i \in 1 .. n : f[i] = IF i = 1 THEN c ELSE G[i][f[P[i]]]
           Bad == {n \in 0 .. N : ~ \E f \in [1 .. n -> V] : Agrees(n, f)}
<1>1. Bad = {}
  <2> SUFFICES ASSUME Bad # {} PROVE FALSE
      OBVIOUS
  <2>a. Bad \in SUBSET Nat /\ Bad \subseteq 0 .. N
        BY <1>a
  <2>1. PICK n \in Bad : \A m \in Bad : n <= m
    <3> HIDE DEF Bad
    <3> QED
        BY <2>a, LeastNumber
  <2>2. n # 0
    <3>1. [i \in 1 .. 0 |-> c] \in [1 .. 0 -> V] /\ Agrees(0, [i \in 1 .. 0 |-> c])
          BY <1>a
    <3>2. QED
          BY <3>1
  <2>b. n \in 0 .. N
        BY <1>a, <2>a, <2>1
  <2>3. n - 1 \in 0 .. N /\ n - 1 \notin Bad /\ n \in Nat /\ n \in 1 .. N
    <3> HIDE DEF Bad
    <3>1. n - 1 \in 0 .. N /\ n \in Nat /\ n \in 1 .. N /\ ~(n <= n - 1)
          BY <1>a, <2>b, <2>2
    <3> QED
        BY <2>1, <3>1
  <2>4. PICK f \in [1 .. n - 1 -> V] : Agrees(n - 1, f)
        BY <2>3
  <2> DEFINE e == IF n = 1 THEN c ELSE G[n][f[P[n]]]
             g == [i \in 1 .. n |-> IF i = n THEN e ELSE f[i]]
  <2>5. e \in V
    <3>1. n # 1 => P[n] \in 1 .. n - 1 /\ n \in 2 .. N
          BY <1>a, <2>3
    <3>2. QED
          BY <1>a, <2>4, <3>1
  <2> HIDE DEF e
  <2>6. g \in [1 .. n -> V] /\ \A i \in 1 .. n - 1 : g[i] = f[i]
        BY <2>3, <2>5
  <2>7. ASSUME NEW i \in 1 .. n PROVE g[i] = IF i = 1 THEN c ELSE G[i][g[P[i]]]
    <3>1. i # 1 => P[i] \in 1 .. i - 1 /\ P[i] \in 1 .. n - 1
      <4>1. i # 1 => i \in 2 .. N
            BY <1>a, <2>3
      <4>2. i # 1 => P[i] \in 1 .. i - 1
            BY <1>a, <4>1
      <4>3. \A j \in 1 .. i - 1 : j \in 1 .. n - 1
            BY <2>3
      <4>4. QED
            BY <4>2, <4>3
    <3>2. i # 1 => g[P[i]] = f[P[i]]
          BY <2>6, <3>1
    <3>3. CASE i = n
          BY <3>2, <3>3, <2>3 DEF e
    <3>4. CASE i # n
      <4>1. i \in 1 .. n - 1
            BY <3>4, <2>3
      <4>2. QED
            BY <2>4, <2>6, <3>2, <4>1
    <3>5. QED
          BY <3>3, <3>4
  <2> HIDE DEF g
  <2>8. QED
        BY <2>1, <2>6, <2>7
<1>2. PICK f \in [1 .. N -> V] : Agrees(N, f)
  <2>1. N \in 0 .. N
        BY <1>a
  <2>2. QED
        BY <1>1, <2>1
<1>3. f = [i \in 1 .. N |-> IF i = 1 THEN c ELSE G[i][f[P[i]]]]
      BY <1>2
<1>4. QED
      BY <1>3 DEF Solves

\* The parent of a definition stands before it, and is a class or namespace.
Rooted(D) ==
    /\ IsSequence(D) /\ Len(D) >= 1
    /\ D[1].kind = "Namespace"
    /\ \A i \in 2 .. Len(D) :
           D[i].parent \in 1 .. i - 1 /\ D[D[i].parent].kind \in {"Class", "Namespace"}

LEMMA RootedDomain ==
    ASSUME NEW D, Rooted(D)
    PROVE  Len(D) \in Nat /\ DOMAIN D = 1 .. Len(D) /\ 1 \in DOMAIN D
BY AppendSequence DEF Rooted

\* What holds of a definition if Q does so of it and of all around it.
Inherits(f, D, Q) == f = [i \in DOMAIN D |-> IF i = 1 THEN TRUE ELSE Q[i] /\ f[D[i].parent]]

LEMMA Inherited ==
    ASSUME NEW D, Rooted(D), NEW Q
    PROVE  \E f : Inherits(f, D, Q)
<1>1. /\ Len(D) \in Nat /\ DOMAIN D = 1 .. Len(D)
      /\ \A j \in 2 .. Len(D) : D[j].parent \in 1 .. j - 1
      BY RootedDomain DEF Rooted
<1> DEFINE N == Len(D)
           P == [j \in 1 .. N |-> D[j].parent]
           G == [j \in 1 .. N |-> [v \in BOOLEAN |-> IF Q[j] THEN v ELSE FALSE]]
<1>2. ASSUME NEW j \in 2 .. N
      PROVE  /\ j \in 1 .. N /\ P[j] = D[j].parent /\ P[j] \in 1 .. N /\ P[j] \in 1 .. j - 1
             /\ \A v \in BOOLEAN : G[j][v] = IF Q[j] THEN v ELSE FALSE
  <2>1. j \in 1 .. N
        BY <1>1
  <2>2. P[j] = D[j].parent /\ P[j] \in 1 .. j - 1
        BY <1>1, <2>1
  <2>3. P[j] \in 1 .. N
        BY <1>1, <2>1, <2>2
  <2>4. G[j] = [v \in BOOLEAN |-> IF Q[j] THEN v ELSE FALSE]
        BY <2>1
  <2> HIDE DEF G
  <2>5. QED
        BY <2>1, <2>2, <2>3, <2>4
<1> HIDE DEF G, P
<1>3. Recurs(N, P, BOOLEAN, TRUE, G)
  <2>1. TRUE \in BOOLEAN /\ \A j \in 2 .. N : \A v \in BOOLEAN : G[j][v] \in BOOLEAN
        BY <1>2
  <2>2. QED
        BY <1>1, <1>2, <2>1 DEF Recurs
<1>4. PICK f : Solves(f, N, P, BOOLEAN, TRUE, G)
  <2> HIDE DEF N
  <2> QED
      BY <1>3, Recursion
<1>5. f \in [1 .. N -> BOOLEAN] /\ f = [j \in 1 .. N |-> IF j = 1 THEN TRUE ELSE G[j][f[P[j]]]]
      BY <1>4 DEF Solves
<1>6. ASSUME NEW j \in 1 .. N, j # 1 PROVE G[j][f[P[j]]] = (Q[j] /\ f[D[j].parent])
  <2>1. j \in 2 .. N
        BY <1>1, <1>6
  <2>2. f[P[j]] \in BOOLEAN /\ P[j] = D[j].parent
        BY <1>2, <1>5, <2>1
  <2>3. G[j][f[P[j]]] = IF Q[j] THEN f[P[j]] ELSE FALSE
        BY <1>2, <2>1, <2>2
  <2>4. QED
        BY <2>2, <2>3
<1>7. f = [i \in DOMAIN D |-> IF i = 1 THEN TRUE ELSE Q[i] /\ f[D[i].parent]]
      BY <1>1, <1>5, <1>6
<1>8. QED
      BY <1>7 DEF Inherits

LEMMA WalkedUnfold ==
    ASSUME NEW D, Rooted(D), NEW i \in DOMAIN D
    PROVE  Walked(D)[i] <=> (i = 1 \/ (Visited(D[i]) /\ Walked(D)[D[i].parent]))
<1> DEFINE Q == [j \in DOMAIN D |-> Visited(D[j])]
           F(f) == [j \in DOMAIN D |-> IF j = 1 THEN TRUE ELSE Visited(D[j]) /\ f[D[j].parent]]
<1>1. PICK f : Inherits(f, D, Q)
  <2> HIDE DEF Q
  <2> QED
      BY Inherited
<1>2. f = F(f)
      BY <1>1 DEF Inherits
<1>3. Walked(D) = F(Walked(D))
  <2> HIDE DEF F
  <2>1. Walked(D) = CHOOSE x : x = F(x)
        BY DEF Walked, F
  <2>2. QED
        BY <1>2, <2>1
<1>4. QED
      BY <1>3

ShownHere(d) ==
    /\ "nojs" \notin d.attrs
    /\ d.kind = "Namespace" \/ d.attrs \cap {"private", "protected"} = {}

LEMMA ShownUnfold ==
    ASSUME Rooted(program), NEW i \in DOMAIN program
    PROVE  Shown[i] <=> (i = 1 \/ (ShownHere(program[i]) /\ Shown[program[i].parent]))
<1> DEFINE Q == [j \in DOMAIN program |-> ShownHere(program[j])]
           F(f) == [j \in DOMAIN program |->
                       IF j = 1 THEN TRUE
                       ELSE /\ "nojs" \notin program[j].attrs
                            /\ program[j].kind = "Namespace"
                               \/ program[j].attrs \cap {"private", "protected"} = {}
                            /\ f[program[j].parent]]
<1>1. PICK f : Inherits(f, program, Q)
  <2> HIDE DEF Q
  <2> QED
      BY Inherited
<1>2. f = F(f)
      BY <1>1 DEF Inherits, ShownHere
<1>3. Shown = F(Shown)
  <2> HIDE DEF F
  <2>1. Shown = CHOOSE x : x = F(x)
        BY DEF Shown, F
  <2>2. QED
        BY <1>2, <2>1
<1>4. QED
      BY <1>3 DEF ShownHere

\* The last step of the way to a scope.
Label(D, i) == IF D[i].kind = "Namespace" THEN <<D[i].name, 0>> ELSE <<"", i>>

LEMMA PathUnfold ==
    ASSUME NEW D, Rooted(D)
    PROVE  /\ ScopePath(D)[1] = <<>>
           /\ \A i \in 2 .. Len(D) :
                  ScopePath(D)[i] = Append(ScopePath(D)[D[i].parent], Label(D, i))
           /\ \A i \in 1 .. Len(D) : ScopePath(D)[i] \in Seq({Label(D, j) : j \in 1 .. Len(D)})
<1>1. /\ Len(D) \in Nat /\ DOMAIN D = 1 .. Len(D) /\ Len(D) >= 1
      /\ \A j \in 2 .. Len(D) : D[j].parent \in 1 .. j - 1
      BY RootedDomain DEF Rooted
<1> DEFINE N == Len(D)
           L == {Label(D, j) : j \in 1 .. N}
           V == Seq(L)
           P == [j \in 1 .. N |-> D[j].parent]
           G == [j \in 1 .. N |-> [v \in V |-> Append(v, Label(D, j))]]
           F(f) == [j \in DOMAIN D |->
                       IF j = 1 THEN <<>>
                       ELSE Append(f[D[j].parent],
                                   IF D[j].kind = "Namespace" THEN <<D[j].name, 0>> ELSE <<"", j>>)]
<1>2. ASSUME NEW j \in 2 .. N
      PROVE  /\ j \in 1 .. N /\ P[j] = D[j].parent /\ P[j] \in 1 .. N /\ P[j] \in 1 .. j - 1
             /\ \A v \in V : G[j][v] = Append(v, Label(D, j)) /\ G[j][v] \in V
  <2>1. j \in 1 .. N
        BY <1>1
  <2>2. P[j] = D[j].parent /\ P[j] \in 1 .. j - 1
        BY <1>1, <2>1
  <2>3. P[j] \in 1 .. N
        BY <1>1, <2>1, <2>2
  <2>4. G[j] = [v \in V |-> Append(v, Label(D, j))]
        BY <2>1
  <2>5. Label(D, j) \in L
        BY <2>1
  <2> HIDE DEF G, L
  <2>6. \A v \in V : Append(v, Label(D, j)) \in V
        BY <2>5
  <2> HIDE DEF V
  <2>7. QED
        BY <2>1, <2>2, <2>3, <2>4, <2>6
<1> HIDE DEF G, P, L
<1>3. <<>> \in V
      OBVIOUS
<1> HIDE DEF V
<1>4. Recurs(N, P, V, <<>>, G)
      BY <1>1, <1>2, <1>3 DEF Recurs
<1>5. PICK f : Solves(f, N, P, V, <<>>, G)
  <2> DEFINE e == <<>>
  <2> HIDE DEF N, e
  <2>1. Recurs(N, P, V, e, G)
        BY <1>4 DEF e
  <2>2. \E f : Solves(f, N, P, V, e, G)
        BY <2>1, Recursion
  <2> QED
      BY <2>2 DEF e
<1>6. f \in [1 .. N -> V] /\ f = [j \in 1 .. N |-> IF j = 1 THEN <<>> ELSE G[j][f[P[j]]]]
      BY <1>5 DEF Solves
<1>7. ASSUME NEW j \in 1 .. N, j # 1 PROVE G[j][f[P[j]]] = Append(f[D[j].parent], Label(D, j))
  <2>1. j \in 2 .. N
        BY <1>1, <1>7
  <2>2. f[P[j]] \in V /\ P[j] = D[j].parent
        BY <1>2, <1>6, <2>1
  <2>3. QED
        BY <1>2, <2>1, <2>2
<1>8. f = F(f)
      BY <1>1, <1>6, <1>7 DEF Label
<1>9. ScopePath(D) = F(ScopePath(D))
  <2> HIDE DEF F
  <2>1. ScopePath(D) = CHOOSE x : x = F(x)
        BY DEF ScopePath, F
  <2>2. QED
        BY <1>8, <2>1
<1> DEFINE S == ScopePath(D)
<1>10. /\ S[1] = <<>>
       /\ \A i \in 2 .. N : S[i] = Append(S[D[i].parent], Label(D, i))
  <2>1. \A i \in 2 .. N : i \in DOMAIN D /\ i # 1
        BY <1>1
  <2>2. 1 \in DOMAIN D
        BY <1>1
  <2> HIDE DEF S
  <2>3. S = F(S)
        BY <1>9 DEF S
  <2>4. QED
        BY <2>1, <2>2, <2>3 DEF Label
<1> HIDE DEF S
<1>11. \A i \in 1 .. N : S[i] \in V
  <2> DEFINE Bad == {i \in 1 .. N : S[i] \notin V}
  <2> SUFFICES ASSUME Bad # {} PROVE FALSE
      OBVIOUS
  <2>1. Bad \in SUBSET Nat
        BY <1>1
  <2>2. PICK i \in Bad : \A j \in Bad : i <= j
    <3> HIDE DEF Bad
    <3> QED
        BY <2>1, LeastNumber
  <2>3. i \in 2 .. N
        BY <1>1, <1>3, <1>10, <2>2
  <2>4. P[i] \in 1 .. N /\ P[i] \notin Bad
    <3>1. P[i] \in 1 .. i - 1 /\ P[i] \in 1 .. N
          BY <1>2, <2>3
    <3>2. ~(i <= P[i])
          BY <1>1, <2>3, <3>1
    <3> HIDE DEF Bad
    <3> QED
          BY <2>2, <3>1, <3>2
  <2>5. S[P[i]] \in V
        BY <2>4
  <2>6. S[i] \in V
    <3>1. P[i] = D[i].parent /\ \A v \in V : Append(v, Label(D, i)) \in V
          BY <1>2, <2>3
    <3>2. S[i] = Append(S[D[i].parent], Label(D, i))
          BY <1>10, <2>3
    <3>3. QED
          BY <2>5, <3>1, <3>2
  <2>7. QED
        BY <2>2, <2>6
<1>12. QED
       BY <1>10, <1>11 DEF S, V, L

\* Only blocks of one namespace share a scope.
LEMMA SharedScope ==
    ASSUME NEW D, Rooted(D), NEW i \in 2 .. Len(D), NEW j \in 2 .. Len(D), SameScope(D, i, j)
    PROVE  i = j \/ (D[i].kind = "Namespace" /\ D[j].kind = "Namespace")
<1>1. Len(D) \in Nat /\ \A k \in 2 .. Len(D) : D[k].parent \in 1 .. k - 1
      BY RootedDomain DEF Rooted
<1>2. D[i].parent \in 1 .. Len(D) /\ D[j].parent \in 1 .. Len(D)
      BY <1>1
<1> DEFINE L == {Label(D, k) : k \in 1 .. Len(D)}
           s == ScopePath(D)[D[i].parent]
           t == ScopePath(D)[D[j].parent]
<1>3. Append(s, Label(D, i)) = Append(t, Label(D, j)) /\ s \in Seq(L) /\ t \in Seq(L)
      BY <1>2, PathUnfold DEF SameScope
<1>4. i \in 1 .. Len(D) /\ j \in 1 .. Len(D)
      BY <1>1
<1>5. Label(D, i) \in L /\ Label(D, j) \in L
      BY <1>4
<1> HIDE DEF L, s, t
<1>6. Label(D, i) = Label(D, j)
      BY <1>3, <1>5
<1>7. i \in Nat \ {0} /\ j \in Nat \ {0}
      BY <1>1
<1>8. QED
      BY <1>6, <1>7 DEF Label

LEMMA LeastOf ==
    ASSUME NEW S \in SUBSET Nat, S # {}
    PROVE  Min(S) \in S /\ \A m \in S : Min(S) <= m
<1>1. \E n \in S : \A m \in S : n <= m
      BY LeastNumber
<1>2. QED
      BY <1>1 DEF Min

LEMMA ContextThere ==
    ASSUME NEW D, Rooted(D), NEW n \in DOMAIN D, Walked(D)[n]
    PROVE  ContextOf(D, n) \in DOMAIN D
<1> DEFINE S == {m \in DOMAIN D : SameScope(D, m, n) /\ Walked(D)[m]}
<1>1. S \in SUBSET Nat /\ n \in S /\ S \subseteq DOMAIN D
      BY RootedDomain DEF SameScope
<1> HIDE DEF S
<1>2. Min(S) \in DOMAIN D
      BY <1>1, LeastOf
<1>3. QED
      BY <1>2 DEF ContextOf, S

LEMMA FilesInProgram ==
    ASSUME NEW D, Rooted(D)
    PROVE  OfFiles(D) \subseteq 2 .. Len(D) /\ \A i \in OfFiles(D) : \A j \in 2 .. i : j \in OfFiles(D)
<1>1. Len(NativeTypes) = 4
      BY DEF NativeTypes
<1>2. Len(D) \in Nat
      BY RootedDomain
<1>3. QED
      BY <1>1, <1>2 DEF OfFiles

-----------------------------------------------------------------------------
(* The walk *)

\* met are the definitions that the walk has come to, opens the scopes it is in: all that
\* it leaves behind is met.
Progress(D, w, met, opens) ==
    /\ met \subseteq OfFiles(D) /\ \A i \in met : Walked(D)[i]
    /\ opens \subseteq met \cup {1} /\ 1 \in opens /\ w.in \in opens /\ w.after \in Nat
    /\ \A n \in opens : n # w.in => \E c \in opens \ {1} : D[c].parent = n
    /\ \A n \in opens \ {1} : D[n].parent \in opens /\ D[n].kind \in {"Class", "Namespace"}
    /\ \A m, n \in opens \ {1} : D[m].parent = D[n].parent => m = n
    /\ \A n \in (met \cup {1}) \ opens : ToVisit(D, n) \subseteq met
    /\ \A i \in ToVisit(D, w.in) : i <= w.after => i \in met
    /\ \A c \in opens \ {1} : \A i \in ToVisit(D, D[c].parent) : i <= c => i \in met

LEMMA Innermost ==
    ASSUME NEW D, Rooted(D), NEW w, NEW met, NEW opens, Progress(D, w, met, opens)
    PROVE  \A n \in opens : n \in 1 .. Len(D) /\ n <= w.in
<1>1. Len(D) \in Nat /\ opens \in SUBSET (1 .. Len(D)) /\ opens # {}
      BY RootedDomain, FilesInProgram DEF Progress
<1>2. PICK g \in opens : \A n \in opens : n <= g
  <2> DEFINE S == {Len(D) - n : n \in opens}
  <2>1. S \in SUBSET Nat /\ S # {}
    <3>1. \A n \in 1 .. Len(D) : Len(D) - n \in Nat
          BY <1>1
    <3>2. \A n \in opens : n \in 1 .. Len(D)
          BY <1>1
    <3>3. \A n \in opens : Len(D) - n \in Nat
          BY <3>1, <3>2
    <3>4. QED
          BY <1>1, <3>3
  <2> HIDE DEF S
  <2>2. PICK s \in S : \A t \in S : s <= t
        BY <2>1, LeastNumber
  <2>3. PICK g \in opens : s = Len(D) - g
        BY <2>2 DEF S
  <2>4. ASSUME NEW n \in opens PROVE n <= g
    <3>1. Len(D) - g <= Len(D) - n
          BY <2>2, <2>3 DEF S
    <3>2. g \in Nat /\ n \in Nat
          BY <1>1
    <3>3. QED
          BY <1>1, <3>1, <3>2
  <2>5. QED
        BY <2>4
<1>3. g = w.in
  <2> SUFFICES ASSUME g # w.in PROVE FALSE
      OBVIOUS
  <2>1. PICK c \in opens \ {1} : D[c].parent = g
        BY <1>2 DEF Progress
  <2>2. c \in 2 .. Len(D)
        BY <1>1, <2>1
  <2>3. g \in 1 .. c - 1
        BY <2>1, <2>2 DEF Rooted
  <2>4. c <= g
        BY <1>2, <2>1
  <2>5. QED
        BY <2>2, <2>3, <2>4
<1>4. QED
      BY <1>1, <1>2, <1>3

\* What a step of the walk has to do with the numbers of the definitions.
LEMMA VisitFacts ==
    ASSUME NEW D, Rooted(D), NEW w, NEW met, NEW opens, Progress(D, w, met, opens),
           Remaining(D, w) # {}, NEW i, i = Min(Remaining(D, w))
    PROVE  /\ i \in OfFiles(D) /\ i \in 2 .. Len(D) /\ Visited(D[i]) /\ D[i].parent = w.in
           /\ w.in \in DOMAIN D /\ w.in < i /\ Walked(D)[i] /\ Walked(D)[w.in]
           /\ D[w.in].kind \in {"Class", "Namespace"}
           /\ \A j \in ToVisit(D, w.in) : j <= i => j \in met \cup {i}
<1>1. Len(D) \in Nat /\ DOMAIN D = 1 .. Len(D) /\ OfFiles(D) \in SUBSET (2 .. Len(D))
      BY RootedDomain, FilesInProgram
<1>2. Remaining(D, w) \in SUBSET Nat
      BY <1>1 DEF Remaining, ToVisit
<1>3. i \in Remaining(D, w) /\ \A j \in Remaining(D, w) : i <= j
      BY <1>2, LeastOf
<1>4. i \in OfFiles(D) /\ i \in 2 .. Len(D) /\ Visited(D[i]) /\ D[i].parent = w.in
      BY <1>1, <1>3 DEF Remaining, ToVisit
<1>5. w.in \in 1 .. i - 1 /\ D[w.in].kind \in {"Class", "Namespace"}
      BY <1>4 DEF Rooted
<1>6. w.in \in DOMAIN D /\ w.in < i /\ i \in DOMAIN D
      BY <1>1, <1>4, <1>5
<1>7. Walked(D)[w.in]
  <2>1. w.in \in met \/ w.in = 1
        BY DEF Progress
  <2>2. QED
        BY <1>6, <2>1, WalkedUnfold DEF Progress
<1>8. Walked(D)[i]
      BY <1>4, <1>6, <1>7, WalkedUnfold
<1>9. ASSUME NEW j \in ToVisit(D, w.in), j <= i PROVE j \in met \cup {i}
  <2>1. CASE j > w.after
    <3>1. j \in Remaining(D, w)
          BY <1>9, <2>1 DEF Remaining
    <3>2. i <= j /\ j \in Nat
          BY <1>2, <1>3, <3>1
    <3>3. QED
          BY <1>4, <1>9, <3>2
  <2>2. CASE ~(j > w.after)
    <3>1. (j <= w.after => j \in met) /\ w.after \in Nat
          BY <1>9 DEF Progress
    <3>2. j \in Nat
          BY <1>1, <1>9 DEF ToVisit
    <3>3. QED
          BY <2>2, <3>1, <3>2
  <2>3. QED
        BY <2>1, <2>2
<1>10. QED
       BY <1>4, <1>5, <1>6, <1>7, <1>8, <1>9

LEMMA OnwardProgress ==
    ASSUME NEW D, Rooted(D), NEW w, NEW met, NEW opens, Progress(D, w, met, opens),
           Remaining(D, w) # {}, NEW i, i = Min(Remaining(D, w))
    PROVE  \E o : Progress(D, Onward(D, w, i), met \cup {i}, o)
<1>1. /\ i \in OfFiles(D) /\ i \in 2 .. Len(D) /\ Visited(D[i]) /\ D[i].parent = w.in
      /\ w.in \in DOMAIN D /\ w.in < i /\ Walked(D)[i] /\ Walked(D)[w.in]
      /\ D[w.in].kind \in {"Class", "Namespace"}
      /\ \A j \in ToVisit(D, w.in) : j <= i => j \in met \cup {i}
      BY VisitFacts
<1>2. Len(D) \in Nat /\ DOMAIN D = 1 .. Len(D) /\ OfFiles(D) \in SUBSET (2 .. Len(D))
      BY RootedDomain, FilesInProgram
<1>3. \A n \in opens : n \in 1 .. Len(D) /\ n <= w.in
      BY Innermost
<1>4. i \in Nat /\ i # 1 /\ i \notin opens
  <2>1. ~(i <= w.in)
        BY <1>1, <1>2
  <2>2. QED
        BY <1>1, <1>2, <1>3, <2>1
<1>5. CASE D[i].kind \in {"Class", "Namespace"}
  <2> DEFINE v == [in |-> i, after |-> i]
             m2 == met \cup {i}
             o2 == opens \cup {i}
  <2>1. v.in = i /\ v.after = i
        OBVIOUS
  <2> HIDE DEF v
  <2>2. /\ m2 \subseteq OfFiles(D) /\ \A n \in m2 : Walked(D)[n]
        /\ o2 \subseteq m2 \cup {1} /\ 1 \in o2 /\ v.in \in o2 /\ v.after \in Nat
        BY <1>1, <1>4, <2>1 DEF Progress
  <2>3. \A n \in o2 : n # v.in => \E c \in o2 \ {1} : D[c].parent = n
    <3>1. ASSUME NEW n \in opens, n # w.in PROVE \E c \in o2 \ {1} : D[c].parent = n
          BY <3>1 DEF Progress
    <3>2. \E c \in o2 \ {1} : D[c].parent = w.in
          BY <1>1, <1>4
    <3>3. QED
          BY <2>1, <3>1, <3>2
  <2>4. \A n \in o2 \ {1} : D[n].parent \in o2 /\ D[n].kind \in {"Class", "Namespace"}
        BY <1>1, <1>5 DEF Progress
  <2>5. ASSUME NEW m \in o2 \ {1}, NEW n \in o2 \ {1}, D[m].parent = D[n].parent PROVE m = n
    <3>1. ASSUME NEW c \in opens \ {1} PROVE D[c].parent # w.in
      <4>1. c \in 2 .. Len(D) /\ c <= w.in
            BY <1>2, <1>3, <3>1
      <4>2. D[c].parent \in 1 .. c - 1
            BY <4>1 DEF Rooted
      <4>3. QED
            BY <1>2, <4>1, <4>2
    <3>2. QED
          BY <1>1, <2>5, <3>1 DEF Progress
  <2>6. \A n \in (m2 \cup {1}) \ o2 : ToVisit(D, n) \subseteq m2
        BY DEF Progress
  <2>7. \A j \in ToVisit(D, v.in) : j <= v.after => j \in m2
    <3>1. ASSUME NEW j \in ToVisit(D, i) PROVE ~(j <= i)
      <4>1. j \in 2 .. Len(D) /\ D[j].parent = i
            BY <1>2 DEF ToVisit
      <4>2. i \in 1 .. j - 1
            BY <4>1 DEF Rooted
      <4>3. QED
            BY <1>2, <4>1, <4>2
    <3>2. QED
          BY <2>1, <3>1
  <2>8. ASSUME NEW c \in o2 \ {1}, NEW j \in ToVisit(D, D[c].parent), j <= c PROVE j \in m2
    <3>1. CASE c = i
          BY <1>1, <2>8, <3>1
    <3>2. CASE c # i
          BY <2>8, <3>2 DEF Progress
    <3>3. QED
          BY <3>1, <3>2
  <2> HIDE DEF m2, o2
  <2>9. Progress(D, v, m2, o2)
        BY <2>2, <2>3, <2>4, <2>5, <2>6, <2>7, <2>8 DEF Progress
  <2>10. Onward(D, w, i) = v
        BY <1>5 DEF Onward, v
  <2>11. QED
        BY <2>9, <2>10 DEF m2
<1>6. CASE D[i].kind \notin {"Class", "Namespace"}
  <2> DEFINE v == [in |-> w.in, after |-> i]
             m2 == met \cup {i}
  <2>1. v.in = w.in /\ v.after = i
        OBVIOUS
  <2> HIDE DEF v
  <2>2. /\ m2 \subseteq OfFiles(D) /\ \A n \in m2 : Walked(D)[n]
        /\ opens \subseteq m2 \cup {1} /\ 1 \in opens /\ v.in \in opens /\ v.after \in Nat
        BY <1>1, <1>4, <2>1 DEF Progress
  <2>3. \A n \in opens : n # v.in => \E c \in opens \ {1} : D[c].parent = n
        BY <2>1 DEF Progress
  <2>4. /\ \A n \in opens \ {1} : D[n].parent \in opens /\ D[n].kind \in {"Class", "Namespace"}
        /\ \A m, n \in opens \ {1} : D[m].parent = D[n].parent => m = n
        BY DEF Progress
  <2>5. ASSUME NEW n \in (m2 \cup {1}) \ opens PROVE ToVisit(D, n) \subseteq m2
    <3>1. CASE n = i
      <4>1. ASSUME NEW j \in ToVisit(D, i) PROVE FALSE
        <5>1. j \in 2 .. Len(D) /\ D[j].parent = i
              BY <1>2 DEF ToVisit
        <5>2. D[i].kind \in {"Class", "Namespace"}
              BY <5>1 DEF Rooted
        <5>3. QED
              BY <1>6, <5>2
      <4>2. QED
            BY <3>1, <4>1
    <3>2. CASE n # i
          BY <2>5, <3>2 DEF Progress
    <3>3. QED
          BY <3>1, <3>2
  <2>6. \A j \in ToVisit(D, v.in) : j <= v.after => j \in m2
        BY <1>1, <2>1
  <2>7. \A c \in opens \ {1} : \A j \in ToVisit(D, D[c].parent) : j <= c => j \in m2
        BY DEF Progress
  <2> HIDE DEF m2
  <2>8. Progress(D, v, m2, opens)
        BY <2>2, <2>3, <2>4, <2>5, <2>6, <2>7 DEF Progress
  <2>9. Onward(D, w, i) = v
        BY <1>6 DEF Onward, v
  <2>10. QED
        BY <2>8, <2>9 DEF m2
<1>7. QED
      BY <1>5, <1>6

LEMMA UpwardProgress ==
    ASSUME NEW D, Rooted(D), NEW w, NEW met, NEW opens, Progress(D, w, met, opens),
           Remaining(D, w) = {}, w.in # 1
    PROVE  Progress(D, Upward(D, w), met, opens \ {w.in})
<1>1. Len(D) \in Nat /\ DOMAIN D = 1 .. Len(D) /\ OfFiles(D) \in SUBSET (2 .. Len(D))
      BY RootedDomain, FilesInProgram
<1>2. \A n \in opens : n \in 1 .. Len(D) /\ n <= w.in
      BY Innermost
<1> DEFINE k == w.in
           p == D[k].parent
           v == [in |-> p, after |-> k]
           o2 == opens \ {k}
<1>3. k \in opens /\ k \in 2 .. Len(D) /\ k # 1 /\ p \in 1 .. k - 1 /\ p # k /\ k \in Nat
  <2>1. k \in opens /\ k \in 2 .. Len(D) /\ k # 1
        BY <1>1, <1>2 DEF Progress
  <2>2. p \in 1 .. k - 1
        BY <2>1 DEF Rooted
  <2>3. QED
        BY <1>1, <2>1, <2>2
<1>4. v.in = p /\ v.after = k
      OBVIOUS
<1> HIDE DEF v
<1>5. p \in opens /\ p \in o2
      BY <1>3 DEF Progress
<1>6. /\ met \subseteq OfFiles(D) /\ \A n \in met : Walked(D)[n]
      /\ o2 \subseteq met \cup {1} /\ 1 \in o2 /\ v.in \in o2 /\ v.after \in Nat
      BY <1>3, <1>4, <1>5 DEF Progress
<1>7. \A n \in o2 : n # v.in => \E c \in o2 \ {1} : D[c].parent = n
      BY <1>4 DEF Progress
<1>8. ASSUME NEW n \in o2 \ {1} PROVE D[n].parent \in o2 /\ D[n].kind \in {"Class", "Namespace"}
  <2>1. D[n].parent \in opens /\ D[n].kind \in {"Class", "Namespace"}
        BY <1>8 DEF Progress
  <2>2. D[n].parent # k
    <3>1. n \in 2 .. Len(D) /\ n <= k
          BY <1>1, <1>2, <1>8
    <3>2. D[n].parent \in 1 .. n - 1
          BY <3>1 DEF Rooted
    <3>3. QED
          BY <1>1, <1>3, <3>1, <3>2
  <2>3. QED
        BY <2>1, <2>2
<1>9. \A m, n \in o2 \ {1} : D[m].parent = D[n].parent => m = n
      BY DEF Progress
<1>10. ASSUME NEW n \in (met \cup {1}) \ o2 PROVE ToVisit(D, n) \subseteq met
  <2>1. CASE n = k
    <3>1. ASSUME NEW j \in ToVisit(D, k) PROVE j \in met
      <4>1. j \in Nat /\ w.after \in Nat /\ ~(j > w.after)
        <5>1. j \in Nat /\ w.after \in Nat
              BY <1>1 DEF ToVisit, Progress
        <5>2. QED
              BY <5>1, <3>1 DEF Remaining
      <4>2. j <= w.after
            BY <4>1
      <4>3. QED
            BY <3>1, <4>2 DEF Progress
    <3>2. QED
          BY <2>1, <3>1
  <2>2. CASE n # k
        BY <1>10, <2>2 DEF Progress
  <2>3. QED
        BY <2>1, <2>2
<1>11. \A j \in ToVisit(D, v.in) : j <= v.after => j \in met
      BY <1>3, <1>4 DEF Progress
<1>12. \A c \in o2 \ {1} : \A j \in ToVisit(D, D[c].parent) : j <= c => j \in met
      BY DEF Progress
<1>13. Upward(D, w) = v
      BY DEF Upward, v
<1> HIDE DEF o2
<1>14. Progress(D, v, met, o2)
      BY <1>6, <1>7, <1>8, <1>9, <1>10, <1>11, <1>12 DEF Progress
<1>15. QED
      BY <1>13, <1>14 DEF o2

\* When the walk ends it has come to all that it could.
LEMMA WalkEnds ==
    ASSUME NEW D, Rooted(D), NEW w, NEW met, NEW opens, Progress(D, w, met, opens),
           Remaining(D, w) = {}, w.in = 1
    PROVE  \A i \in OfFiles(D) : Walked(D)[i] => i \in met
<1>1. Len(D) \in Nat /\ DOMAIN D = 1 .. Len(D) /\ OfFiles(D) \in SUBSET (2 .. Len(D))
      BY RootedDomain, FilesInProgram
<1>2. opens = {1}
  <2>1. \A n \in opens : n \in 1 .. Len(D) /\ n <= 1
        BY Innermost
  <2>2. QED
        BY <1>1, <2>1 DEF Progress
<1>3. ASSUME NEW n \in met \cup {1} PROVE ToVisit(D, n) \subseteq met
  <2>1. CASE n = 1
    <3>1. ASSUME NEW j \in ToVisit(D, 1) PROVE j \in met
      <4>1. j \in Nat /\ w.after \in Nat /\ ~(j > w.after)
        <5>1. j \in Nat /\ w.after \in Nat
              BY <1>1 DEF ToVisit, Progress
        <5>2. QED
              BY <5>1, <3>1 DEF Remaining
      <4>2. j <= w.after
            BY <4>1
      <4>3. QED
            BY <3>1, <4>2 DEF Progress
    <3>2. QED
          BY <2>1, <3>1
  <2>2. CASE n # 1
        BY <1>2, <1>3, <2>2 DEF Progress
  <2>3. QED
        BY <2>1, <2>2
<1> DEFINE Bad == {i \in OfFiles(D) : Walked(D)[i] /\ i \notin met}
<1>4. Bad = {}
  <2> SUFFICES ASSUME Bad # {} PROVE FALSE
      OBVIOUS
  <2>1. Bad \in SUBSET Nat
        BY <1>1
  <2>2. PICK i \in Bad : \A j \in Bad : i <= j
    <3> HIDE DEF Bad
    <3> QED
        BY <2>1, LeastNumber
  <2>3. i \in OfFiles(D) /\ i \in 2 .. Len(D) /\ i \in DOMAIN D /\ i # 1
        BY <1>1, <2>2
  <2> DEFINE p == D[i].parent
  <2>4. p \in 1 .. i - 1
        BY <2>3 DEF Rooted
  <2>5. Visited(D[i]) /\ Walked(D)[p]
        BY <2>2, <2>3, WalkedUnfold
  <2>6. i \in ToVisit(D, p)
        BY <2>3, <2>5 DEF ToVisit
  <2>7. p \in met \cup {1}
    <3>1. CASE p = 1
          BY <3>1
    <3>2. CASE p # 1
      <4>1. p \in 2 .. i /\ ~(i <= p)
            BY <1>1, <2>3, <2>4, <3>2
      <4>2. p \in OfFiles(D) /\ p \notin Bad
            BY <2>2, <2>3, <4>1, FilesInProgram
      <4>3. QED
            BY <2>5, <4>2
    <3>3. QED
          BY <3>1, <3>2
  <2>8. QED
        BY <1>3, <2>2, <2>6, <2>7
<1>5. QED
      BY <1>4

-----------------------------------------------------------------------------
(* The tables *)

Listed == {"Class", "Enum", "Variable", "Function", "Constructor"}

\* What is noted of the definitions met: each in the context of its scope, a namespace once.
Tabled(D, t, met) ==
    /\ DOMAIN t = DOMAIN D
    /\ \A n \in DOMAIN D : DOMAIN t[n] = Sorts /\ \A sort \in Sorts : t[n][sort] \in Seq(met)
    /\ \A n \in DOMAIN D : \A sort \in Sorts : \A i \in Range(t[n][sort]) :
           n = ContextOf(D, D[i].parent) /\ sort = Sort(D, i)
    /\ \A i \in met : D[i].kind \in Listed =>
           i \in Range(t[ContextOf(D, D[i].parent)][Sort(D, i)])
    /\ \A i \in met : D[i].kind = "Namespace" =>
           \E j \in Range(t[ContextOf(D, D[i].parent)].namespaces) : SameScope(D, j, i)
    /\ \A n \in DOMAIN D : \A i, j \in Range(t[n].namespaces) : SameScope(D, i, j) => i = j

LEMMA SortsOfKinds ==
    ASSUME NEW D, NEW i
    PROVE  /\ Sort(D, i) \in Sorts
           /\ D[i].kind = "Namespace" => Sort(D, i) = "namespaces"
BY DEF Sort, Sorts

LEMMA NothingTabled ==
    ASSUME NEW D PROVE Tabled(D, NoNotes(D), {})
<1>1. ASSUME NEW n \in DOMAIN D
      PROVE  /\ DOMAIN NoNotes(D)[n] = Sorts
             /\ \A sort \in Sorts : NoNotes(D)[n][sort] = <<>> /\ Range(NoNotes(D)[n][sort]) = {}
  <2>1. NoNotes(D)[n] = [sort \in Sorts |-> <<>>]
        BY DEF NoNotes
  <2>2. Range(<<>>) = {}
        BY DEF Range
  <2>3. QED
        BY <2>1, <2>2
<1>2. DOMAIN NoNotes(D) = DOMAIN D
      BY DEF NoNotes
<1> DEFINE t == NoNotes(D)
<1> HIDE DEF t
<1>3. ASSUME NEW n \in DOMAIN D
      PROVE  /\ DOMAIN t[n] = Sorts
             /\ \A sort \in Sorts : t[n][sort] \in Seq({}) /\ Range(t[n][sort]) = {}
             /\ Range(t[n].namespaces) = {}
  <2>1. /\ DOMAIN t[n] = Sorts
        /\ \A sort \in Sorts : t[n][sort] = <<>> /\ Range(t[n][sort]) = {}
        BY <1>1 DEF t
  <2>2. <<>> \in Seq({}) /\ "namespaces" \in Sorts
        BY DEF Sorts
  <2>3. QED
        BY <2>1, <2>2
<1>4. DOMAIN t = DOMAIN D
      BY <1>2 DEF t
<1>5. Tabled(D, t, {})
      BY <1>3, <1>4 DEF Tabled
<1>6. QED
      BY <1>5 DEF t

ListOf(q, S) == q \in Seq(S)
Lengthens(q, x, T) ==
    q \in Seq(T) /\ Append(q, x) \in Seq(T) /\ Range(Append(q, x)) = Range(q) \cup {x}

LEMMA Appended ==
    ASSUME NEW S, NEW T, S \subseteq T, NEW q, ListOf(q, S), NEW x, x \in T
    PROVE  Lengthens(q, x, T)
<1>1. q \in Seq(T)
      BY DEF ListOf
<1> DEFINE r == Append(q, x)
<1>2. /\ r \in Seq(T) /\ Len(q) \in Nat /\ DOMAIN q = 1 .. Len(q)
      /\ DOMAIN r = 1 .. Len(q) + 1
      /\ \A k \in 1 .. Len(q) : r[k] = q[k]
      /\ r[Len(q) + 1] = x
      BY <1>1
<1>3. 1 .. Len(q) + 1 = 1 .. Len(q) \cup {Len(q) + 1}
      BY <1>2
<1> HIDE DEF r
<1>4. Range(r) = Range(q) \cup {x}
      BY <1>2, <1>3 DEF Range
<1>5. QED
      BY <1>1, <1>2, <1>4 DEF Lengthens, r

LEMMA NoteTables ==
    ASSUME NEW t, NEW c \in DOMAIN t, NEW s \in DOMAIN t[c], NEW i
    PROVE  /\ DOMAIN Note(t, c, s, i) = DOMAIN t
           /\ \A n \in DOMAIN t :
                  /\ DOMAIN Note(t, c, s, i)[n] = DOMAIN t[n]
                  /\ \A sort \in DOMAIN t[n] :
                         Note(t, c, s, i)[n][sort] =
                             IF n = c /\ sort = s THEN Append(t[c][s], i) ELSE t[n][sort]
BY DEF Note

LEMMA OuterContext ==
    ASSUME NEW D, Rooted(D), NEW i \in 2 .. Len(D), Walked(D)[i]
    PROVE  /\ i \in DOMAIN D /\ i # 1 /\ Visited(D[i])
           /\ D[i].parent \in DOMAIN D /\ Walked(D)[D[i].parent]
           /\ ContextOf(D, D[i].parent) \in DOMAIN D
<1>1. D[i].parent \in 1 .. i - 1 /\ Len(D) \in Nat /\ DOMAIN D = 1 .. Len(D)
      BY RootedDomain DEF Rooted
<1>2. D[i].parent \in DOMAIN D /\ i \in DOMAIN D /\ i # 1
      BY <1>1
<1>3. Visited(D[i]) /\ Walked(D)[D[i].parent]
      BY <1>2, WalkedUnfold
<1>4. QED
      BY <1>2, <1>3, ContextThere

LEMMA NotedTabled ==
    ASSUME NEW D, Rooted(D), NEW t, NEW met, Tabled(D, t, met),
           met \subseteq 2 .. Len(D), \A j \in met : Walked(D)[j],
           NEW i \in 2 .. Len(D), Walked(D)[i]
    PROVE  Tabled(D, Noted(D, t, i), met \cup {i})
<1> DEFINE c == ContextOf(D, D[i].parent)
           s == Sort(D, i)
           m2 == met \cup {i}
           u == Noted(D, t, i)
<1>1. c \in DOMAIN D /\ s \in Sorts /\ "namespaces" \in Sorts
      BY OuterContext, SortsOfKinds DEF Sorts
<1>2. DOMAIN t = DOMAIN D /\ \A n \in DOMAIN D : DOMAIN t[n] = Sorts
      BY DEF Tabled
<1>3. ASSUME NEW n \in DOMAIN D, NEW sort \in Sorts
      PROVE  /\ t[n][sort] \in Seq(m2)
             /\ Append(t[n][sort], i) \in Seq(m2)
             /\ Range(Append(t[n][sort], i)) = Range(t[n][sort]) \cup {i}
             /\ Range(t[n][sort]) \subseteq met
  <2> DEFINE q == t[n][sort]
  <2>1. q \in Seq(met) /\ met \in SUBSET m2 /\ i \in m2
        BY DEF Tabled
  <2> HIDE DEF m2, q
  <2>2. Range(q) \subseteq met
        BY <2>1 DEF Range
  <2>3. ListOf(q, met) /\ met \subseteq m2
        BY <2>1 DEF ListOf
  <2>4. Lengthens(q, i, m2)
        BY <2>1, <2>3, Appended
  <2>5. QED
        BY <2>2, <2>4 DEF q, Lengthens
<1> DEFINE known == \E k \in DOMAIN t[c].namespaces : SameScope(D, t[c].namespaces[k], i)
<1>4. CASE D[i].kind \in {"Callback", "Destructor"} \/ (D[i].kind = "Namespace" /\ known)
  <2>1. u = t
        BY <1>4 DEF Noted
  <2>2. D[i].kind \notin Listed
        BY <1>4 DEF Listed
  <2>3. D[i].kind = "Namespace" => \E j \in Range(t[c].namespaces) : SameScope(D, j, i)
        BY <1>4 DEF Range
  <2>4. Tabled(D, t, m2)
    <3>1. \A n \in DOMAIN D : DOMAIN t[n] = Sorts /\ \A sort \in Sorts : t[n][sort] \in Seq(m2)
          BY <1>2, <1>3
    <3>2. /\ \A j \in m2 : D[j].kind \in Listed =>
                 j \in Range(t[ContextOf(D, D[j].parent)][Sort(D, j)])
          /\ \A j \in m2 : D[j].kind = "Namespace" =>
                 \E k \in Range(t[ContextOf(D, D[j].parent)].namespaces) : SameScope(D, k, j)
          BY <2>2, <2>3 DEF Tabled
    <3> HIDE DEF m2
    <3>3. QED
          BY <3>1, <3>2 DEF Tabled
  <2>5. QED
        BY <2>1, <2>4
<1>5. CASE ~(D[i].kind \in {"Callback", "Destructor"} \/ (D[i].kind = "Namespace" /\ known))
  <2>1. u = Note(t, c, s, i)
        BY <1>5 DEF Noted
  <2> HIDE DEF u, c, s, m2
  <2>2. /\ DOMAIN u = DOMAIN D
        /\ \A n \in DOMAIN D :
               /\ DOMAIN u[n] = Sorts
               /\ \A sort \in Sorts :
                      u[n][sort] = IF n = c /\ sort = s THEN Append(t[c][s], i) ELSE t[n][sort]
        BY <1>1, <1>2, <2>1, NoteTables
  <2>3. ASSUME NEW n \in DOMAIN D, NEW sort \in Sorts
        PROVE  /\ u[n][sort] \in Seq(m2)
               /\ Range(u[n][sort]) = IF n = c /\ sort = s THEN Range(t[n][sort]) \cup {i}
                                       ELSE Range(t[n][sort])
    <3>1. CASE n = c /\ sort = s
      <4>1. u[n][sort] = Append(t[n][sort], i)
            BY <2>2, <3>1
      <4>2. QED
            BY <1>3, <3>1, <4>1
    <3>2. CASE ~(n = c /\ sort = s)
      <4>1. u[n][sort] = t[n][sort]
            BY <2>2, <3>2
      <4>2. QED
            BY <1>3, <3>2, <4>1
    <3>3. QED
          BY <3>1, <3>2
  <2>4. ASSUME NEW n \in DOMAIN D, NEW sort \in Sorts, NEW j \in Range(u[n][sort])
        PROVE  n = ContextOf(D, D[j].parent) /\ sort = Sort(D, j)
    <3>1. CASE j \in Range(t[n][sort])
          BY <3>1 DEF Tabled
    <3>2. CASE j \notin Range(t[n][sort])
      <4>1. j = i /\ n = c /\ sort = s
            BY <2>3, <3>2
      <4>2. QED
            BY <4>1 DEF c, s
    <3>3. QED
          BY <3>1, <3>2
  <2>5. ASSUME NEW j \in m2, D[j].kind \in Listed
        PROVE  j \in Range(u[ContextOf(D, D[j].parent)][Sort(D, j)])
    <3>1. CASE j = i
          BY <1>1, <2>3, <3>1 DEF c, s
    <3>2. CASE j # i
      <4>1. j \in met /\ j \in Range(t[ContextOf(D, D[j].parent)][Sort(D, j)])
            BY <2>5, <3>2 DEF m2, Tabled
      <4>2. ContextOf(D, D[j].parent) \in DOMAIN D /\ Sort(D, j) \in Sorts
        <5>1. j \in 2 .. Len(D) /\ Walked(D)[j]
              BY <4>1
        <5>2. QED
              BY <5>1, OuterContext, SortsOfKinds
      <4>3. QED
            BY <2>3, <4>1, <4>2
    <3>3. QED
          BY <3>1, <3>2
  <2>6. ASSUME NEW j \in m2, D[j].kind = "Namespace"
        PROVE  \E k \in Range(u[ContextOf(D, D[j].parent)].namespaces) : SameScope(D, k, j)
    <3>1. CASE j = i
      <4>1. s = "namespaces"
            BY <2>6, <3>1, SortsOfKinds DEF s
      <4>2. i \in Range(u[c]["namespaces"])
            BY <1>1, <2>3, <4>1
      <4>3. SameScope(D, i, i)
            BY DEF SameScope
      <4>4. QED
            BY <3>1, <4>2, <4>3 DEF c
    <3>2. CASE j # i
      <4>1. /\ j \in met
            /\ \E k \in Range(t[ContextOf(D, D[j].parent)].namespaces) : SameScope(D, k, j)
            BY <2>6, <3>2 DEF m2, Tabled
      <4>2. j \in 2 .. Len(D) /\ Walked(D)[j]
            BY <4>1
      <4>3. ContextOf(D, D[j].parent) \in DOMAIN D
            BY <4>2, OuterContext
      <4> DEFINE x == ContextOf(D, D[j].parent)
      <4> HIDE DEF x
      <4>4. Range(t[x]["namespaces"]) \subseteq Range(u[x]["namespaces"])
            BY <1>1, <2>3, <4>3 DEF x
      <4>5. QED
            BY <4>1, <4>4 DEF x
    <3>3. QED
          BY <3>1, <3>2
  <2>7. ASSUME NEW n \in DOMAIN D, NEW j \in Range(u[n].namespaces), NEW k \in Range(u[n].namespaces),
               SameScope(D, j, k)
        PROVE  j = k
    <3>1. /\ j \in Range(t[n].namespaces) \/ (j = i /\ n = c /\ s = "namespaces")
          /\ k \in Range(t[n].namespaces) \/ (k = i /\ n = c /\ s = "namespaces")
          BY <1>1, <2>3, <2>7
    <3>2. ASSUME NEW x \in Range(t[c].namespaces), SameScope(D, x, i), s = "namespaces" PROVE x = i
      <4>1. x \in 2 .. Len(D)
            BY <1>1, <1>3, <3>2
      <4>2. x = i \/ D[i].kind = "Namespace"
            BY <3>2, <4>1, SharedScope
      <4>3. D[i].kind # "Namespace"
        <5>1. known
              BY <3>2 DEF Range
        <5>2. QED
              BY <1>5, <5>1
      <4>4. QED
            BY <4>2, <4>3
    <3>3. \A x, y : SameScope(D, x, y) => SameScope(D, y, x)
          BY DEF SameScope
    <3>4. QED
          BY <2>7, <3>1, <3>2, <3>3 DEF Tabled
  <2>8. \A n \in DOMAIN D : DOMAIN u[n] = Sorts /\ \A sort \in Sorts : u[n][sort] \in Seq(m2)
        BY <2>2, <2>3
  <2>9. Tabled(D, u, m2)
        BY <2>2, <2>4, <2>5, <2>6, <2>7, <2>8 DEF Tabled
  <2>10. QED
         BY <2>9 DEF u, m2
<1>6. QED
      BY <1>4, <1>5

-----------------------------------------------------------------------------
(* The glue that is written *)

Silent == {"Typedef", "Typename", "Verbatim"}

\* The walk comes to what is for scripts, except for the kinds that nothing is written for.
LEMMA WalkedIsShown ==
    ASSUME Rooted(program)
    PROVE  \A i \in DOMAIN program :
               Walked(program)[i] <=> (Shown[i] /\ (i = 1 \/ program[i].kind \notin Silent))
<1> DEFINE Agrees(i) == Walked(program)[i] <=> (Shown[i] /\ (i = 1 \/ program[i].kind \notin Silent))
           Bad == {i \in DOMAIN program : ~Agrees(i)}
<1>1. Len(program) \in Nat /\ DOMAIN program = 1 .. Len(program)
      BY RootedDomain
<1>2. Bad = {}
  <2> SUFFICES ASSUME Bad # {} PROVE FALSE
      OBVIOUS
  <2>1. Bad \in SUBSET Nat
        BY <1>1
  <2>2. PICK i \in Bad : \A j \in Bad : i <= j
    <3> HIDE DEF Bad
    <3> QED
        BY <2>1, LeastNumber
  <2>3. i \in DOMAIN program
        BY <2>2
  <2>4. CASE i = 1
    <3>1. Walked(program)[i] /\ Shown[i]
          BY <2>3, <2>4, WalkedUnfold, ShownUnfold
    <3>2. QED
          BY <2>2, <2>4, <3>1
  <2>5. CASE i # 1
    <3> DEFINE p == program[i].parent
    <3>1. i \in 2 .. Len(program)
          BY <1>1, <2>3, <2>5
    <3>2. p \in 1 .. i - 1 /\ program[p].kind \in {"Class", "Namespace"}
          BY <3>1 DEF Rooted
    <3>3. p \in DOMAIN program /\ ~(i <= p)
          BY <1>1, <3>1, <3>2
    <3>4. Agrees(p)
      <4>1. p \notin Bad
            BY <2>2, <3>3
      <4>2. QED
            BY <3>3, <4>1
    <3>5. Walked(program)[p] <=> Shown[p]
          BY <3>2, <3>4 DEF Silent
    <3>6. Visited(program[i]) <=> (ShownHere(program[i]) /\ program[i].kind \notin Silent)
          BY DEF Visited, Hidden, ShownHere, Silent
    <3>7. /\ Walked(program)[i] <=> (Visited(program[i]) /\ Walked(program)[p])
          /\ Shown[i] <=> (ShownHere(program[i]) /\ Shown[p])
          BY <2>3, <2>5, WalkedUnfold, ShownUnfold
    <3>8. Agrees(i)
          BY <2>5, <3>5, <3>6, <3>7
    <3>9. QED
          BY <2>2, <3>8
  <2>6. QED
        BY <2>4, <2>5
<1>3. QED
      BY <1>2

Met == {i \in OfFiles(program) : Walked(program)[i]}

LEMMA MetPlaces ==
    ASSUME Rooted(program)
    PROVE  \A i \in Met : /\ i \in 2 .. Len(program) /\ i \in DOMAIN program /\ Walked(program)[i]
                          /\ Shown[i] /\ ContextOf(program, program[i].parent) \in DOMAIN program
BY FilesInProgram, OuterContext, WalkedIsShown DEF Met

LEMMA TablesHaveThePublic ==
    ASSUME Rooted(program), Tabled(program, notes, Met)
    PROVE  GlueHasThePublic
<1>1. /\ DOMAIN notes = DOMAIN program
      /\ \A n \in DOMAIN program : \A sort \in Sorts : \A i \in Range(notes[n][sort]) :
             /\ i \in Met
             /\ n = ContextOf(program, program[i].parent) /\ sort = Sort(program, i)
  <2>1. ASSUME NEW n \in DOMAIN program, NEW sort \in Sorts, NEW i \in Range(notes[n][sort])
        PROVE  i \in Met
    <3>1. notes[n][sort] \in Seq(Met)
          BY DEF Tabled
    <3>2. QED
          BY <3>1 DEF Range
  <2>2. QED
        BY <2>1 DEF Tabled
<1>2. \A n \in DOMAIN notes : \A i \in Entries(n) : Shown[i]
      BY <1>1, MetPlaces DEF Entries
<1>3. ASSUME NEW i \in OfFiles(program), Shown[i], program[i].kind \in Listed
      PROVE  {n \in DOMAIN notes : i \in Entries(n)} = {ContextOf(program, program[i].parent)}
  <2> DEFINE c == ContextOf(program, program[i].parent)
  <2>1. i \in Met
    <3>1. i \in DOMAIN program
          BY FilesInProgram, RootedDomain
    <3>2. program[i].kind \notin Silent
          BY <1>3 DEF Listed, Silent
    <3>3. QED
          BY <1>3, <3>1, <3>2, WalkedIsShown DEF Met
  <2>2. c \in DOMAIN notes /\ i \in Range(notes[c][Sort(program, i)]) /\ Sort(program, i) \in Sorts
        BY <1>1, <1>3, <2>1, MetPlaces, SortsOfKinds DEF Tabled
  <2>3. i \in Entries(c)
        BY <2>2 DEF Entries
  <2>4. \A n \in DOMAIN notes : i \in Entries(n) => n = c
        BY <1>1 DEF Entries
  <2>5. QED
        BY <2>2, <2>3, <2>4
<1>4. ASSUME NEW i \in OfFiles(program), Shown[i], program[i].kind = "Namespace"
      PROVE  Cardinality({j \in Entries(ContextOf(program, program[i].parent)) :
                              SameScope(program, i, j)}) = 1
  <2> DEFINE c == ContextOf(program, program[i].parent)
             S == {j \in Entries(c) : SameScope(program, i, j)}
  <2>1. i \in Met
    <3>1. i \in DOMAIN program
          BY FilesInProgram, RootedDomain
    <3>2. program[i].kind \notin Silent
          BY <1>4 DEF Silent
    <3>3. QED
          BY <1>4, <3>1, <3>2, WalkedIsShown DEF Met
  <2>2. c \in DOMAIN program /\ i \in 2 .. Len(program)
        BY <2>1, MetPlaces
  <2>3. PICK j \in Range(notes[c].namespaces) : SameScope(program, j, i)
        BY <1>4, <2>1 DEF Tabled
  <2>4. "namespaces" \in Sorts /\ SameScope(program, i, j)
        BY <2>3 DEF Sorts, SameScope
  <2>5. j \in S
        BY <2>3, <2>4 DEF Entries
  <2>6. ASSUME NEW k \in S PROVE k = j
    <3>1. PICK sort \in Sorts : k \in Range(notes[c][sort])
          BY <2>6 DEF Entries
    <3>2. k \in Met /\ sort = Sort(program, k) /\ SameScope(program, i, k)
          BY <1>1, <2>2, <2>6, <3>1
    <3>3. k \in 2 .. Len(program)
          BY <3>2, MetPlaces
    <3>4. program[k].kind = "Namespace"
          BY <1>4, <2>2, <3>2, <3>3, SharedScope
    <3>5. sort = "namespaces"
          BY <3>2, <3>4, SortsOfKinds
    <3>6. SameScope(program, j, k)
          BY <2>3, <3>2 DEF SameScope
    <3>7. QED
          BY <2>2, <2>3, <3>1, <3>5, <3>6 DEF Tabled
  <2>7. S = {j}
        BY <2>5, <2>6
  <2>8. QED
        BY <2>7, FS_Singleton
<1>5. QED
      BY <1>2, <1>3, <1>4 DEF GlueHasThePublic, Listed

\* What the members of a scope, and the inner scopes, ask for is included.
LEMMA NeedsAreIncluded ==
    ASSUME Rooted(program), Tabled(program, notes, Met),
           \A i \in Met : Needed(program, st, i) \subseteq needed,
           NeededInner(program, notes) \subseteq needed
    PROVE  GlueIncludesItsTypes
<1>1. ASSUME NEW n \in needed
      PROVE  program[FinalType(program, st, n.type).id].file \in FileIncludes(program, st, needed, n.file)
      BY DEF FileIncludes
<1>2. ASSUME NEW i \in OfFiles(program), Shown[i], program[i].kind \in Referring,
             NEW type \in Range(st.link[i])
      PROVE  program[FinalType(program, st, type).id].file
                 \in FileIncludes(program, st, needed, GlueFile(i))
  <2>1. i \in Met
    <3>1. i \in DOMAIN program
          BY FilesInProgram, RootedDomain
    <3>2. program[i].kind \notin Silent
          BY <1>2 DEF Referring, Silent
    <3>3. QED
          BY <1>2, <3>1, <3>2, WalkedIsShown DEF Met
  <2> DEFINE n == [file |-> GlueFile(i), type |-> type]
  <2>2. n \in Needed(program, st, i)
        BY <1>2 DEF Needed, GlueFile, Home, Tagged, Referring
  <2>3. n \in needed /\ n.file = GlueFile(i) /\ n.type = type
        BY <2>1, <2>2
  <2>4. QED
        BY <1>1, <2>3
<1>3. ASSUME NEW n \in DOMAIN notes, NEW i \in Range(notes[n].namespaces)
      PROVE  program[i].file \in FileIncludes(program, st, needed, program[n].file)
  <2> DEFINE m == [file |-> program[n].file, type |-> Plain(i)]
  <2>1. m \in NeededInner(program, notes)
        BY DEF NeededInner, Tagged
  <2>2. m \in needed /\ m.file = program[n].file /\ m.type = Plain(i)
        BY <2>1
  <2>3. program[i].kind # "Typedef"
    <3>1. n \in DOMAIN program /\ "namespaces" \in Sorts
          BY DEF Tabled, Sorts
    <3>2. notes[n]["namespaces"] \in Seq(Met)
          BY <3>1 DEF Tabled
    <3>3. i \in Met
          BY <3>2 DEF Range
    <3>4. i \in DOMAIN program /\ i # 1 /\ Walked(program)[i]
          BY <3>3, MetPlaces
    <3>5. QED
          BY <3>4, WalkedUnfold DEF Visited
  <2>4. FinalType(program, st, Plain(i)) = Plain(i) /\ Plain(i).id = i
        BY <2>3 DEF FinalType, Plain
  <2>5. QED
        BY <1>1, <2>2, <2>4
<1>4. QED
      BY <1>2, <1>3 DEF GlueIncludesItsTypes

-----------------------------------------------------------------------------
(* The parser: blocks *)

\* The classes and namespaces among definitions.
Blocks(ds) == {n \in 1 .. Len(ds) : ds[n].kind \in {"Class", "Namespace"}}

\* Every definition is in a block that begins before it, or in none.
Placed(ds, k) ==
    /\ {"kind", "parent"} \subseteq DOMAIN ds[k]
    /\ ds[k].parent # 0 => ds[k].parent \in Blocks(ds) /\ ds[k].parent \in 1 .. k - 1
Nested(ds, os) ==
    /\ IsSequence(ds) /\ os \in Seq(Blocks(ds))
    /\ \A k \in 1 .. Len(ds) : Placed(ds, k)

LEMMA NestedFresh == Nested(<<>>, <<>>)
<1>1. IsSequence(<<>>) /\ <<>> \in Seq(Blocks(<<>>)) /\ 1 .. Len(<<>>) = {}
      BY DEF IsSequence
<1>2. QED
      BY <1>1 DEF Nested

LEMMA PutField ==
    ASSUME NEW field, NEW value, NEW d
    PROVE  /\ DOMAIN d \cup {field} = DOMAIN Put(field, value, d)
           /\ Put(field, value, d)[field] = value
           /\ \A f \in DOMAIN d : f # field => Put(field, value, d)[f] = d[f]
BY DEF Put

LEMMA NestedAppend ==
    ASSUME NEW ds, NEW os, Nested(ds, os), NEW e,
           {"kind", "parent"} \subseteq DOMAIN e, e.parent = 0 \/ e.parent \in Blocks(ds)
    PROVE  LET es == Append(ds, e)
           IN  /\ Nested(es, os)
               /\ e.kind \in {"Class", "Namespace"} => Nested(es, Append(os, Len(ds) + 1))
<1> DEFINE es == Append(ds, e)
<1>1. /\ IsSequence(es) /\ Len(ds) \in Nat /\ Len(es) = Len(ds) + 1
      /\ \A k \in 1 .. Len(ds) : es[k] = ds[k]
      /\ es[Len(ds) + 1] = e
      BY AppendSequence DEF Nested
<1> HIDE DEF es
<1>2. \A k \in 1 .. Len(ds) : k \in 1 .. Len(es)
      BY <1>1
<1>3. Blocks(ds) \subseteq Blocks(es)
      BY <1>1, <1>2 DEF Blocks
<1>4. os \in Seq(Blocks(es))
      BY <1>3 DEF Nested
<1>5. ASSUME NEW k \in 1 .. Len(es) PROVE Placed(es, k)
  <2>1. CASE k \in 1 .. Len(ds)
        BY <1>1, <1>3, <2>1 DEF Nested, Placed
  <2>2. CASE k \notin 1 .. Len(ds)
    <3>1. k = Len(ds) + 1 /\ es[k] = e
          BY <1>1, <2>2
    <3>2. \A n \in Blocks(ds) : n \in Blocks(es) /\ n \in 1 .. k - 1
          BY <1>1, <1>3, <3>1 DEF Blocks
    <3>3. QED
          BY <3>1, <3>2 DEF Placed
  <2>3. QED
        BY <2>1, <2>2
<1>6. e.kind \in {"Class", "Namespace"} => Append(os, Len(ds) + 1) \in Seq(Blocks(es))
  <2>1. Len(ds) + 1 \in 1 .. Len(es)
        BY <1>1
  <2>2. e.kind \in {"Class", "Namespace"} => Len(ds) + 1 \in Blocks(es)
        BY <1>1, <2>1 DEF Blocks
  <2>3. QED
        BY <1>4, <2>2
<1>7. QED
      BY <1>1, <1>4, <1>5, <1>6 DEF Nested, es

\* What the parser takes: a definition has a kind, a block is a class or a namespace.
IsToken(x) ==
    /\ "lex" \in DOMAIN x
    /\ Makes(x) => "decl" \in DOMAIN x /\ "kind" \in DOMAIN x.decl
    /\ x.lex = "open" => x.decl.kind \in {"Class", "Namespace"}

LEMMA ShiftNested ==
    ASSUME NEW x, IsToken(x), Nested(defs, open), Shift(x)
    PROVE  Nested(defs', open')
<1>1. Enclosing = 0 \/ Enclosing \in Blocks(defs)
      BY DEF Nested, Enclosing, Last
<1> DEFINE e == With(x.decl)
<1>2. Makes(x) => /\ {"kind", "parent"} \subseteq DOMAIN e /\ e.kind = x.decl.kind
                  /\ e.parent = 0 \/ e.parent \in Blocks(defs)
  <2> SUFFICES ASSUME Makes(x)
               PROVE  /\ {"kind", "parent"} \subseteq DOMAIN e /\ e.kind = x.decl.kind
                      /\ e.parent = 0 \/ e.parent \in Blocks(defs)
      OBVIOUS
  <2>1. "kind" \in DOMAIN x.decl
        BY DEF IsToken
  <2>2. e = Put("parent", Enclosing, x.decl)
        BY DEF With
  <2> HIDE DEF e
  <2>3. /\ DOMAIN e = DOMAIN x.decl \cup {"parent"} /\ e["parent"] = Enclosing
        /\ \A f \in DOMAIN x.decl : f # "parent" => e[f] = x.decl[f]
        BY <2>2 DEF Put
  <2>4. e["kind"] = x.decl["kind"]
        BY <2>1, <2>3
  <2>5. QED
        BY <1>1, <2>1, <2>3, <2>4
<1> HIDE DEF e
<1>3. CASE x.lex = "open"
  <2>1. Makes(x) /\ e.kind \in {"Class", "Namespace"}
        BY <1>2, <1>3 DEF Makes, IsToken
  <2>2. defs' = Append(defs, e) /\ open' = Append(open, Len(defs) + 1)
        BY <1>3, <2>1 DEF Shift, e
  <2>3. QED
        BY <1>2, <2>1, <2>2, NestedAppend
<1>4. CASE x.lex = "}"
  <2>1. defs' = defs /\ open' = Front(open) /\ open # <<>>
        BY <1>4 DEF Shift, Makes, Accepts
  <2>2. Front(open) \in Seq(Blocks(defs))
        BY <2>1, FrontSequence DEF Nested
  <2>3. QED
        BY <2>1, <2>2 DEF Nested
<1>5. CASE x.lex \notin {"open", "}"}
  <2>1. open' = open /\ defs' = IF Makes(x) THEN Append(defs, e) ELSE defs
        BY <1>5 DEF Shift, e
  <2>2. CASE Makes(x)
        BY <1>2, <2>1, <2>2, NestedAppend
  <2>3. CASE ~Makes(x)
        BY <2>1, <2>3
  <2>4. QED
        BY <2>2, <2>3
<1>6. QED
      BY <1>3, <1>4, <1>5

LEMMA RemnantKind ==
    ASSUME NEW d, "kind" \in DOMAIN d, NEW e, Remnant(d) = <<e>>
    PROVE  "kind" \in DOMAIN e /\ (d.kind \in {"Class", "Namespace"} => e.kind = d.kind)
<1>1. \A x, y : <<x>> = <<y>> => x = y
      OBVIOUS
<1>2. \A x : <<x>> # <<>>
      OBVIOUS
<1> DEFINE bare == [d EXCEPT !.attrs = {}, !.model = "no model"]
           inner == [d EXCEPT !.refs[1].path = Tail(@)]
           variable == [d EXCEPT !.kind = "Variable"]
           function == [d EXCEPT !.kind = "Function"]
<1>3. "kind" \in DOMAIN bare /\ bare.kind = d.kind
      OBVIOUS
<1>4. "kind" \in DOMAIN inner /\ inner.kind = d.kind
      OBVIOUS
<1>5. "kind" \in DOMAIN variable /\ "kind" \in DOMAIN function
      OBVIOUS
<1>6. \/ Remnant(d) \in {<<>>, <<bare>>}
      \/ Remnant(d) \in {<<variable>>, <<function>>, <<inner>>} /\ d.kind \notin {"Class", "Namespace"}
      BY DEF Remnant
<1> HIDE DEF bare, inner, variable, function
<1>7. QED
      BY <1>1, <1>2, <1>3, <1>4, <1>5, <1>6

LEMMA RestIsToken ==
    ASSUME NEW token, IsToken(token), NEW r, Rest(token) = <<r>>
    PROVE  IsToken(r)
<1> DEFINE R == Remnant(token.decl)
<1>1. token.lex \in {"decl", "open"} /\ Rest(token) = [n \in DOMAIN R |-> [token EXCEPT !.decl = R[n]]]
  <2>1. <<r>> # <<>>
        OBVIOUS
  <2>2. QED
        BY <2>1 DEF Rest
<1>2. R = <<>> \/ \E d : R = <<d>>
      BY DEF Remnant
<1> HIDE DEF R
<1>3. 1 \in DOMAIN Rest(token) /\ Rest(token)[1] = r
      OBVIOUS
<1>4. 1 \in DOMAIN R /\ r = [token EXCEPT !.decl = R[1]]
      BY <1>1, <1>3
<1>5. PICK d : R = <<d>> /\ R[1] = d
      BY <1>2, <1>4
<1>6. Makes(token) /\ "decl" \in DOMAIN token /\ "kind" \in DOMAIN token.decl
      BY <1>1 DEF Makes, IsToken
<1>7. "kind" \in DOMAIN d /\ (token.decl.kind \in {"Class", "Namespace"} => d.kind = token.decl.kind)
      BY <1>5, <1>6, RemnantKind DEF R
<1>8. r = [token EXCEPT !.decl = d]
      BY <1>4, <1>5
<1>9. r.lex = token.lex /\ r.decl = d /\ {"lex", "decl"} \subseteq DOMAIN r
      BY <1>6, <1>8 DEF IsToken
<1>10. QED
      BY <1>7, <1>9 DEF IsToken

LEMMA RecoverNested ==
    ASSUME NEW x, IsToken(x), Recover(x)
    PROVE  Nested(defs', open')
<1>1. IsLexeme(x)
      BY DEF IsLexeme, IsToken, Makes
<1>2. ASSUME NEW r, Rest(x) = <<r>>, r.lex = x.lex, x.lex \in {"decl", "open"},
             defs' = <<Put("parent", 0, r.decl)>>,
             open' = IF r.lex = "open" THEN << 1 >> ELSE <<>>
      PROVE  Nested(defs', open')
  <2> DEFINE e == Put("parent", 0, r.decl)
             none == <<>>
  <2>1. "kind" \in DOMAIN r.decl /\ (r.lex = "open" => r.decl.kind \in {"Class", "Namespace"})
        BY <1>2, RestIsToken DEF IsToken, Makes
  <2>2. DOMAIN e = DOMAIN r.decl \cup {"parent"} /\ e["parent"] = 0 /\ e["kind"] = r.decl["kind"]
        BY <2>1 DEF Put
  <2>3. defs' = <<e>>
        BY <1>2
  <2> HIDE DEF e
  <2>4. Append(none, e) = <<e>> /\ Len(none) + 1 = 1
        OBVIOUS
  <2>5. Append(none, 1) = << 1 >>
        OBVIOUS
  <2>6. Nested(none, none)
        BY NestedFresh
  <2> HIDE DEF none
  <2>7. /\ Nested(<<e>>, none)
        /\ e.kind \in {"Class", "Namespace"} => Nested(<<e>>, << 1 >>)
        BY <2>1, <2>2, <2>4, <2>5, <2>6, NestedAppend
  <2>8. open' = none \/ (open' = << 1 >> /\ e.kind \in {"Class", "Namespace"})
        BY <1>2, <2>1, <2>2 DEF none
  <2>9. QED
        BY <2>3, <2>7, <2>8
<1>3. QED
      BY <1>1, <1>2, RecoverLeaves, NestedFresh

LEMMA LexNested ==
    ASSUME NEW l \in Lexemes, Nested(defs, open), Lex(l)
    PROVE  Nested(defs', open')
<1>1. IsToken(Symbol("}")) /\ IsToken(VerbatimBlock)
      BY DEF IsToken, Symbol, VerbatimBlock, Makes
<1>2. l.lex # "%}" => IsToken(l)
      BY SourcesAssumption DEF IsToken, Makes
<1>3. ASSUME NEW x, IsToken(x), Take(x) PROVE Nested(defs', open')
      BY <1>3, ShiftNested, RecoverNested DEF Take
<1>4. ASSUME Skip PROVE Nested(defs', open')
      BY <1>4 DEF Skip, parser
<1>5. Skip \/ (Take(l) /\ l.lex # "%}") \/ Take(Symbol("}")) \/ Take(VerbatimBlock)
      BY DEF Lex, Initial, Inner
<1>6. QED
      BY <1>1, <1>2, <1>3, <1>4, <1>5

\* The definitions of every file are nested, those of the file that is being parsed too.
FilesNested ==
    /\ ParserInv
    /\ Nested(defs, open)
    /\ IsSequence(parsed) /\ \A n \in 1 .. Len(parsed) : Nested(parsed[n].defs, <<>>)

LEMMA FilesNestedInit == ParserInit => FilesNested
<1> SUFFICES ASSUME ParserInit PROVE FilesNested
    OBVIOUS
<1>1. ParserInv
      BY SourcesAssumption, StructuredFresh DEF ParserInit, ParserInv, Texts
<1>2. IsSequence(<<>>) /\ 1 .. Len(<<>>) = {}
      BY DEF IsSequence
<1>3. QED
      BY <1>1, <1>2, NestedFresh DEF ParserInit, FilesNested

LEMMA FilesNestedStep == FilesNested /\ [ParserNext]_parserVars => FilesNested'
<1> SUFFICES ASSUME FilesNested, [ParserNext]_parserVars PROVE FilesNested'
    OBVIOUS
<1>1. ParserInv'
      BY ParserStep DEF FilesNested
<1>2. CASE Read
  <2>1. \E l \in Lexemes : Lex(l)
    <3>1. CASE ahead # <<>> /\ Lex(Head(ahead))
          BY <3>1 DEF FilesNested, ParserInv
    <3>2. ASSUME input # <<>>, NEW text \in Head(input), Lex(Head(text))
          PROVE  \E l \in Lexemes : Lex(l)
      <4>1. Head(input) \in SUBSET Texts
            BY <3>2 DEF FilesNested, ParserInv
      <4>2. text \in Seq(Lexemes) /\ text # <<>>
            BY <3>2, <4>1 DEF Texts
      <4>3. QED
            BY <3>2, <4>2
    <3>3. QED
          BY <1>2, <3>1, <3>2 DEF Read
  <2>2. Nested(defs', open') /\ parsed' = parsed
        BY <1>2, <2>1, LexNested DEF FilesNested, Read
  <2>3. QED
        BY <1>1, <2>2 DEF FilesNested
<1>3. CASE EndOfFile
  <2> DEFINE file == [complete |-> Complete, defs |-> defs]
             none == <<>>
  <2>1. file.defs = defs /\ parsed' = Append(parsed, file) /\ defs' = none /\ open' = none
        BY <1>3 DEF EndOfFile
  <2>2. none \in Seq(Blocks(defs)) /\ Nested(none, none)
        BY NestedFresh
  <2> HIDE DEF file
  <2>3. Nested(file.defs, none)
        BY <2>1, <2>2 DEF FilesNested, Nested
  <2>4. /\ IsSequence(parsed') /\ Len(parsed') = Len(parsed) + 1 /\ Len(parsed) \in Nat
        /\ \A n \in 1 .. Len(parsed) : parsed'[n] = parsed[n]
        /\ parsed'[Len(parsed) + 1] = file
        BY <2>1, AppendSequence DEF FilesNested
  <2>5. \A n \in 1 .. Len(parsed) : Nested(parsed[n].defs, none)
        BY DEF FilesNested
  <2>6. ASSUME NEW n \in 1 .. Len(parsed') PROVE Nested(parsed'[n].defs, none)
    <3>1. CASE n \in 1 .. Len(parsed)
          BY <2>4, <2>5, <3>1
    <3>2. CASE n \notin 1 .. Len(parsed)
      <4>1. n = Len(parsed) + 1
            BY <2>4, <3>2
      <4>2. QED
            BY <2>3, <2>4, <4>1
    <3>3. QED
          BY <3>1, <3>2
  <2>7. QED
        BY <1>1, <2>1, <2>2, <2>4, <2>6 DEF FilesNested
<1>4. CASE UNCHANGED parserVars
      BY <1>1, <1>4 DEF FilesNested, parserVars, lexer, parser
<1>5. QED
      BY <1>2, <1>3, <1>4 DEF ParserNext

-----------------------------------------------------------------------------
(* The program *)

LEMMA SequenceOfItself ==
    ASSUME NEW S, NEW s \in Seq(S) PROVE IsSequence(s)
<1> DEFINE T == {s[k] : k \in DOMAIN s}
<1>1. DOMAIN s = 1 .. Len(s) /\ Len(s) \in Nat /\ \A k \in 1 .. Len(s) : s[k] \in T
      OBVIOUS
<1> HIDE DEF T
<1>2. s \in Seq(T)
      BY <1>1
<1>3. QED
      BY <1>2 DEF T, IsSequence

LEMMA JoinRooted ==
    ASSUME NEW D, Rooted(D), NEW list, Nested(list, <<>>)
    PROVE  Rooted(Join(D, list))
<1> DEFINE N == Len(D)
           E == [k \in DOMAIN list |-> [list[k] EXCEPT !.parent = IF @ = 0 THEN 1 ELSE @ + N]]
           J == D \o E
<1>1. N \in Nat /\ N >= 1 /\ IsSequence(D) /\ DOMAIN D = 1 .. N
      BY RootedDomain DEF Rooted
<1>2. Len(list) \in Nat /\ DOMAIN list = 1 .. Len(list)
      BY DEF Nested, IsSequence
<1>3. ASSUME NEW k \in 1 .. Len(list)
      PROVE  /\ E[k].kind = list[k].kind
             /\ E[k].parent = IF list[k].parent = 0 THEN 1 ELSE list[k].parent + N
  <2>1. E[k] = [list[k] EXCEPT !.parent = IF @ = 0 THEN 1 ELSE @ + N]
        BY <1>2
  <2>2. {"kind", "parent"} \subseteq DOMAIN list[k]
        BY DEF Nested, Placed
  <2>3. QED
        BY <2>1, <2>2
<1>4. E \in Seq({E[k] : k \in DOMAIN E}) /\ Len(E) = Len(list)
      BY <1>2
<1>a. DOMAIN E = 1 .. Len(list)
      BY <1>2
<1> HIDE DEF E
<1>5. /\ IsSequence(J) /\ Len(J) = N + Len(list)
      /\ \A i \in 1 .. N : J[i] = D[i]
      /\ \A k \in 1 .. Len(list) : J[N + k] = E[k]
  <2> DEFINE S == {D[i] : i \in DOMAIN D} \cup {E[k] : k \in DOMAIN E}
  <2>1. D \in Seq(S)
        BY <1>1 DEF IsSequence
  <2>2. E \in Seq(S)
        BY <1>4
  <2> HIDE DEF S
  <2>3. J \in Seq(S) /\ Len(J) = N + Len(list)
        BY <1>4, <2>1, <2>2
  <2>4. /\ \A i \in 1 .. N : J[i] = D[i]
        /\ \A k \in 1 .. Len(list) : J[N + k] = E[k]
        BY <1>2, <1>4, <2>1, <2>2
  <2>5. IsSequence(J)
        BY <2>3, SequenceOfItself
  <2>6. QED
        BY <2>3, <2>4, <2>5
<1> HIDE DEF J
<1>6. ASSUME NEW i \in 2 .. Len(J)
      PROVE  J[i].parent \in 1 .. i - 1 /\ J[J[i].parent].kind \in {"Class", "Namespace"}
  <2>1. CASE i <= N
    <3>1. i \in 2 .. N /\ i \in 1 .. N
          BY <1>1, <2>1
    <3>2. D[i].parent \in 1 .. i - 1 /\ D[D[i].parent].kind \in {"Class", "Namespace"}
          BY <3>1 DEF Rooted
    <3>3. D[i].parent \in 1 .. N
          BY <1>1, <3>1, <3>2
    <3>4. QED
          BY <1>5, <3>1, <3>2, <3>3
  <2>2. CASE ~(i <= N)
    <3> DEFINE k == i - N
               p == list[k].parent
    <3>1. k \in 1 .. Len(list) /\ i = N + k
          BY <1>1, <1>2, <1>5, <2>2
    <3>2. J[i].parent = IF p = 0 THEN 1 ELSE p + N
          BY <1>3, <1>5, <3>1
    <3>3. CASE p = 0
      <4>1. J[1] = D[1] /\ D[1].kind = "Namespace"
            BY <1>1, <1>5 DEF Rooted
      <4>2. 1 \in 1 .. i - 1
            BY <1>1, <3>1
      <4>3. QED
            BY <3>2, <3>3, <4>1, <4>2
    <3>4. CASE p # 0
      <4>1. p \in Blocks(list) /\ p \in 1 .. k - 1
            BY <3>1, <3>4 DEF Nested, Placed
      <4>2. p \in 1 .. Len(list) /\ list[p].kind \in {"Class", "Namespace"}
            BY <4>1 DEF Blocks
      <4>3. J[N + p].kind = list[p].kind
            BY <1>3, <1>5, <4>2
      <4>4. p + N \in 1 .. i - 1 /\ p + N = N + p
            BY <1>1, <3>1, <4>1, <1>2
      <4>5. QED
            BY <3>2, <3>4, <4>2, <4>3, <4>4
    <3>5. QED
          BY <3>3, <3>4
  <2>3. QED
        BY <2>1, <2>2
<1>7. J[1].kind = "Namespace" /\ Len(J) >= 1
      BY <1>1, <1>2, <1>5 DEF Rooted
<1>8. Rooted(J)
      BY <1>5, <1>6, <1>7 DEF Rooted
<1>9. QED
      BY <1>8 DEF J, E, Join

LEMMA OfFileNested ==
    ASSUME FilesNested, NEW n \in 1 .. Len(parsed)
    PROVE  Nested(OfFile(n), <<>>)
<1> DEFINE list == parsed[n].defs
           E == OfFile(n)
           none == <<>>
<1>1. Nested(list, none)
      BY DEF FilesNested
<1>2. Len(list) \in Nat /\ DOMAIN list = 1 .. Len(list)
      BY <1>1 DEF Nested, IsSequence
<1>3. E = [k \in 1 .. Len(list) |-> Put("file", n, list[k])]
      BY <1>2 DEF OfFile
<1> HIDE DEF E, list
<1>4. E \in Seq({E[k] : k \in DOMAIN E}) /\ Len(E) = Len(list)
      BY <1>2, <1>3
<1>5. ASSUME NEW k \in 1 .. Len(list)
      PROVE  /\ {"kind", "parent"} \subseteq DOMAIN E[k]
             /\ E[k]["kind"] = list[k]["kind"] /\ E[k]["parent"] = list[k]["parent"]
  <2>1. E[k] = Put("file", n, list[k])
        BY <1>3
  <2>2. {"kind", "parent"} \subseteq DOMAIN list[k]
        BY <1>1 DEF Nested, Placed
  <2>3. QED
        BY <2>1, <2>2 DEF Put
<1>6. Blocks(E) = Blocks(list)
      BY <1>4, <1>5 DEF Blocks
<1>7. \A k \in 1 .. Len(E) : Placed(E, k)
      BY <1>1, <1>4, <1>5, <1>6 DEF Nested, Placed
<1>8. none \in Seq(Blocks(E))
      OBVIOUS
<1>9. IsSequence(E)
      BY <1>4 DEF IsSequence
<1>10. QED
      BY <1>7, <1>8, <1>9 DEF Nested, E

LEMMA NativesNested == Nested(NativeTypes, <<>>)
<1> DEFINE native(name, parent) == [kind |-> "Native", name |-> name, parent |-> parent, refs |-> <<>>,
                                    attrs |-> {}, model |-> "pod", file |-> 0]
           a == native("void", 0)
           b == native("int", 0)
           c == [native("std", 0) EXCEPT !.kind = "Namespace", !.model = NoModel]
           d == native("string", 3)
           E == NativeTypes
           none == <<>>
<1>1. E = <<a, b, c, d>>
      BY DEF NativeTypes
<1>2. /\ {"kind", "parent"} \subseteq DOMAIN a /\ a.parent = 0
      /\ {"kind", "parent"} \subseteq DOMAIN b /\ b.parent = 0
      /\ {"kind", "parent"} \subseteq DOMAIN c /\ c.parent = 0 /\ c.kind = "Namespace"
      /\ {"kind", "parent"} \subseteq DOMAIN d /\ d.parent = 3
      OBVIOUS
<1> HIDE DEF E, a, b, c, d
<1>3. E \in Seq({a, b, c, d}) /\ Len(E) = 4 /\ E[1] = a /\ E[2] = b /\ E[3] = c /\ E[4] = d
      BY <1>1
<1>4. IsSequence(E)
      BY <1>3, SequenceOfItself
<1>5. 3 \in Blocks(E)
      BY <1>2, <1>3 DEF Blocks
<1>6. ASSUME NEW k \in 1 .. Len(E) PROVE Placed(E, k)
  <2>1. k = 1 \/ k = 2 \/ k = 3 \/ k = 4
        BY <1>3
  <2>2. 3 \in 1 .. 4 - 1
        OBVIOUS
  <2>3. QED
        BY <1>2, <1>3, <1>5, <2>1, <2>2 DEF Placed
<1>7. none \in Seq(Blocks(E))
      OBVIOUS
<1>8. QED
      BY <1>4, <1>6, <1>7 DEF Nested, E

LEMMA GlobalRooted == Rooted(<<Global>>)
<1> DEFINE g == Global
<1>1. g.kind = "Namespace"
      BY DEF Global
<1> HIDE DEF g
<1>2. <<g>> \in Seq({g}) /\ Len(<<g>>) = 1 /\ <<g>>[1] = g
      OBVIOUS
<1>3. IsSequence(<<g>>)
      BY <1>2, SequenceOfItself
<1>4. 2 .. Len(<<g>>) = {}
      BY <1>2
<1>5. QED
      BY <1>1, <1>2, <1>3, <1>4 DEF Rooted, g

-----------------------------------------------------------------------------
(* The run *)

\* What the definitions met have left in the tables and among the needed types.
Done(met) ==
    /\ Tabled(program, notes, met)
    /\ \A i \in met : Needed(program, st, i) \subseteq needed

RunInv ==
    /\ FilesNested
    /\ Rooted(program)
    /\ phase = "parsing" => at \in Nat \ {0}
    /\ phase \in {"parsing", "resolving", "binding"} => walk = Begin
    /\ phase = "generating" =>
           \E met, opens : Progress(program, walk, met, opens) /\ Done(met)
    /\ phase = "written" => Done(Met) /\ NeededInner(program, notes) \subseteq needed

LEMMA RunInvInit == TranslateInit => RunInv
<1> SUFFICES ASSUME TranslateInit PROVE RunInv
    OBVIOUS
<1>1. FilesNested
      BY FilesNestedInit DEF TranslateInit
<1>2. QED
      BY <1>1, GlobalRooted DEF TranslateInit, RunInv

\* Nothing else in the run touches the parser.
LEMMA ParserAlone == RunInv /\ UNCHANGED parserVars => FilesNested'
BY FilesNestedStep DEF RunInv

\* The walk begins with nothing met, in the global namespace.
LEMMA WalkBegins ==
    ASSUME NEW D, Rooted(D)
    PROVE  Progress(D, Begin, {}, {1})
<1>1. Begin.in = 1 /\ Begin.after = 1
      BY DEF Begin
<1>2. ASSUME NEW j \in ToVisit(D, 1) PROVE ~(j <= 1)
  <2>1. j \in 2 .. Len(D) /\ Len(D) \in Nat
        BY FilesInProgram, RootedDomain DEF ToVisit
  <2>2. QED
        BY <2>1
<1> DEFINE w == Begin
<1> HIDE DEF w
<1>3. w.in = 1 /\ w.after = 1
      BY <1>1 DEF w
<1>4. Progress(D, w, {}, {1})
      BY <1>2, <1>3 DEF Progress
<1>5. QED
      BY <1>4 DEF w

LEMMA ParseFilesStep == RunInv /\ ParseFiles => RunInv'
<1> SUFFICES ASSUME RunInv, ParseFiles PROVE RunInv'
    OBVIOUS
<1>1. FilesNested'
      BY FilesNestedStep DEF RunInv, ParseFiles
<1>2. QED
      BY <1>1 DEF RunInv, ParseFiles, passes

LEMMA CollectStep == RunInv /\ Collect => RunInv'
<1> SUFFICES ASSUME RunInv, Collect PROVE RunInv'
    OBVIOUS
<1>1. FilesNested'
      BY ParserAlone DEF Collect
<1>2. CASE program' = Join(program, OfFile(at)) /\ at' = at + 1 /\ UNCHANGED phase
  <2>1. at \in 1 .. Len(parsed)
    <3>1. at \in Nat \ {0} /\ at <= Len(parsed)
          BY DEF RunInv, Collect
    <3>2. Len(parsed) \in Nat
          BY DEF RunInv, FilesNested, IsSequence
    <3>3. QED
          BY <3>1, <3>2
  <2>2. Rooted(program')
        BY <1>2, <2>1, OfFileNested, JoinRooted DEF RunInv
  <2>3. at' \in Nat \ {0}
        BY <1>2, <2>1
  <2>4. QED
        BY <1>1, <1>2, <2>2, <2>3 DEF RunInv, Collect
<1>3. CASE phase' = "failed" /\ UNCHANGED <<program, at>>
      BY <1>1, <1>3 DEF RunInv, Collect
<1>4. QED
      BY <1>2, <1>3 DEF Collect

LEMMA AddNativesStep == RunInv /\ AddNatives => RunInv'
<1> SUFFICES ASSUME RunInv, AddNatives PROVE RunInv'
    OBVIOUS
<1>1. FilesNested'
      BY ParserAlone DEF AddNatives
<1>2. Rooted(program')
      BY NativesNested, JoinRooted DEF RunInv, AddNatives
<1>3. QED
      BY <1>1, <1>2 DEF RunInv, AddNatives

LEMMA ResolveStep == RunInv /\ ResolveNext => RunInv'
<1> SUFFICES ASSUME RunInv, ResolveNext PROVE RunInv'
    OBVIOUS
<1>1. FilesNested'
      BY ParserAlone DEF ResolveNext
<1>2. phase = "resolving" /\ phase' \in {"failed", "resolving", "binding"}
      BY DEF ResolveNext, Turn
<1>3. program' = program /\ walk' = walk
      BY DEF ResolveNext
<1>4. QED
      BY <1>1, <1>2, <1>3 DEF RunInv

LEMMA BindStep == RunInv /\ BindNext => RunInv'
<1> SUFFICES ASSUME RunInv, BindNext PROVE RunInv'
    OBVIOUS
<1>1. FilesNested'
      BY ParserAlone DEF BindNext
<1>2. phase = "binding" /\ phase' \in {"failed", "binding", "generating"}
      BY DEF BindNext, Turn
<1>3. program' = program /\ walk' = walk /\ walk = Begin /\ Rooted(program)
      BY <1>2 DEF BindNext, RunInv
<1>4. CASE phase' = "generating"
  <2>1. notes' = NoNotes(program)
        BY <1>4 DEF BindNext
  <2>2. Progress(program', walk', {}, {1})
        BY <1>3, WalkBegins
  <2>3. Tabled(program', notes', {})
        BY <1>3, <2>1, NothingTabled
  <2>4. Done({})'
        BY <2>3 DEF Done
  <2>5. QED
        BY <1>1, <1>3, <1>4, <2>2, <2>4 DEF RunInv
<1>5. CASE phase' # "generating"
      BY <1>1, <1>2, <1>3, <1>5 DEF RunInv
<1>6. QED
      BY <1>4, <1>5

LEMMA VisitStep == RunInv /\ Visit => RunInv'
<1> SUFFICES ASSUME RunInv, Visit PROVE RunInv'
    OBVIOUS
<1>1. FilesNested'
      BY ParserAlone DEF Visit
<1>2. phase = "generating" /\ program' = program /\ st' = st /\ Rooted(program)
      BY DEF Visit, passes, RunInv
<1>3. CASE Raised
      BY <1>1, <1>2, <1>3 DEF RunInv, Raised
<1>i. PICK i : i = Min(Remaining(program, walk))
      OBVIOUS
<1>4. CASE /\ walk' = Onward(program, walk, i)
           /\ notes' = Noted(program, notes, i)
           /\ needed' = needed \cup Needed(program, st, i)
           /\ phase' = phase
  <2>1. PICK met, opens : Progress(program, walk, met, opens) /\ Done(met)
        BY <1>2 DEF RunInv
  <2>2. Remaining(program, walk) # {}
        BY DEF Visit
  <2>3. \E o : Progress(program, Onward(program, walk, i), met \cup {i}, o)
        BY <1>2, <1>i, <2>1, <2>2, OnwardProgress
  <2>4. i \in 2 .. Len(program) /\ Walked(program)[i]
        BY <1>2, <1>i, <2>1, <2>2, VisitFacts
  <2>5. met \subseteq 2 .. Len(program) /\ \A j \in met : Walked(program)[j]
        BY <1>2, <2>1, FilesInProgram DEF Progress
  <2>6. Tabled(program, Noted(program, notes, i), met \cup {i})
        BY <1>2, <2>1, <2>4, <2>5, NotedTabled DEF Done
  <2>7. \A j \in met \cup {i} : Needed(program, st, j) \subseteq needed'
        BY <1>4, <2>1 DEF Done
  <2>8. Done(met \cup {i})'
        BY <1>2, <1>4, <2>6, <2>7 DEF Done
  <2>9. \E m, o : Progress(program', walk', m, o) /\ Done(m)'
        BY <1>2, <1>4, <2>3, <2>8
  <2>10. QED
        BY <1>1, <1>2, <1>4, <2>9 DEF RunInv
<1>5. QED
      BY <1>i, <1>3, <1>4 DEF Visit

LEMMA LeaveStep == RunInv /\ Leave => RunInv'
<1> SUFFICES ASSUME RunInv, Leave PROVE RunInv'
    OBVIOUS
<1>1. FilesNested'
      BY ParserAlone DEF Leave
<1>2. phase = "generating" /\ program' = program /\ st' = st /\ Rooted(program)
      BY DEF Leave, passes, RunInv
<1>3. CASE Raised
      BY <1>1, <1>2, <1>3 DEF RunInv, Raised
<1>4. CASE walk' = Upward(program, walk) /\ UNCHANGED <<phase, tables>>
  <2>1. PICK met, opens : Progress(program, walk, met, opens) /\ Done(met)
        BY <1>2 DEF RunInv
  <2>2. Progress(program, Upward(program, walk), met, opens \ {walk.in})
        BY <1>2, <2>1, UpwardProgress DEF Leave
  <2>3. Done(met)'
        BY <1>2, <1>4, <2>1 DEF Done, tables
  <2>4. \E m, o : Progress(program', walk', m, o) /\ Done(m)'
        BY <1>2, <1>4, <2>2, <2>3
  <2>5. QED
        BY <1>1, <1>2, <1>4, <2>4 DEF RunInv
<1>5. QED
      BY <1>3, <1>4 DEF Leave

LEMMA WriteAllStep == RunInv /\ WriteAll => RunInv'
<1> SUFFICES ASSUME RunInv, WriteAll PROVE RunInv'
    OBVIOUS
<1>1. FilesNested'
      BY ParserAlone DEF WriteAll
<1>2. /\ phase = "generating" /\ program' = program /\ st' = st /\ Rooted(program)
      /\ notes' = notes /\ phase' = "written"
      /\ needed' = needed \cup NeededInner(program, notes)
      BY DEF WriteAll, passes, RunInv
<1>3. PICK met, opens : Progress(program, walk, met, opens) /\ Done(met)
      BY <1>2 DEF RunInv
<1>4. \A i \in OfFiles(program) : Walked(program)[i] => i \in met
      BY <1>2, <1>3, WalkEnds DEF WriteAll
<1>5. met = Met
      BY <1>3, <1>4 DEF Met, Progress
<1>6. Met' = Met
      BY <1>2 DEF Met
<1>7. Done(Met)'
      BY <1>2, <1>3, <1>5, <1>6 DEF Done
<1>8. QED
      BY <1>1, <1>2, <1>7 DEF RunInv

LEMMA RunStep == RunInv /\ [TranslateNext]_translateVars => RunInv'
<1> SUFFICES ASSUME RunInv, [TranslateNext]_translateVars PROVE RunInv'
    OBVIOUS
<1>1. CASE UNCHANGED translateVars
  <2>1. /\ FilesNested' /\ program' = program /\ phase' = phase /\ at' = at /\ walk' = walk
        /\ notes' = notes /\ needed' = needed /\ st' = st
        BY <1>1, ParserAlone DEF translateVars, passes, tables
  <2>2. Met' = Met /\ \A met : Done(met)' <=> Done(met)
        BY <2>1 DEF Met, Done
  <2>3. QED
        BY <2>1, <2>2 DEF RunInv
<1>2. QED
      BY <1>1, ParseFilesStep, CollectStep, AddNativesStep, ResolveStep, BindStep, VisitStep,
         LeaveStep, WriteAllStep DEF TranslateNext

LEMMA RunInductive == TranslateSpec => []RunInv
BY RunInvInit, RunStep, PTL DEF TranslateSpec

\* For any files: also within a whole run, what has been parsed of a file is what stands in
\* it since the last syntax error (Parse of nixysa/idl_parser.py, called by codegen.py).
THEOREM RunParsesTail == TranslateSpec => []ParsedIsTail
<1>1. RunInv => ParsedIsTail
      BY StructuredMeans DEF RunInv, FilesNested, ParserInv
<1>2. QED
      BY <1>1, RunInductive, PTL

\* For any files, and whatever the passes and handlers make of them: a finished glue has
\* each member that scripts may see in the tables of its scope, once, and no other
\* (GenerateList, Class, Namespace and the other handlers of nixysa/npapi_generator.py).
THEOREM PublicIsTabled == TranslateSpec => []GlueHasThePublic
<1>1. RunInv => GlueHasThePublic
  <2>1. CASE phase = "written"
        BY <2>1, TablesHaveThePublic DEF RunInv, Done
  <2>2. CASE phase # "written"
        BY <2>2 DEF GlueHasThePublic
  <2>3. QED
        BY <2>1, <2>2
<1>2. QED
      BY <1>1, RunInductive, PTL

\* For any files: the glue of a file includes the glue of the types its members are made
\* of and of the scopes it sets up, wherever the blocks of a namespace stand (needed_glue
\* and FinishFile of nixysa/npapi_generator.py).
THEOREM TypesAreIncluded == TranslateSpec => []GlueIncludesItsTypes
<1>1. RunInv => GlueIncludesItsTypes
  <2>1. CASE phase = "written"
        BY <2>1, NeedsAreIncluded DEF RunInv, Done
  <2>2. CASE phase # "written"
        BY <2>2 DEF GlueIncludesItsTypes
  <2>3. QED
        BY <2>1, <2>2
<1>2. QED
      BY <1>1, RunInductive, PTL
=============================================================================
