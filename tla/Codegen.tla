------------------------------ MODULE Codegen ------------------------------
(***************************************************************************)
(* The glue generator's main program (nixysa/codegen.py): it hashes its    *)
(* inputs, has nothing to do if the file "hash" holds that value, and      *)
(* otherwise empties that file, writes the glue, and saves the new value.  *)
(* Several generators may run on one output directory (two scons targets,  *)
(* a build and an editor's), the inputs may be edited at any time, and a   *)
(* generator may be killed anywhere.  With the flag exclusive_lock they    *)
(* take fcntl locks on the hash file (nixysa/locking.py).                  *)
(*                                                                         *)
(* Inputs stands for everything the hash covers: the interface files, the  *)
(* generator's own sources, and the options that main hashes; Extras for   *)
(* the options it does not hash (no-return-docs and the like).             *)
(***************************************************************************)
EXTENDS Integers, FiniteSets

CONSTANTS Generators,      \* processes that run codegen.py
          Inputs,          \* what the hash is taken of
          Extras,          \* options that are not hashed
          Outputs,         \* the files a generator writes
          Good,            \* the inputs that can be translated
          MaxRuns          \* bound: how many generators are started in all

CONSTANTS Absent, Part, Empty   \* of a file: not there, half-written, written empty

ASSUME ConstantAssumption ==
    /\ Good \subseteq Inputs
    /\ Absent \notin Inputs /\ Empty \notin Inputs
    /\ Absent # Empty
    /\ Absent \notin Inputs \X Extras /\ Part \notin Inputs \X Extras
    /\ MaxRuns \in Nat

VARIABLES exclusive_lock,  \* the flag: the same for all generators of a build
          inputs,       \* the inputs as they are now
          hash_file,    \* what the file "hash" holds
          glue,         \* what each output file holds
          pc,           \* where each generator is
          hash_value,   \* its hash_value: the inputs it has hashed
          extra,        \* its options that are not hashed
          translated,   \* the inputs it has parsed, later than it hashed them
          unwritten,    \* the outputs it still has to write
          filename,     \* the output it is writing
          runs,         \* generators started so far
          raced         \* history: two generators ran at once without the lock or with
                        \* other options, or the inputs were edited under one

files   == <<hash_file, glue>>
work    == <<translated, unwritten, filename>>
process == <<pc, hash_value, extra, work>>
build   == <<exclusive_lock, inputs, runs, raced>>
vars    == <<build, files, process>>

Places == {"idle", "hashed", "reading", "stale", "opened", "locked", "parsed", "differs",
           "filling", "unlocked"}
Running(g) == pc[g] # "idle"

\* Between lockf(LOCK_EX) and lockf(LOCK_UN).
Holding == {"locked", "parsed", "differs", "filling"}
LockFree(g) == exclusive_lock => \A h \in Generators \ {g} : pc[h] \notin Holding

TypeOK ==
    /\ exclusive_lock \in BOOLEAN
    /\ inputs \in Inputs
    /\ hash_file \in Inputs \cup {Absent, Empty}
    /\ glue \in [Outputs -> (Inputs \X Extras) \cup {Absent, Part}]
    /\ pc \in [Generators -> Places]
    /\ hash_value \in [Generators -> Inputs \cup {Absent}]
    /\ extra \in [Generators -> Extras \cup {Absent}]
    /\ translated \in [Generators -> Inputs \cup {Absent}]
    /\ unwritten \in [Generators -> SUBSET Outputs]
    /\ filename \in [Generators -> Outputs \cup {Absent}]
    /\ runs \in 0 .. MaxRuns
    /\ raced \in BOOLEAN

Init ==
    /\ exclusive_lock \in BOOLEAN
    /\ inputs \in Inputs
    /\ hash_file = Absent
    /\ glue = [o \in Outputs |-> Absent]
    /\ pc = [g \in Generators |-> "idle"]
    /\ hash_value = [g \in Generators |-> Absent]
    /\ extra = [g \in Generators |-> Absent]
    /\ translated = [g \in Generators |-> Absent]
    /\ unwritten = [g \in Generators |-> {}]
    /\ filename = [g \in Generators |-> Absent]
    /\ runs = 0
    /\ raced = FALSE

Move(g, here, there) == pc[g] = here /\ pc' = [pc EXCEPT ![g] = there]

\* The process ends, in whichever way: its variables are gone, and its lock.
Exit(g) ==
    /\ pc' = [pc EXCEPT ![g] = "idle"]
    /\ hash_value' = [hash_value EXCEPT ![g] = Absent]
    /\ extra' = [extra EXCEPT ![g] = Absent]
    /\ translated' = [translated EXCEPT ![g] = Absent]
    /\ unwritten' = [unwritten EXCEPT ![g] = {}]
    /\ filename' = [filename EXCEPT ![g] = Absent]

-----------------------------------------------------------------------------

\* main hashes the input files, the generator's sources and the hashed options.
Start(g) ==
    /\ Move(g, "idle", "hashed")
    /\ runs < MaxRuns
    /\ runs' = runs + 1
    /\ hash_value' = [hash_value EXCEPT ![g] = inputs]
    /\ \E e \in Extras : extra' = [extra EXCEPT ![g] = e]
    /\ raced' = (raced \/ \E h \in Generators \ {g} :
                              Running(h) /\ (~exclusive_lock \/ extra'[g] # extra[h]))
    /\ UNCHANGED <<exclusive_lock, inputs, files, work>>

\* --force, or open(hash_filename, 'r') raises IOError: there must be stuff to generate.
SkipTheCheck(g) ==
    /\ Move(g, "hashed", "stale")
    /\ UNCHANGED <<build, files, hash_value, extra, work>>

OpenForReading(g) ==
    /\ Move(g, "hashed", "reading")
    /\ hash_file # Absent
    /\ UNCHANGED <<build, files, hash_value, extra, work>>

UpToDate(g) == hash_file = hash_value[g]

\* lockf(LOCK_SH), read, lockf(LOCK_UN), close.  The shared lock does no more than put
\* off the reading until nobody holds the exclusive one: "Don't read while others are
\* writing..."
ReadHash(g) ==
    /\ pc[g] = "reading"
    /\ LockFree(g)
    /\ \/ UpToDate(g) /\ Exit(g)
       \/ /\ ~UpToDate(g)
          /\ Move(g, "reading", "stale")
          /\ UNCHANGED <<hash_value, extra, work>>
    /\ UNCHANGED <<build, files>>

\* Mutant: the old value stays until the new one is saved.
OpenForWriting_Append(g) ==
    /\ Move(g, "stale", "opened")
    /\ UNCHANGED <<build, files, hash_value, extra, work>>

\* open(hash_filename, 'w') empties the file, whoever holds the lock.
OpenForWriting(g) ==
    /\ Move(g, "stale", "opened")
    /\ hash_file' = Empty
    /\ UNCHANGED <<build, glue, hash_value, extra, work>>

\* Mutant: the lock excludes nobody.
LockExclusive_Not(g) ==
    /\ Move(g, "opened", "locked")
    /\ UNCHANGED <<build, files, hash_value, extra, work>>

LockExclusive(g) ==
    /\ Move(g, "opened", "locked")
    /\ LockFree(g)
    /\ UNCHANGED <<build, files, hash_value, extra, work>>

\* The interface files are read a second time, parsed, finalized and translated.
Parse(g) ==
    /\ Move(g, "locked", "parsed")
    /\ inputs \in Good
    /\ translated' = [translated EXCEPT ![g] = inputs]
    /\ unwritten' = [unwritten EXCEPT ![g] = Outputs]
    /\ UNCHANGED <<build, files, hash_value, extra, filename>>

\* Mutant: the lock outlives the failed process.
ParseFails_Locked(g) ==
    /\ Move(g, "locked", "locked")
    /\ inputs \notin Good
    /\ UNCHANGED <<build, files, hash_value, extra, work>>

\* An exception ends the process, its lock with it; the hash file stays empty.
ParseFails(g) ==
    /\ pc[g] = "locked"
    /\ inputs \notin Good
    /\ Exit(g)
    /\ UNCHANGED <<build, files>>

Content(g) == <<translated[g], extra[g]>>

\* WriteIfContentDifferent leaves an output that holds the same content alone ...
Compare(g) ==
    /\ pc[g] = "parsed"
    /\ \E o \in unwritten[g] :
           /\ unwritten' = [unwritten EXCEPT ![g] = @ \ {o}]
           /\ \/ glue[o] = Content(g) /\ UNCHANGED <<pc, filename>>
              \/ /\ glue[o] # Content(g)
                 /\ Move(g, "parsed", "differs")
                 /\ filename' = [filename EXCEPT ![g] = o]
    /\ UNCHANGED <<build, files, hash_value, extra, translated>>

\* ... opens another for writing, which throws away what it holds ...
OpenOutput(g) ==
    /\ Move(g, "differs", "filling")
    /\ glue' = [glue EXCEPT ![filename[g]] = Part]
    /\ UNCHANGED <<build, hash_file, hash_value, extra, work>>

\* ... and has written it by the time it is closed.  Of what somebody else has written
\* to the file since, the end may stay.
FillOutput(g) ==
    /\ Move(g, "filling", "parsed")
    /\ \E content \in {Content(g), Part} :
           /\ content = Part => glue[filename[g]] \notin {Part, Content(g)}
           /\ glue' = [glue EXCEPT ![filename[g]] = content]
    /\ filename' = [filename EXCEPT ![g] = Absent]
    /\ UNCHANGED <<build, hash_file, hash_value, extra, translated, unwritten>>

\* hash_file.write only fills a buffer; the lock is given up before it is flushed.
Unlock(g) ==
    /\ Move(g, "parsed", "unlocked")
    /\ unwritten[g] = {}
    /\ UNCHANGED <<build, files, hash_value, extra, work>>

\* hash_file.close() writes the value out; FailIfHaveErrors then ends the process.
Close(g) ==
    /\ pc[g] = "unlocked"
    /\ hash_file' = hash_value[g]
    /\ Exit(g)
    /\ UNCHANGED <<build, glue>>

\* The process is killed: what it has buffered is lost, what it has written stays.
Crash(g) ==
    /\ Running(g)
    /\ Exit(g)
    /\ UNCHANGED <<build, files>>

\* Somebody edits an interface file, or will call the generator with other options.
Edit ==
    /\ \E i \in Inputs \ {inputs} : inputs' = i
    /\ raced' = (raced \/ \E g \in Generators : Running(g))
    /\ UNCHANGED <<exclusive_lock, runs, files, process>>

Step(g) ==
    \/ SkipTheCheck(g) \/ OpenForReading(g) \/ ReadHash(g) \/ OpenForWriting(g)
    \/ LockExclusive(g) \/ Parse(g) \/ ParseFails(g) \/ Compare(g) \/ OpenOutput(g)
    \/ FillOutput(g) \/ Unlock(g) \/ Close(g)

Next == (\E g \in Generators : Start(g) \/ Step(g) \/ Crash(g)) \/ Edit

\* A process that can go on does.  Nobody has to start a generator, to edit or to crash.
Fairness == \A g \in Generators : WF_vars(Step(g))

Spec == Init /\ [][Next]_vars /\ Fairness

-----------------------------------------------------------------------------
(* Properties *)

\* The value in the hash file stands for the whole glue: never does it make a later
\* generator skip over an output that is missing, half-written or of other inputs -
\* wherever the generators before it were killed, and although the value is written
\* after the lock is given up.
HashTellsGlue ==
    ~raced /\ hash_file \in Inputs =>
        \E e \in Extras : \A o \in Outputs : glue[o] = <<hash_file, e>>

\* A generator that ends well has left the glue of its own inputs and options.
CloseLeavesOwnGlue ==
    [][\A g \in Generators : Close(g) /\ ~raced =>
           \A o \in Outputs : glue[o] = <<hash_value[g], extra[g]>>]_vars

\* Nobody waits for ever for a lock, whoever fails or is killed while holding it.
EveryRunEnds == \A g \in Generators : Running(g) ~> ~Running(g)
=============================================================================
