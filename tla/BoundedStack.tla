---------------------------- MODULE BoundedStack ----------------------------
(***************************************************************************)
(* What rpqueue<obj> promises its callers (lib/common/rpqueue.cpp): a      *)
(* linearizable stack of at most Capacity values.  A thread calls add or   *)
(* get, the call takes effect in one atomic step between call and return,  *)
(* and a call that cannot take effect waits.  In spite of its name the     *)
(* queue hands out the YOUNGEST value: add stores at pos_ and moves up,    *)
(* get moves down and takes from pos_.                                     *)
(***************************************************************************)
EXTENDS Naturals, Sequences

CONSTANTS Threads,   \* the threads that share the stack
          Values,    \* what add may be given (NULL, the poison pill, included)
          NULL,      \* placeholder of a request without a value
          Capacity   \* QUEUE_SIZE

VARIABLES stack,     \* the values inside, oldest first
          req        \* what each thread has asked for, and how far it got

stackVars == <<stack, req>>

Ops == {"idle", "add", "added", "get", "got"}

Request(op, v) == [op |-> op, val |-> v]

StackTypeOK ==
    /\ stack \in Seq(Values)
    /\ Len(stack) <= Capacity
    /\ req \in [Threads -> [op : Ops, val : Values]]

Init ==
    /\ stack = <<>>
    /\ req = [t \in Threads |-> Request("idle", NULL)]

CallAdd(t, v) ==
    /\ req[t].op = "idle"
    /\ req' = [req EXCEPT ![t] = Request("add", v)]
    /\ UNCHANGED stack

Push(t) ==
    /\ req[t].op = "add"
    /\ Len(stack) < Capacity
    /\ stack' = Append(stack, req[t].val)
    /\ req' = [req EXCEPT ![t] = Request("added", NULL)]

CallGet(t) ==
    /\ req[t].op = "idle"
    /\ req' = [req EXCEPT ![t] = Request("get", NULL)]
    /\ UNCHANGED stack

Pop(t) ==
    /\ req[t].op = "get"
    /\ Len(stack) > 0
    /\ stack' = SubSeq(stack, 1, Len(stack) - 1)
    /\ req' = [req EXCEPT ![t] = Request("got", stack[Len(stack)])]

Return(t) ==
    /\ req[t].op \in {"added", "got"}
    /\ req' = [req EXCEPT ![t] = Request("idle", NULL)]
    /\ UNCHANGED stack

Step(t) ==
    \/ \E v \in Values : CallAdd(t, v)
    \/ Push(t)
    \/ CallGet(t)
    \/ Pop(t)
    \/ Return(t)

Next == \E t \in Threads : Step(t)

Spec == Init /\ [][Next]_stackVars
=============================================================================
