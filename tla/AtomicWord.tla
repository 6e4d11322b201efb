----------------------------- MODULE AtomicWord ------------------------------
(***************************************************************************)
(* What the atomic operations of atomic_ops.h promise: each call is        *)
(* invoked, takes effect on its location at one instant between its        *)
(* invocation and its response, and returns what that instant gives it.   *)
(* add and sub return the new value (__sync_add_and_fetch); cas, xchg and *)
(* test_and_set the old one; load the current one; store and clear return *)
(* nothing.  The 64-bit word and the byte flag are the two locations.     *)
(***************************************************************************)
EXTENDS Integers

CONSTANTS Threads, Args, Expected, NoValue, None

AllOps == {"add", "sub", "cas", "xchg", "store", "load", "tas", "clear"}
Locs == {"word", "flag"}
Loc(o) == IF o \in {"tas", "clear"} THEN "flag" ELSE "word"

\* The value the location holds after the operation, from the value v it
\* held before; a is the value argument, c the expected value of cas.
NewValue(o, a, c, v) ==
    CASE o = "add" -> v + a
      [] o = "sub" -> v - a
      [] o = "cas" -> IF v = c THEN a ELSE v
      [] o \in {"xchg", "store"} -> a
      [] o = "tas" -> 1
      [] o = "clear" -> 0
      [] o = "load" -> v

\* The value the operation returns.
Result(o, a, c, v) ==
    CASE o \in {"add", "sub"} -> NewValue(o, a, c, v)
      [] o \in {"cas", "xchg", "tas", "load"} -> v
      [] o \in {"store", "clear"} -> NoValue

VARIABLES mem, pend, res

Init == /\ mem = [l \in Locs |-> 0]
        /\ pend = [t \in Threads |-> None]
        /\ res = [t \in Threads |-> NoValue]

Invoke(t) ==
    /\ pend[t] = None
    /\ \E o \in AllOps, a \in Args, c \in Expected :
         pend' = [pend EXCEPT ![t] = [op |-> o, a |-> a, c |-> c,
                                      done |-> FALSE, result |-> NoValue]]
    /\ UNCHANGED <<mem, res>>

\* The instant the call takes effect.
Apply(t) ==
    /\ pend[t] # None /\ ~pend[t].done
    /\ LET p == pend[t]  l == Loc(p.op) IN
       /\ mem' = [mem EXCEPT ![l] = NewValue(p.op, p.a, p.c, mem[l])]
       /\ pend' = [pend EXCEPT ![t].done = TRUE,
                               ![t].result = Result(p.op, p.a, p.c, mem[l])]
    /\ UNCHANGED res

Respond(t) ==
    /\ pend[t] # None /\ pend[t].done
    /\ res' = [res EXCEPT ![t] = pend[t].result]
    /\ pend' = [pend EXCEPT ![t] = None]
    /\ UNCHANGED mem

Next == \E t \in Threads : Invoke(t) \/ Apply(t) \/ Respond(t)

Spec == Init /\ [][Next]_<<mem, pend, res>>
=============================================================================
