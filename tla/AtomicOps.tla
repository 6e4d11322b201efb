------------------------------ MODULE AtomicOps ------------------------------
(***************************************************************************)
(* The atomic operations of src/src/core/drivers/atomic_ops.c, called by  *)
(* several threads on one int64_t word and one uint8_t flag, in the three  *)
(* builds of the file: x86_64 (the __sync builtins, one indivisible step), *)
(* aarch64 (ldaxr/stlxr loops, one step per memory instruction, with the   *)
(* register-only instructions folded into the memory step before them)   *)
(* and the fallback (plain loads and stores).                              *)
(*                                                                         *)
(* The exclusive monitor of aarch64 is excl[t], the location the thread's  *)
(* last ldaxr reserved; any write to the location clears the reservations *)
(* on it, and stlxr stores only while its own is still there.  Memory is   *)
(* sequentially consistent (the acquire/release forms and the barriers     *)
(* are not modelled).  The values stay far below 2^63, so int64 overflow   *)
(* is not modelled.                                                        *)
(***************************************************************************)
EXTENDS Integers

CONSTANTS
    Threads,    \* threads calling the operations
    Builds,     \* the builds checked: records [arch, ops], arch in {"x86", "arm", "none"}
    Args,       \* value arguments (value, new_val)
    Expected,   \* the old_val argument of cas
    MaxCalls,   \* bound: calls per thread
    NoValue, None

\* The operations that are a single instruction in every build.
SingleOps == {"store", "load", "clear"}

VARIABLES
    build,      \* the build being run, fixed at Init
    mem,        \* *ptr: the word and the flag
    pc,         \* "idle", "atomic", "load", "store" or "ret"
    op, a, c,   \* the call in progress and its arguments
    reg,        \* old_val / result: the register the asm or C code uses
    excl,       \* aarch64: the location thread t holds a reservation on
    seen,       \* history: the location's value when the call took effect
    ret,        \* the value the last call returned
    calls       \* calls made so far by each thread

\* The constant operators of AtomicWord (the locations, the new value and
\* the result of each operation); its variables play no part here.
Op == INSTANCE AtomicWord WITH pend <- [t \in Threads |-> None], res <- ret
AllOps == Op!AllOps
Loc(o) == Op!Loc(o)

\* Builds given to Builds by the cfgs: the x86_64 build with every
\* operation, and the aarch64 build with every operation but add and sub;
\* the aarch64 add and sub; the fallback build with every operation.
MCBuildsGood == {[arch |-> "x86", ops |-> AllOps],
                 [arch |-> "arm", ops |-> AllOps \ {"add", "sub"}]}
MCBuildsArmAdd == {[arch |-> "arm", ops |-> {"add", "sub"}]}
MCBuildsFallback == {[arch |-> "none", ops |-> AllOps]}

\* The abstract state the code stands for: a call is pending from its
\* invocation to its return, and done once it has taken effect.
pend == [t \in Threads |->
            IF pc[t] = "idle" THEN None
            ELSE [op |-> op[t], a |-> a[t], c |-> c[t], done |-> pc[t] = "ret",
                  result |-> IF pc[t] = "ret"
                             THEN Op!Result(op[t], a[t], c[t], seen[t])
                             ELSE NoValue]]
res == ret
AW == INSTANCE AtomicWord WITH mem <- mem, pend <- pend, res <- res

vars == <<build, mem, pc, op, a, c, reg, excl, seen, ret, calls>>

\* A write to location l clears every reservation on it.
ClearReservations(l) == [u \in Threads |-> IF excl[u] = l THEN None ELSE excl[u]]

\* What the store step writes: the register after the add/sub of the asm
\* (or old_val + value in C), new_val, or 1.
Written(o, x, y) ==
    CASE o = "add" -> x + y
      [] o = "sub" -> x - y
      [] o \in {"cas", "xchg"} -> y
      [] o = "tas" -> 1

\* The value the function returns.  aarch64 add/sub: old_val already
\* holds the sum (add %0, %0, %2), and return old_val + value adds again;
\* the fallback returns old_val + value with old_val the value read.
CodeReturn(t) ==
    CASE op[t] \in {"store", "clear"} -> NoValue
      [] op[t] = "add" /\ build.arch # "x86" -> reg[t] + a[t]
      [] op[t] = "sub" /\ build.arch # "x86" -> reg[t] - a[t]
      [] OTHER -> reg[t]

Init ==
    /\ build \in Builds
    /\ mem = [l \in Op!Locs |-> 0]
    /\ pc = [t \in Threads |-> "idle"]
    /\ op = [t \in Threads |-> "load"]
    /\ a = [t \in Threads |-> CHOOSE x \in Args : TRUE]
    /\ c = [t \in Threads |-> CHOOSE x \in Expected : TRUE]
    /\ reg = [t \in Threads |-> 0]
    /\ excl = [t \in Threads |-> None]
    /\ seen = [t \in Threads |-> 0]
    /\ ret = [t \in Threads |-> NoValue]
    /\ calls = [t \in Threads |-> 0]

\* Whether operation o takes a load step and a store step in build arch:
\* everything but store, load and clear outside x86_64, where the
\* fallback's test_and_set, for one, reads old_val = *ptr and then stores
\* *ptr = 1.
TwoStep(arch, o) == arch # "x86" /\ o \notin SingleOps

\* A thread calls one of the build's operations.
Call(t) ==
    /\ pc[t] = "idle" /\ calls[t] < MaxCalls
    /\ \E o \in build.ops, x \in Args, y \in Expected :
         /\ op' = [op EXCEPT ![t] = o]
         /\ a' = [a EXCEPT ![t] = x]
         /\ c' = [c EXCEPT ![t] = y]
         /\ pc' = [pc EXCEPT ![t] = IF TwoStep(build.arch, o) THEN "load" ELSE "atomic"]
    /\ calls' = [calls EXCEPT ![t] = @ + 1]
    /\ UNCHANGED <<build, mem, reg, excl, seen, ret>>

-----------------------------------------------------------------------------
(* Mutants: plausible bugs in the code, used to show that the properties  *)
(* below can fail.                                                         *)

\* test_and_set written with __sync_fetch_and_add(ptr, 1).
AtomicTasAdds(t) ==
    /\ pc[t] = "atomic"
    /\ LET l == Loc(op[t])
           v == IF op[t] = "tas" THEN mem[l] + 1 ELSE Op!NewValue(op[t], a[t], c[t], mem[l])
       IN /\ mem' = [mem EXCEPT ![l] = v]
          /\ reg' = [reg EXCEPT ![t] = IF op[t] \in {"add", "sub"} THEN v ELSE mem[l]]
          /\ excl' = IF op[t] = "load" THEN excl ELSE ClearReservations(l)
          /\ seen' = [seen EXCEPT ![t] = mem[l]]
    /\ pc' = [pc EXCEPT ![t] = "ret"]
    /\ UNCHANGED <<build, op, a, c, ret, calls>>

\* stlxr replaced by a plain str: the store ignores the reservation.
StoreOkUnreserved(t) ==
    /\ pc[t] = "store"
    /\ LET l == Loc(op[t]) IN
       /\ mem' = [mem EXCEPT ![l] = Written(op[t], reg[t], a[t])]
       /\ reg' = [reg EXCEPT ![t] = IF build.arch = "arm" /\ op[t] \in {"add", "sub"}
                                    THEN Written(op[t], reg[t], a[t]) ELSE reg[t]]
       /\ excl' = ClearReservations(l)
       /\ seen' = [seen EXCEPT ![t] = mem[l]]
    /\ pc' = [pc EXCEPT ![t] = "ret"]
    /\ UNCHANGED <<build, op, a, c, ret, calls>>

\* cbnz w8 branching back to the stlxr instead of the ldaxr.
StoreFailNoReload(t) ==
    /\ pc[t] = "store" /\ build.arch = "arm"
    /\ excl[t] # Loc(op[t])
    /\ UNCHANGED vars

-----------------------------------------------------------------------------
\* x86_64: __sync_add_and_fetch, __sync_sub_and_fetch (the new value),
\* __sync_val_compare_and_swap, __sync_lock_test_and_set (the old value);
\* every build: store, load and clear, one instruction each (stlr, ldar,
\* stlrb on aarch64, a plain access in the fallback).
Atomic(t) ==
    /\ pc[t] = "atomic"
    /\ LET l == Loc(op[t])
           v == Op!NewValue(op[t], a[t], c[t], mem[l])
       IN /\ mem' = [mem EXCEPT ![l] = v]
          /\ reg' = [reg EXCEPT ![t] = IF op[t] \in {"add", "sub"} THEN v ELSE mem[l]]
          /\ excl' = IF op[t] = "load" THEN excl ELSE ClearReservations(l)
          /\ seen' = [seen EXCEPT ![t] = mem[l]]
    /\ pc' = [pc EXCEPT ![t] = "ret"]
    /\ UNCHANGED <<build, op, a, c, ret, calls>>

\* Whether the load of v ends the call: the aarch64 cas's cmp/b.ne on a
\* value other than old_val (also the fallback's if), and the aarch64
\* test_and_set's cbnz %w0, 2f on a set flag.
LeavesLoop(o, arch, v, expected) ==
    \/ o = "cas" /\ v # expected
    \/ o = "tas" /\ arch = "arm" /\ v # 0

\* aarch64 "1: ldaxr" (with the cmp/b.ne of cas and the cbnz of
\* test_and_set after it), or the fallback's read of *ptr into old_val or
\* current.  cas on a value other than old_val, and test_and_set on a set
\* flag in the aarch64 build, leave the loop here.
LoadStep(t) ==
    /\ pc[t] = "load"
    /\ LET l == Loc(op[t])
           v == mem[l]
           exits == LeavesLoop(op[t], build.arch, v, c[t])
       IN /\ reg' = [reg EXCEPT ![t] = v]
          /\ excl' = IF build.arch = "arm" THEN [excl EXCEPT ![t] = l] ELSE excl
          /\ pc' = [pc EXCEPT ![t] = IF exits THEN "ret" ELSE "store"]
          /\ seen' = IF exits THEN [seen EXCEPT ![t] = v] ELSE seen
    /\ UNCHANGED <<build, mem, op, a, c, ret, calls>>

\* aarch64 stlxr while the reservation holds, or the fallback's store
\* (*ptr += value, *ptr = new_val, *ptr = 1).  *ptr += value races with
\* the other threads' plain accesses, so the compiler may add value to
\* old_val or read *ptr again: either.
StoreOk(t) ==
    /\ pc[t] = "store"
    /\ LET l == Loc(op[t]) IN
       /\ build.arch = "none" \/ excl[t] = l
       /\ \E base \in IF build.arch = "none" THEN {reg[t], mem[l]} ELSE {reg[t]} :
            mem' = [mem EXCEPT ![l] = Written(op[t], base, a[t])]
       /\ reg' = [reg EXCEPT ![t] = IF build.arch = "arm" /\ op[t] \in {"add", "sub"}
                                    THEN Written(op[t], reg[t], a[t]) ELSE reg[t]]
       /\ excl' = ClearReservations(l)
       /\ seen' = [seen EXCEPT ![t] = mem[l]]
    /\ pc' = [pc EXCEPT ![t] = "ret"]
    /\ UNCHANGED <<build, op, a, c, ret, calls>>

\* aarch64 stlxr after another write cleared the reservation: w8 is 1 and
\* cbnz w8, 1b goes back to the ldaxr.
StoreFail(t) ==
    /\ pc[t] = "store" /\ build.arch = "arm"
    /\ excl[t] # Loc(op[t])
    /\ pc' = [pc EXCEPT ![t] = "load"]
    /\ UNCHANGED <<build, mem, op, a, c, reg, excl, seen, ret, calls>>

\* The return statement.  The call's registers are dead after it and are
\* reset, so that states differing only in them are one state.
Return(t) ==
    /\ pc[t] = "ret"
    /\ ret' = [ret EXCEPT ![t] = CodeReturn(t)]
    /\ pc' = [pc EXCEPT ![t] = "idle"]
    /\ op' = [op EXCEPT ![t] = "load"]
    /\ a' = [a EXCEPT ![t] = CHOOSE x \in Args : TRUE]
    /\ c' = [c EXCEPT ![t] = CHOOSE x \in Expected : TRUE]
    /\ reg' = [reg EXCEPT ![t] = 0]
    /\ seen' = [seen EXCEPT ![t] = 0]
    /\ UNCHANGED <<build, mem, excl, calls>>

Thread(t) == Call(t) \/ Atomic(t) \/ LoadStep(t) \/ StoreOk(t) \/ StoreFail(t) \/ Return(t)

Next == \E t \in Threads : Thread(t)

\* Each thread runs on a core of its own and keeps calling until it has
\* made its calls.
Fairness == \A t \in Threads : WF_vars(Thread(t))

Spec == Init /\ [][Next]_vars /\ Fairness
-----------------------------------------------------------------------------
TypeOK ==
    /\ build \in Builds
    /\ mem["word"] \in Int /\ mem["flag"] \in 0 .. 1
    /\ pc \in [Threads -> {"idle", "atomic", "load", "store", "ret"}]
    /\ op \in [Threads -> AllOps]
    /\ excl \in [Threads -> Op!Locs \cup {None}]
    /\ calls \in [Threads -> 0 .. MaxCalls]

\* Every call of every thread takes effect at one instant between its
\* call and its return and returns what atomic_ops.h promises (the new
\* value for add/sub, the old one for cas, xchg and test_and_set): the
\* ldaxr/stlxr loops, the builtins and the plain accesses implement
\* AtomicWord.
Linearizable == AW!Spec

\* Every call returns: an stlxr that fails because another thread wrote
\* in between retries from the ldaxr, and since the other threads make
\* finitely many calls, some retry succeeds.
AllCallsReturn == <>(\A t \in Threads : pc[t] = "idle" /\ calls[t] = MaxCalls)
=============================================================================
