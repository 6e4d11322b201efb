-------------------------- MODULE HierarchicalLock --------------------------
(***************************************************************************)
(* core::concurrency::HierarchicalLock (src/sync/advanced_synchronization *)
(* .cpp, lines 10-44): a spin lock whose word lock_ holds the level it was *)
(* taken at (0 when free), and one thread_local current_hierarchy per      *)
(* thread, shared by every HierarchicalLock object.  lock(h) throws when   *)
(* h <= current_hierarchy, else spins on compare_exchange(0, h) and sets  *)
(* current_hierarchy = h; unlock() throws when current_hierarchy = 0,     *)
(* else stores 0 into lock_ and sets current_hierarchy = 0.               *)
(*                                                                         *)
(* Clients use the lock as intended: each lock object is always taken at  *)
(* its own level Level[l], a thread never calls lock() on a lock it holds, *)
(* and it unlocks its locks in the reverse order of taking them, as       *)
(* scoped guards do.  A failed compare_exchange (lock_ # 0) only spins, so *)
(* a waiting thread has no step until the lock is free; a spurious        *)
(* failure of compare_exchange_weak is a retry and is left out.           *)
(***************************************************************************)
EXTENDS Integers, Sequences, FiniteSets, Relation

CONSTANTS Threads, Locks, Level, MaxCalls, Idle

ASSUME /\ Level \in [Locks -> Nat \ {0}]
       /\ MaxCalls \in Nat
       /\ Idle \notin Locks

VARIABLES
    lock_,      \* lock_ of each HierarchicalLock object: 0 or a level
    current,    \* thread_local current_hierarchy of each thread
    held,       \* the locks whose lock() has returned and not been undone,
                \* in the order they were taken
    pc,         \* Idle, or the lock whose compare_exchange loop the thread is in
    calls       \* lock() calls made by each thread

vars == <<lock_, current, held, pc, calls>>

TypeOK ==
    /\ lock_ \in [Locks -> {0} \cup Level[Locks]]
    /\ current \in [Threads -> {0} \cup Level[Locks]]
    /\ held \in [Threads -> Seq(Locks)]
    /\ pc \in [Threads -> {Idle} \cup Locks]
    /\ calls \in [Threads -> 0 .. MaxCalls]

Init ==
    /\ lock_ = [l \in Locks |-> 0]
    /\ current = [t \in Threads |-> 0]
    /\ held = [t \in Threads |-> <<>>]
    /\ pc = [t \in Threads |-> Idle]
    /\ calls = [t \in Threads |-> 0]

Holds(t, l) == \E i \in DOMAIN held[t] : held[t][i] = l

\* lock(hierarchy): InvalidHierarchy is thrown before any shared state is
\* touched when hierarchy <= current_hierarchy; otherwise the thread enters
\* the compare_exchange loop.
Lock(t, l) ==
    /\ pc[t] = Idle
    /\ ~Holds(t, l)
    /\ calls[t] < MaxCalls
    /\ calls' = [calls EXCEPT ![t] = @ + 1]
    /\ IF Level[l] <= current[t]
         THEN UNCHANGED <<lock_, current, held, pc>>
         ELSE /\ pc' = [pc EXCEPT ![t] = l]
              /\ UNCHANGED <<lock_, current, held>>

\* The compare_exchange(expected = 0, hierarchy) that succeeds, followed by
\* current_hierarchy = hierarchy.
Acquire(t) ==
    LET l == pc[t] IN
    /\ l # Idle
    /\ lock_[l] = 0
    /\ lock_' = [lock_ EXCEPT ![l] = Level[l]]
    /\ current' = [current EXCEPT ![t] = Level[l]]
    /\ held' = [held EXCEPT ![t] = Append(@, l)]
    /\ pc' = [pc EXCEPT ![t] = Idle]
    /\ UNCHANGED calls

\* unlock() on the lock the thread took last: it throws when
\* current_hierarchy is 0 (the lock stays taken), else it stores 0 and
\* resets the thread's level to 0, whatever other locks it still holds.
Unlock(t) ==
    LET l == held[t][Len(held[t])] IN
    /\ pc[t] = Idle
    /\ held[t] # <<>>
    /\ IF current[t] = 0
         THEN UNCHANGED vars
         ELSE /\ lock_' = [lock_ EXCEPT ![l] = 0]
              /\ current' = [current EXCEPT ![t] = 0]
              /\ held' = [held EXCEPT ![t] = SubSeq(@, 1, Len(@) - 1)]
              /\ UNCHANGED <<pc, calls>>

Next ==
    \E t \in Threads :
        \/ \E l \in Locks : Lock(t, l)
        \/ Acquire(t)
        \/ Unlock(t)

Spec == Init /\ [][Next]_vars

\* t spins on a lock that u holds.
WaitsFor == [p \in Threads \X Threads |->
                /\ pc[p[1]] # Idle
                /\ Holds(p[2], pc[p[1]])]

\* No set of threads spins in a cycle on each other's locks: the promise of
\* section 4.2 of the spec that lock(level), by requiring a level above the
\* thread's current one, prevents lock-order inversion by construction.
\* unlock() resets current_hierarchy to 0 while the thread may still hold
\* an outer lock, after which a lower-level lock can be taken under it.
NoDeadlock == IsIrreflexive(TransitiveClosure(WaitsFor, Threads), Threads)

====
