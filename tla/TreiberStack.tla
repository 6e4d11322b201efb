---------------------------- MODULE TreiberStack ----------------------------
(***************************************************************************)
(* core::lockfree::LockFreeStack<T> (src/sync/lockfree_structures.cpp     *)
(* lines 68-95), a Treiber stack: a linked list whose top is the atomic   *)
(* head_, pushed and popped by compare-and-swap.                           *)
(*                                                                         *)
(* Memory is modelled as in MSQueue: nodes are addresses from Nodes, `new` *)
(* takes a free address (with ReuseFreed, possibly one just deleted), the *)
(* `delete` after a successful pop frees the address at once and leaves   *)
(* its fields as they were, and gen[n] counts the deletions of n.         *)
(* compare_exchange_weak is taken to fail only when the values differ.    *)
(***************************************************************************)
EXTENDS Integers, Sequences, FiniteSets

CONSTANTS
    Pushers,     \* threads calling push
    Poppers,     \* threads calling pop in a loop
    Nodes,       \* node addresses
    Null,        \* nullptr
    NoValue,     \* contents of a node that never held an item
    Input,       \* Input[p]: the items pusher p pushes, in order
    ReuseFreed   \* whether `new` may return an address `delete` released

Values == UNION {{Input[p][i] : i \in DOMAIN Input[p]} : p \in Pushers}
TotalItems == LET F[S \in SUBSET Pushers] ==
                    IF S = {} THEN 0
                    ELSE LET p == CHOOSE x \in S : TRUE
                         IN Len(Input[p]) + F[S \ {p}]
              IN F[Pushers]

ASSUME /\ Pushers \cap Poppers = {}
       /\ Null \notin Nodes
       /\ NoValue \notin Values
       /\ Cardinality(Nodes) >= TotalItems   \* `new` never runs dry
       /\ ReuseFreed \in BOOLEAN

Threads == Pushers \cup Poppers

VARIABLES
    head_,        \* the stack's atomic head pointer
    next, data,   \* the fields of every node
    free,         \* addresses not currently allocated
    gen,          \* gen[n]: number of times n has been deleted
    pc,           \* control point of every thread
    sent,         \* sent[p]: items of Input[p] whose push returned
    newNode,      \* the node a pusher allocated for its current item
    old,          \* a popper's old_head, with the delete count it saw
    nx,           \* the old_head->next a popper read for its CAS
    out           \* history: items returned by pop, in order

vars == <<head_, next, data, free, gen, pc, sent, newNode, old, nx, out>>

Ptr(n) == [node |-> n, gen |-> IF n \in Nodes THEN gen[n] ELSE 0]
NullPtr == [node |-> Null, gen |-> 0]
Live(p) == p.node \in Nodes \ free /\ p.gen = gen[p.node]

Goto(t, l) == pc' = [pc EXCEPT ![t] = l]

Allocatable == IF ReuseFreed THEN free ELSE {n \in free : gen[n] = 0}

-----------------------------------------------------------------------------
(* Mutants: plausible slips in the code, each of which some property of a  *)
(* run must catch.                                                         *)

\* push's retry does not refresh new_node->next from the failed CAS.
PushCasStaleNext(p) ==
    /\ pc[p] = "push_cas"
    /\ IF head_ = next[newNode[p]]
         THEN /\ head_' = newNode[p]
              /\ sent' = [sent EXCEPT ![p] = @ + 1]
              /\ Goto(p, IF sent[p] + 1 < Len(Input[p]) THEN "push_alloc" ELSE "done")
         ELSE UNCHANGED <<head_, sent, pc>>
    /\ UNCHANGED <<next, data, free, gen, newNode, old, nx, out>>

\* new_node is built without its value: `new Node` and then only ->next.
PushAllocNoData(p) ==
    /\ pc[p] = "push_alloc"
    /\ sent[p] < Len(Input[p])
    /\ \E n \in Allocatable :
         /\ free' = free \ {n}
         /\ next' = [next EXCEPT ![n] = head_]
         /\ newNode' = [newNode EXCEPT ![p] = n]
    /\ Goto(p, "push_cas")
    /\ UNCHANGED <<head_, data, gen, sent, old, nx, out>>

\* pop stores head_ = old_head->next instead of compare-and-swapping it.
PopCasStore(c) ==
    /\ pc[c] = "pop_cas"
    /\ head_' = nx[c]
    /\ out' = Append(out, data[old[c].node])
    /\ free' = free \cup {old[c].node}
    /\ gen' = [gen EXCEPT ![old[c].node] = @ + 1]
    /\ Goto(c, "pop_load")
    /\ UNCHANGED <<next, data, sent, newNode, old, nx>>

-----------------------------------------------------------------------------
(* push(value), lines 70-78                                                *)

\* Node* new_node = new Node{value, head_.load(relaxed)};
PushAlloc(p) ==
    /\ pc[p] = "push_alloc"
    /\ sent[p] < Len(Input[p])
    /\ \E n \in Allocatable :
         /\ free' = free \ {n}
         /\ data' = [data EXCEPT ![n] = Input[p][sent[p] + 1]]
         /\ next' = [next EXCEPT ![n] = head_]
         /\ newNode' = [newNode EXCEPT ![p] = n]
    /\ Goto(p, "push_cas")
    /\ UNCHANGED <<head_, gen, sent, old, nx, out>>

\* while (!head_.compare_exchange_weak(new_node->next, new_node)) {}
\* A failed CAS stores the current head_ into new_node->next.
PushCas(p) ==
    /\ pc[p] = "push_cas"
    /\ IF head_ = next[newNode[p]]
         THEN /\ head_' = newNode[p]
              /\ sent' = [sent EXCEPT ![p] = @ + 1]
              /\ Goto(p, IF sent[p] + 1 < Len(Input[p]) THEN "push_alloc" ELSE "done")
              /\ UNCHANGED next
         ELSE /\ next' = [next EXCEPT ![newNode[p]] = head_]
              /\ UNCHANGED <<head_, sent, pc>>
    /\ UNCHANGED <<data, free, gen, newNode, old, nx, out>>

-----------------------------------------------------------------------------
(* pop(value), lines 81-95; the popper calls it again after every return. *)

\* Node* old_head = head_.load(relaxed);
PopLoad(c) ==
    /\ pc[c] = "pop_load"
    /\ old' = [old EXCEPT ![c] = Ptr(head_)]
    /\ Goto(c, "pop_test")
    /\ UNCHANGED <<head_, next, data, free, gen, sent, newNode, nx, out>>

\* while (old_head != nullptr) ...  return false;
PopTest(c) ==
    /\ pc[c] = "pop_test"
    /\ Goto(c, IF old[c].node = Null THEN "pop_load" ELSE "pop_next")
    /\ UNCHANGED <<head_, next, data, free, gen, sent, newNode, old, nx, out>>

\* old_head->next, read as the CAS's desired value.
PopNext(c) ==
    /\ pc[c] = "pop_next"
    /\ nx' = [nx EXCEPT ![c] = next[old[c].node]]
    /\ Goto(c, "pop_cas")
    /\ UNCHANGED <<head_, next, data, free, gen, sent, newNode, old, out>>

\* if (head_.compare_exchange_weak(old_head, old_head->next)) {
\*     value = old_head->data; delete old_head; return true; }
\* A failed CAS stores the current head_ into old_head.
PopCas(c) ==
    /\ pc[c] = "pop_cas"
    /\ IF head_ = old[c].node
         THEN /\ head_' = nx[c]
              /\ out' = Append(out, data[old[c].node])
              /\ free' = free \cup {old[c].node}
              /\ gen' = [gen EXCEPT ![old[c].node] = @ + 1]
              /\ Goto(c, "pop_load")
              /\ UNCHANGED old
         ELSE /\ old' = [old EXCEPT ![c] = Ptr(head_)]
              /\ Goto(c, "pop_test")
              /\ UNCHANGED <<head_, out, free, gen>>
    /\ UNCHANGED <<next, data, sent, newNode, nx>>

-----------------------------------------------------------------------------

Init ==
    /\ head_ = Null
    /\ next = [n \in Nodes |-> Null]
    /\ data = [n \in Nodes |-> NoValue]
    /\ free = Nodes
    /\ gen = [n \in Nodes |-> 0]
    /\ pc = [t \in Threads |-> IF t \in Poppers THEN "pop_load"
                               ELSE IF Len(Input[t]) > 0 THEN "push_alloc" ELSE "done"]
    /\ sent = [p \in Pushers |-> 0]
    /\ newNode = [p \in Pushers |-> Null]
    /\ old = [t \in Poppers |-> NullPtr]
    /\ nx = [t \in Poppers |-> Null]
    /\ out = <<>>

Pusher(p) == PushAlloc(p) \/ PushCas(p)

Popper(c) == PopLoad(c) \/ PopTest(c) \/ PopNext(c) \/ PopCas(c)

Next == (\E p \in Pushers : Pusher(p)) \/ (\E c \in Poppers : Popper(c))

\* Every thread runs on its own OS thread and is scheduled eventually.
Fairness == /\ \A p \in Pushers : WF_vars(Pusher(p))
            /\ \A c \in Poppers : WF_vars(Popper(c))

Spec == Init /\ [][Next]_vars /\ Fairness

-----------------------------------------------------------------------------
\* The items on the stack, top first, following next from head_ (at most
\* |Nodes| of them, should the pointers cycle).
RECURSIVE ListFrom(_, _)
ListFrom(n, fuel) ==
    IF n = Null \/ fuel = 0 THEN <<>>
    ELSE <<data[n]>> \o ListFrom(next[n], fuel - 1)

Contents == ListFrom(head_, Cardinality(Nodes))

TypeOK ==
    /\ head_ \in Nodes \cup {Null}
    /\ next \in [Nodes -> Nodes \cup {Null}]
    /\ data \in [Nodes -> Values \cup {NoValue}]
    /\ free \subseteq Nodes
    /\ \A n \in Nodes \ free : data[n] \in Values   \* an allocated node holds an item
    /\ gen \in [Nodes -> Nat]
    /\ sent \in [Pushers -> Nat]
    /\ newNode \in [Pushers -> Nodes \cup {Null}]
    /\ nx \in [Poppers -> Nodes \cup {Null}]
    /\ out \in Seq(Values)

-----------------------------------------------------------------------------
(* Properties                                                              *)

(* The stack is linearizable: mapping the abstract stack to the items     *)
(* reachable from head_ and the abstract history to the values the pops   *)
(* returned, every step of push/pop is a step of LifoStack or leaves it   *)
(* unchanged.  This is what breaks when pop's CAS succeeds on an address  *)
(* that was deleted and handed out again since it read old_head->next     *)
(* (ABA on head_).                                                         *)
Stack == INSTANCE LifoStack WITH st <- Contents, out <- out
LinearizableLifo == Stack!Spec

(* pop never dereferences a node deleted after it loaded the pointer:     *)
(* old_head->next is read before the CAS, while another pop may already   *)
(* have deleted old_head.                                                  *)
NoUseAfterFree == \A c \in Poppers : pc[c] = "pop_next" => Live(old[c])

(* Every pushed item is eventually popped: a push or pop whose CAS fails  *)
(* retries with the head_ the CAS returned, and some thread's CAS always  *)
(* succeeds.                                                               *)
AllItemsPopped == <>(Len(out) = TotalItems)

=============================================================================
