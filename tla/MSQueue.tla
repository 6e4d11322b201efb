------------------------------ MODULE MSQueue ------------------------------
(***************************************************************************)
(* core::lockfree::LockFreeQueue<T> (src/sync/lockfree_structures.cpp),   *)
(* a Michael-Scott queue: a linked list with a dummy head node and atomic *)
(* head_/tail_ pointers moved by compare-and-swap.                         *)
(*                                                                         *)
(* Every atomic load or CAS of the code is one step of its thread.  Nodes  *)
(* are addresses from the set Nodes.  `new Node{item, nullptr}` takes any  *)
(* free address (the allocator may hand back one that was just deleted),   *)
(* and the `delete head` after a successful dequeue returns the address to *)
(* the free pool at once, leaving its fields as they were.  gen[n] counts  *)
(* how often n was deleted; a thread keeps the count it saw beside every   *)
(* pointer it loaded, so a dereference of a node deleted since is visible. *)
(***************************************************************************)
EXTENDS Integers, Sequences, FiniteSets

CONSTANTS
    Producers,   \* threads calling enqueue
    Consumers,   \* threads calling dequeue in a loop
    Nodes,       \* node addresses
    Dummy,       \* the address of the dummy node the constructor allocates
    Null,        \* nullptr
    NoValue,     \* contents of a node that never held an item
    Input,       \* Input[p]: the items producer p enqueues, in order
    ReuseFreed   \* whether `new` may return an address `delete` released

Values == UNION {{Input[p][i] : i \in DOMAIN Input[p]} : p \in Producers}
TotalItems == LET F[S \in SUBSET Producers] ==
                    IF S = {} THEN 0
                    ELSE LET p == CHOOSE x \in S : TRUE
                         IN Len(Input[p]) + F[S \ {p}]
              IN F[Producers]

ASSUME /\ Producers \cap Consumers = {}
       /\ Dummy \in Nodes
       /\ Null \notin Nodes
       /\ NoValue \notin Values
       /\ Cardinality(Nodes) >= 1 + TotalItems   \* `new` never runs dry
       /\ ReuseFreed \in BOOLEAN

Threads == Producers \cup Consumers

VARIABLES
    head_, tail_,   \* the queue's atomic head and tail pointers
    next, data,     \* the fields of every node
    free,           \* addresses not currently allocated
    gen,            \* gen[n]: number of times n has been deleted
    pc,             \* control point of every thread
    sent,           \* sent[p]: items of Input[p] whose enqueue returned
    newNode,        \* the node a producer allocated for its current item
    tl, hd, nx,     \* a thread's local copies of tail, head and next
    val,            \* the value a consumer read before its head CAS
    out             \* history: items returned by dequeue, in order

vars == <<head_, tail_, next, data, free, gen, pc, sent, newNode,
          tl, hd, nx, val, out>>

\* A local pointer: an address and the delete count it had when loaded.
Ptr(n) == [node |-> n, gen |-> IF n \in Nodes THEN gen[n] ELSE 0]
NullPtr == [node |-> Null, gen |-> 0]

\* The pointer still designates the object it was loaded from.
Live(p) == p.node \in Nodes \ free /\ p.gen = gen[p.node]

Goto(t, l) == pc' = [pc EXCEPT ![t] = l]

\* The addresses `new` may return: any free one, or, with an allocator that
\* does not recycle within the run, only those never allocated before.
Allocatable == IF ReuseFreed THEN free ELSE {n \in free : gen[n] = 0}

-----------------------------------------------------------------------------
(* Mutants: plausible slips in the code, each of which some property of a  *)
(* run must catch.                                                         *)

\* enqueue's retry loop re-reads tail->next but not tail_ itself.
EnqCheckKeepsTail(p) ==
    /\ pc[p] = "enq_check"
    /\ Goto(p, IF tl[p].node # tail_ THEN "enq_load_next"
               ELSE IF nx[p].node = Null THEN "enq_link"
               ELSE "enq_swing")
    /\ UNCHANGED <<head_, tail_, next, data, free, gen, sent, newNode, tl, hd, nx, val, out>>

\* dequeue forgets the `next == nullptr` test when head == tail.
DeqCheckNoEmptyTest(c) ==
    /\ pc[c] = "deq_check"
    /\ Goto(c, CASE hd[c].node # head_         -> "deq_load_head"
                 [] hd[c].node = tl[c].node   -> "deq_swing"
                 [] nx[c].node # Null         -> "deq_read"
                 [] OTHER                     -> "deq_load_head")
    /\ UNCHANGED <<head_, tail_, next, data, free, gen, sent, newNode, tl, hd, nx, val, out>>

\* enqueue links with a plain store instead of a CAS on tail->next.
EnqLinkStore(p) ==
    /\ pc[p] = "enq_link"
    /\ next' = [next EXCEPT ![tl[p].node] = newNode[p]]
    /\ Goto(p, "enq_advance")
    /\ UNCHANGED <<head_, tail_, data, free, gen, sent, newNode, tl, hd, nx, val, out>>

\* dequeue stores head_ = next instead of compare-and-swapping it.
DeqCasStore(c) ==
    /\ pc[c] = "deq_cas"
    /\ head_' = nx[c].node
    /\ free' = free \cup {hd[c].node}
    /\ gen' = [gen EXCEPT ![hd[c].node] = @ + 1]
    /\ out' = Append(out, val[c])
    /\ Goto(c, "deq_load_head")
    /\ UNCHANGED <<tail_, next, data, sent, newNode, tl, hd, nx, val>>

-----------------------------------------------------------------------------
(* enqueue(item), lockfree_structures.cpp lines 12-36                      *)

\* Node* new_node = new Node{item, nullptr};
EnqAlloc(p) ==
    /\ pc[p] = "enq_alloc"
    /\ sent[p] < Len(Input[p])
    /\ \E n \in Allocatable :
         /\ free' = free \ {n}
         /\ data' = [data EXCEPT ![n] = Input[p][sent[p] + 1]]
         /\ next' = [next EXCEPT ![n] = Null]
         /\ newNode' = [newNode EXCEPT ![p] = n]
    /\ Goto(p, "enq_load_tail")
    /\ UNCHANGED <<head_, tail_, gen, sent, tl, hd, nx, val, out>>

\* Node* tail = tail_.load();
EnqLoadTail(p) ==
    /\ pc[p] = "enq_load_tail"
    /\ tl' = [tl EXCEPT ![p] = Ptr(tail_)]
    /\ Goto(p, "enq_load_next")
    /\ UNCHANGED <<head_, tail_, next, data, free, gen, sent, newNode, hd, nx, val, out>>

\* Node* next = tail->next.load();
EnqLoadNext(p) ==
    /\ pc[p] = "enq_load_next"
    /\ nx' = [nx EXCEPT ![p] = Ptr(next[tl[p].node])]
    /\ Goto(p, "enq_check")
    /\ UNCHANGED <<head_, tail_, next, data, free, gen, sent, newNode, tl, hd, val, out>>

\* if (tail == tail_.load()) { if (next == nullptr) ... else ... }
EnqCheck(p) ==
    /\ pc[p] = "enq_check"
    /\ Goto(p, IF tl[p].node # tail_ THEN "enq_load_tail"
               ELSE IF nx[p].node = Null THEN "enq_link"
               ELSE "enq_swing")
    /\ UNCHANGED <<head_, tail_, next, data, free, gen, sent, newNode, tl, hd, nx, val, out>>

\* tail->next.compare_exchange_weak(next, new_node)
EnqLink(p) ==
    /\ pc[p] = "enq_link"
    /\ IF next[tl[p].node] = nx[p].node
         THEN /\ next' = [next EXCEPT ![tl[p].node] = newNode[p]]
              /\ Goto(p, "enq_advance")
         ELSE /\ Goto(p, "enq_load_tail")
              /\ UNCHANGED next
    /\ UNCHANGED <<head_, tail_, data, free, gen, sent, newNode, tl, hd, nx, val, out>>

\* tail_.compare_exchange_strong(tail, new_node); return;
EnqAdvance(p) ==
    /\ pc[p] = "enq_advance"
    /\ tail_' = IF tail_ = tl[p].node THEN newNode[p] ELSE tail_
    /\ sent' = [sent EXCEPT ![p] = @ + 1]
    /\ Goto(p, IF sent[p] + 1 < Len(Input[p]) THEN "enq_alloc" ELSE "done")
    /\ UNCHANGED <<head_, next, data, free, gen, newNode, tl, hd, nx, val, out>>

\* else tail_.compare_exchange_strong(tail, next);  (help a lagging tail)
EnqSwing(p) ==
    /\ pc[p] = "enq_swing"
    /\ tail_' = IF tail_ = tl[p].node THEN nx[p].node ELSE tail_
    /\ Goto(p, "enq_load_tail")
    /\ UNCHANGED <<head_, next, data, free, gen, sent, newNode, tl, hd, nx, val, out>>

-----------------------------------------------------------------------------
(* dequeue(), lockfree_structures.cpp lines 39-66; the consumer calls it   *)
(* again after every return, the empty-queue throw included.               *)

\* Node* head = head_.load();
DeqLoadHead(c) ==
    /\ pc[c] = "deq_load_head"
    /\ hd' = [hd EXCEPT ![c] = Ptr(head_)]
    /\ Goto(c, "deq_load_tail")
    /\ UNCHANGED <<head_, tail_, next, data, free, gen, sent, newNode, tl, nx, val, out>>

\* Node* tail = tail_.load();
DeqLoadTail(c) ==
    /\ pc[c] = "deq_load_tail"
    /\ tl' = [tl EXCEPT ![c] = Ptr(tail_)]
    /\ Goto(c, "deq_load_next")
    /\ UNCHANGED <<head_, tail_, next, data, free, gen, sent, newNode, hd, nx, val, out>>

\* Node* next = head->next.load();
DeqLoadNext(c) ==
    /\ pc[c] = "deq_load_next"
    /\ nx' = [nx EXCEPT ![c] = Ptr(next[hd[c].node])]
    /\ Goto(c, "deq_check")
    /\ UNCHANGED <<head_, tail_, next, data, free, gen, sent, newNode, tl, hd, val, out>>

\* if (head == head_.load()) { if (head == tail) { if (next == nullptr)
\*   throw "Queue is empty"; ... } else { if (next != nullptr) ... } }
DeqCheck(c) ==
    /\ pc[c] = "deq_check"
    /\ Goto(c, CASE hd[c].node # head_                              -> "deq_load_head"
                 [] hd[c].node = tl[c].node /\ nx[c].node = Null   -> "deq_load_head"
                 [] hd[c].node = tl[c].node                        -> "deq_swing"
                 [] nx[c].node # Null                              -> "deq_read"
                 [] OTHER                                          -> "deq_load_head")
    /\ UNCHANGED <<head_, tail_, next, data, free, gen, sent, newNode, tl, hd, nx, val, out>>

\* tail_.compare_exchange_strong(tail, next);
DeqSwing(c) ==
    /\ pc[c] = "deq_swing"
    /\ tail_' = IF tail_ = tl[c].node THEN nx[c].node ELSE tail_
    /\ Goto(c, "deq_load_head")
    /\ UNCHANGED <<head_, next, data, free, gen, sent, newNode, tl, hd, nx, val, out>>

\* T value = next->data;
DeqRead(c) ==
    /\ pc[c] = "deq_read"
    /\ val' = [val EXCEPT ![c] = data[nx[c].node]]
    /\ Goto(c, "deq_cas")
    /\ UNCHANGED <<head_, tail_, next, data, free, gen, sent, newNode, tl, hd, nx, out>>

\* if (head_.compare_exchange_weak(head, next)) { delete head; return value; }
DeqCas(c) ==
    /\ pc[c] = "deq_cas"
    /\ IF head_ = hd[c].node
         THEN /\ head_' = nx[c].node
              /\ free' = free \cup {hd[c].node}
              /\ gen' = [gen EXCEPT ![hd[c].node] = @ + 1]
              /\ out' = Append(out, val[c])
         ELSE UNCHANGED <<head_, free, gen, out>>
    /\ Goto(c, "deq_load_head")
    /\ UNCHANGED <<tail_, next, data, sent, newNode, tl, hd, nx, val>>

-----------------------------------------------------------------------------

Init ==
    /\ head_ = Dummy
    /\ tail_ = Dummy
    /\ next = [n \in Nodes |-> Null]
    /\ data = [n \in Nodes |-> NoValue]
    /\ free = Nodes \ {Dummy}
    /\ gen = [n \in Nodes |-> 0]
    /\ pc = [t \in Threads |-> IF t \in Consumers THEN "deq_load_head"
                               ELSE IF Len(Input[t]) > 0 THEN "enq_alloc" ELSE "done"]
    /\ sent = [p \in Producers |-> 0]
    /\ newNode = [p \in Producers |-> Null]
    /\ tl = [t \in Threads |-> NullPtr]
    /\ hd = [t \in Threads |-> NullPtr]
    /\ nx = [t \in Threads |-> NullPtr]
    /\ val = [t \in Threads |-> NoValue]
    /\ out = <<>>

Producer(p) ==
    \/ EnqAlloc(p) \/ EnqLoadTail(p) \/ EnqLoadNext(p) \/ EnqCheck(p)
    \/ EnqLink(p) \/ EnqAdvance(p) \/ EnqSwing(p)

Consumer(c) ==
    \/ DeqLoadHead(c) \/ DeqLoadTail(c) \/ DeqLoadNext(c) \/ DeqCheck(c)
    \/ DeqSwing(c) \/ DeqRead(c) \/ DeqCas(c)

Next == (\E p \in Producers : Producer(p)) \/ (\E c \in Consumers : Consumer(c))

\* Every thread runs on its own OS thread and is scheduled eventually.
Fairness == \A t \in Threads : WF_vars(Producer(t) \/ Consumer(t))

Spec == Init /\ [][Next]_vars /\ Fairness

-----------------------------------------------------------------------------
(* The items in the queue: the values of the nodes after the dummy,        *)
(* following next pointers (at most |Nodes| of them, should they cycle).   *)
RECURSIVE ListFrom(_, _)
ListFrom(n, fuel) ==
    IF n = Null \/ fuel = 0 THEN <<>>
    ELSE <<data[n]>> \o ListFrom(next[n], fuel - 1)

Contents == ListFrom(next[head_], Cardinality(Nodes))

TypeOK ==
    /\ head_ \in Nodes /\ tail_ \in Nodes
    /\ next \in [Nodes -> Nodes \cup {Null}]
    /\ data \in [Nodes -> Values \cup {NoValue}]
    /\ free \subseteq Nodes
    /\ gen \in [Nodes -> Nat]
    /\ sent \in [Producers -> Nat]
    /\ newNode \in [Producers -> Nodes \cup {Null}]
    /\ val \in [Threads -> Values \cup {NoValue}]
    /\ out \in Seq(Values)

-----------------------------------------------------------------------------
(* Properties                                                              *)

(* The queue is a linearizable FIFO: mapping the abstract queue to the     *)
(* items reachable from head_ and the abstract history to the values the   *)
(* dequeues returned, every step of enqueue/dequeue is a step of FifoQueue *)
(* or leaves it unchanged.  This is what breaks when a node that another   *)
(* thread still holds is deleted and handed out again (ABA on head_).      *)
Queue == INSTANCE FifoQueue WITH q <- Contents, out <- out
LinearizableFifo == Queue!Spec

(* No thread dereferences a node that was deleted after it loaded the      *)
(* pointer: enqueue's tail->next (load and CAS), dequeue's head->next and  *)
(* next->data.  The code deletes the old head right after its CAS, while  *)
(* other threads may still hold it.                                        *)
DerefPtr(t) ==
    CASE pc[t] \in {"enq_load_next", "enq_link"} -> tl[t]
      [] pc[t] = "deq_load_next"                -> hd[t]
      [] pc[t] = "deq_read"                     -> nx[t]
      [] OTHER                                  -> NullPtr
NoUseAfterFree ==
    \A t \in Threads :
        pc[t] \in {"enq_load_next", "enq_link", "deq_load_next", "deq_read"}
            => Live(DerefPtr(t))

(* Every item the producers enqueue is eventually returned by a dequeue:   *)
(* the CAS loops of enqueue and dequeue cannot retry forever when each    *)
(* thread keeps being scheduled.                                           *)
AllItemsDequeued == <>(Len(out) = TotalItems)

=============================================================================
