----------------------------- MODULE FifoQueue -----------------------------
(***************************************************************************)
(* What a linearizable FIFO queue promises: every enqueue appends its item *)
(* at one instant, every successful dequeue removes the oldest item at one *)
(* instant and hands it to the caller.  `out` is the history of items      *)
(* handed out, in the order the dequeues took effect.                      *)
(***************************************************************************)
EXTENDS Sequences

CONSTANT Values

VARIABLES q, out

Init == q = <<>> /\ out = <<>>

Enqueue(v) == q' = Append(q, v) /\ UNCHANGED out

Dequeue == q # <<>> /\ q' = Tail(q) /\ out' = Append(out, Head(q))

Next == (\E v \in Values : Enqueue(v)) \/ Dequeue

Spec == Init /\ [][Next]_<<q, out>>
=============================================================================
