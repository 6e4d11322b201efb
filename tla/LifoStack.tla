------------------------------ MODULE LifoStack ------------------------------
(***************************************************************************)
(* What a linearizable stack promises: every push puts its item on top at *)
(* one instant, every successful pop takes the top item at one instant    *)
(* and hands it to the caller.  `out` is the history of items handed out, *)
(* in the order the pops took effect.                                      *)
(***************************************************************************)
EXTENDS Sequences

CONSTANT Values

VARIABLES st, out

Init == st = <<>> /\ out = <<>>

Push(v) == st' = <<v>> \o st /\ UNCHANGED out

Pop == st # <<>> /\ st' = Tail(st) /\ out' = Append(out, Head(st))

Next == (\E v \in Values : Push(v)) \/ Pop

Spec == Init /\ [][Next]_<<st, out>>
=============================================================================
