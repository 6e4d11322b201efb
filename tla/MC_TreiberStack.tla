--------------------------- MODULE MC_TreiberStack ---------------------------
(* Instances of TreiberStack for TLC: two pushers racing on head_ with two *)
(* poppers, and one pusher of three items whose third `new` may reuse a    *)
(* deleted address while a popper still holds it.                          *)
EXTENDS TreiberStack, TLC

CONSTANTS p1, p2, c1, c2, n1, n2, n3

MCInputTwo == (p1 :> <<1, 2>>) @@ (p2 :> <<3>>)
MCInputThree == p1 :> <<1, 2, 3>>
====
