----------------------------- MODULE MC_MSQueue -----------------------------
(* Instances of MSQueue for TLC: two producers racing on tail_ and two    *)
(* consumers racing on head_, one item each, and a three-item run for the *)
(* use-after-free search.  One node more than the items means `new`      *)
(* never runs dry.                                                          *)
EXTENDS MSQueue, TLC

CONSTANTS p1, p2, c1, c2, n1, n2, n3, n4

MCInputMPSC == (p1 :> <<1, 2>>) @@ (p2 :> <<3>>)
MCInputTwo == (p1 :> <<1>>) @@ (p2 :> <<2>>)
====
