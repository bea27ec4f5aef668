--------------------------- MODULE MCLoadBalancer ---------------------------
(* Instance of LoadBalancer for TLC.                                       *)
EXTENDS LoadBalancer

MaxUneven == [s \in Sources |-> IF s = 1 THEN 2 ELSE 1]

(* A channel with two URLs on source 1 and one on source 2; one that only  *)
(* source 3 carries; and a slug without URLs.                              *)
TwoCarriers == [s \in Sources |-> CASE s = 1 -> {1, 2} [] s = 2 -> {1} [] OTHER -> {}]
ThirdOnly == [s \in Sources |-> IF s = 3 THEN {1} ELSE {}]
Maps == {TwoCarriers, ThirdOnly, [s \in Sources |-> {}]}
=============================================================================
