----------------------------- MODULE MCSessions -----------------------------
(* Three connections over two ENet slots and two names: two clients can ask for one *)
(* name, a slot is used again while its first player is still being announced, and *)
(* whoever stays watches another one's quit race the join of a third.              *)
EXTENDS Sessions, TLC

Symmetry == Permutations(Conns) \cup Permutations(Slots) \cup Permutations(Names)
=============================================================================
